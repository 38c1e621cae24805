CONSTANTS
    d1 = d1
    d2 = d2
    u1 = u1
    u2 = u2
    r1 = r1
    r2 = r2
    Docs = {d1}
    Users = {u1, u2}
    Owner <- MCOwner
    NoDoc = NoDoc
    Deletes = {r1}
    MaxChunks = 1
    Faults = {}
SPECIFICATION Spec
INVARIANT
    DeleteDeindexes
CHECK_DEADLOCK FALSE
