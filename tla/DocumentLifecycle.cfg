CONSTANTS
    d1 = d1
    d2 = d2
    u1 = u1
    u2 = u2
    r1 = r1
    r2 = r2
    Docs = {d1, d2}
    Users = {u1, u2}
    Owner <- MCOwner
    NoDoc = NoDoc
    Deletes = {r1, r2}
    MaxChunks = 2
    Faults = {"disk", "embed", "chroma", "db", "crash"}
SPECIFICATION Spec
INVARIANTS
    RowHasFile
    ReadyIsIndexed
    DeletedHasNoFile
    SettledDeleteDeindexes
PROPERTIES
    ImplementsCatalogue
    ProcessingEnds
CHECK_DEADLOCK FALSE
