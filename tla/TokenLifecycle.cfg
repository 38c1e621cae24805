CONSTANTS
    a1 = a1
    a2 = a2
    a3 = a3
    f1 = f1
    f2 = f2
    f3 = f3
    p1 = p1
    v1 = v1
    q1 = q1
    q2 = q2
    Tokens = {a1, a2, f1, f2, p1}
    Kind <- MCKind
    Life <- MCLife
    Requests = {q1, q2}
    NoToken = NoToken
    TPS = 2
    MaxClock = 4
    Faults = {"outage"}
SPECIFICATION Spec
INVARIANTS
    KeyEndsWithToken
    SpentTokenRejected
CHECK_DEADLOCK FALSE
SYMMETRY Symmetry
