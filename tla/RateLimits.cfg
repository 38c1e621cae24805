CONSTANTS
    Requests = {r1, r2, r3, r4, r5}
    Limit = 2
    Period = 3
    MayFail = TRUE
    Attempts = {a1, a2, a3, a4}
    Threshold = 2
    BaseDelay = 1
    MaxDelay = 3
    Window = 3
    Faults = {"outage"}
SPECIFICATION RLSpec
INVARIANTS
    RefusedOverLimit
    LimitPerWindow
    BurstBounded
    OnlyBrokenImmortal
PROPERTIES
    WindowEnds
    LiftedOnlyByEarlier
    BlockEnds
