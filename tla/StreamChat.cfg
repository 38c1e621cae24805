CONSTANTS
    u1 = u1
    u2 = u2
    d1 = d1
    d2 = d2
    d3 = d3
    k1 = k1
    k2 = k2
    k3 = k3
    k4 = k4
    User = u1
    Docs = {d1, d2, d3}
    Owner <- MCOwner
    Chunks = {k1, k2, k3, k4}
    DocOf <- MCDocOf
    Content <- MCContent
    Words = {"fact", "toxic", "sorry", "name", "rephrase"}
    Blank = " "
    Flagged = {"toxic"}
    MinOverlap = 1
    TopK = 2
    Introduction <- MCIntroduction
    Apology <- MCApology
    Fallback <- MCFallback
    MaxTokens = 2
    NotStored = NotStored
SPECIFICATION Spec
INVARIANTS
    StoredWasShown
    CitationsMatchPrompt
    OwnScopeOnly
PROPERTY
    ImplementsGraph
CHECK_DEADLOCK FALSE
