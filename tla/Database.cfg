CONSTANTS
    p1 = p1
    m1 = m1
    w1 = w1
    c1 = c1
    c2 = c2
    u1 = u1
    u2 = u2
    u3 = u3
    Public = {p1}
    Members = {m1}
    Uploads = {w1}
    Chats = {c1, c2}
    Size = 2
    Users = {u1, u2, u3}
    MaxCrashes = 2
    Deployments = {"compose", "image"}
SPECIFICATION DBSpec
INVARIANTS
    NoHoldAndWait
    IdleHoldsNothing
    SchemaFollowsRevision
    FailsOnlyForGoogleOnly
    NobodyStranded
PROPERTIES
    EveryoneServed
    UpgradeArrives
CHECK_DEADLOCK FALSE
