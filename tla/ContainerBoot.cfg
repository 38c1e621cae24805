CONSTANTS
    Users = {u1}
    MaxCrashes = 0
    Deployments = {"compose"}
SPECIFICATION MGSpec
PROPERTY
    ApiComesUp
CHECK_DEADLOCK FALSE
