SPECIFICATION Spec
CONSTANTS
    Request = {r1}
    Grant = {g1}
    Authorization = {a1}
    Flow = {"create", "cookie"}
    Free = Free
    Abandoned = Abandoned
    Lifetime = 5
    IdleTimeout = 2
    IdleTimeoutEnabled = TRUE
    ShortLifetime = 1
    RotationEnabled = TRUE
    MaxTokens = 2
    MaxRotations = 2
    MaxTime = 3
    MaxCrashes = 0
SYMMETRY Symmetry
PROPERTIES NotExpiredBeforeTimeout
CHECK_DEADLOCK FALSE
