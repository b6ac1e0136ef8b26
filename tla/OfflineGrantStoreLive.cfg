SPECIFICATION FairSpec
CONSTANTS
    Request = {r1, r2}
    Grant = {g1}
    Authorization = {a1}
    Flow = {"create", "refresh", "bearer", "reauth", "saml", "terminate", "revoke"}
    Free = Free
    Abandoned = Abandoned
    Lifetime = 2
    IdleTimeout = 2
    IdleTimeoutEnabled = FALSE
    ShortLifetime = 1
    RotationEnabled = FALSE
    MaxTokens = 1
    MaxRotations = 0
    MaxTime = 1
    MaxCrashes = 1
PROPERTIES GrantMutexIsReleased
