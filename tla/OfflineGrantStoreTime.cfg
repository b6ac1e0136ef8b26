SPECIFICATION Spec
CONSTANTS
    Request = {r1, r2}
    Grant = {g1}
    Authorization = {a1}
    Flow = {"create", "refresh", "cookie", "issue", "revoke", "terminate"}
    Free = Free
    Abandoned = Abandoned
    Lifetime = 2
    IdleTimeout = 2
    IdleTimeoutEnabled = FALSE
    ShortLifetime = 1
    RotationEnabled = FALSE
    MaxTokens = 2
    MaxRotations = 0
    MaxTime = 2
    MaxCrashes = 0
SYMMETRY Symmetry
INVARIANTS GrantHasToken
PROPERTIES NotExpiredBeforeTimeout ImplementsLedger
