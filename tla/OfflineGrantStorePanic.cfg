SPECIFICATION Spec
CONSTANTS
    Request = {r1, r2}
    Grant = {g1}
    Authorization = {a1, a2}
    Flow = {"create", "cookie", "issue", "revoke"}
    Free = Free
    Abandoned = Abandoned
    Lifetime = 3
    IdleTimeout = 2
    IdleTimeoutEnabled = FALSE
    ShortLifetime = 1
    RotationEnabled = TRUE
    MaxTokens = 2
    MaxRotations = 2
    MaxTime = 0
    MaxCrashes = 0
SYMMETRY Symmetry
INVARIANTS ResolvedTokenIsStillThere
CHECK_DEADLOCK FALSE
