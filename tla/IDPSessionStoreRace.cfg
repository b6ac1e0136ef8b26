SPECIFICATION Spec
CONSTANTS
    Request = {r1, r2}
    Session = {s1}
    SAMLProvider = {sp1}
    Free = Free
    Abandoned = Abandoned
    Lifetime = 3
    IdleTimeout = 2
    IdleTimeoutEnabled = TRUE
    LeaseMayExpire = FALSE
    MaxTime = 0
    MaxCrashes = 0
SYMMETRY Symmetry
INVARIANTS AllSessionsAreTerminated
