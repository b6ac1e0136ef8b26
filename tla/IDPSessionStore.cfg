SPECIFICATION Spec
CONSTANTS
    Request = {r1, r2}
    Session = {s1}
    SAMLProvider = {sp1}
    Free = Free
    Abandoned = Abandoned
    Lifetime = 3
    IdleTimeout = 2
    IdleTimeoutEnabled = TRUE
    LeaseMayExpire = FALSE
    MaxTime = 2
    MaxCrashes = 1
SYMMETRY Symmetry
INVARIANTS TypeOK EndlessOnlyInFlight
PROPERTIES NoLostUpdate ImplementsLifecycle
