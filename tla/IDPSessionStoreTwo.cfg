SPECIFICATION Spec
CONSTANTS
    Request = {r1, r2}
    Session = {s1, s2}
    SAMLProvider = {sp1}
    Free = Free
    Abandoned = Abandoned
    Lifetime = 2
    IdleTimeout = 1
    IdleTimeoutEnabled = TRUE
    LeaseMayExpire = TRUE
    MaxTime = 0
    MaxCrashes = 0
SYMMETRY SymmetryTwo
INVARIANTS UnlistedOnlyByRace TerminationIsComplete
PROPERTIES NoResurrection
