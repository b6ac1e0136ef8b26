SPECIFICATION Spec
CONSTANTS
    Process = {p1, p2}
    MaxFailedAttempts = 1
    ValidPeriod = 2
    Bounds <- SmallBounds
SYMMETRY Symmetry
INVARIANTS TypeOK WrongGuessesAreBounded UsedTwiceOnlyByOverlap OlderCodeOnlyByOverlap
PROPERTIES ExpiryIsNeverRenewed
