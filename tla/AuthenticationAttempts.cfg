SPECIFICATION Spec
CONSTANTS
    Request = {r1, r2}
    Contributor = {"ip1", "ip2"}
    Global = Global
    MaxAttempts = 2
    MinDuration = 1
    MaxDuration = 2
    BackoffNum = 3
    BackoffDen = 2
    HistoryDuration = 2
    Limits <- MCLimits
    Weights = {2}
    Config <- MCConfig
    MaxTime = 3
    MaxFailures = 1
SYMMETRY Symmetry
INVARIANTS
    TypeOK RateIsBounded GuessRateIsBounded TimeToActIsHonest TotalIsSumOfParts
    GuessesPerLockAreBounded
PROPERTIES ImplementsLeakyBucket LockIsKept
