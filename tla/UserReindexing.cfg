SPECIFICATION FairSpec
CONSTANTS
    Consumer = {c1, c2}
    Task = {t1, t2}
    Change = {t1, t2}
    NoTask = NoTask
    MaxFailures = 2
    MaxTime = 3
INVARIANTS
    TypeOK TaskIsLostOnlyByFailure UpToDateMarkIsHonest CompletedTaskWasIndexed
PROPERTY IndexCatchesUp
