SPECIFICATION Spec
CONSTANTS
    Null = Null
    Monitor = Monitor
    Requesters = {r1}
    Tags <- Releases
    Current = 2
    Retry = 1
    Interval = 4
    PruneEvery = 2
    CanRestart = TRUE
    MaxSkipped = 4
INVARIANTS
    TypeOK
    CacheIsFresh
    FooterTellsTheAnswer
