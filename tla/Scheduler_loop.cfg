SPECIFICATION Spec
CONSTANTS
    Null = Null
    UpdateJob = UpdateJob
    Targets = {t1, t2}
    Workers = {w1}
    Requesters = {r1}
    Intervals = {1}
    MaxAge = 1
    PruneEvery = 1
    MaxFaults = 1
INVARIANTS
    TypeOK
    ClaimsExact
PROPERTIES
    LoopNeverBlocks
    DueIsChecked
    UpdatesAskedFor
CHECK_DEADLOCK FALSE
