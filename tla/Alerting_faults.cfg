SPECIFICATION Spec
CONSTANTS
    Null = Null
    Targets = {t1}
    Workers = {w1}
    Requesters = {r1}
    Admins = {a1}
    Thresholds = {1, 2}
    ReminderHours = 2
    Faults <- AllFaults
    MaxTime = 2
    MaxFails = 3
INVARIANTS
    TypeOK
    ClaimExclusive
    SnapshotCurrent
    DownIsStamped
    OneEmailPerStamp
PROPERTIES
    ReminderThrottle
    PolicySpec
CHECK_DEADLOCK FALSE
