SPECIFICATION Spec
CONSTANTS
    Null = Null
    Targets = {t1, t2}
    Workers = {w1}
    Requesters = {r1}
    Admins = {a1, a2}
    Thresholds = {1, 2}
    ReminderHours = 1
    Faults <- NoFaults
    MaxTime = 2
    MaxFails = 3
SYMMETRY Symmetric
CONSTRAINT SecondTarget
INVARIANTS
    NoAlertForgotten
    FailuresAreReal
PROPERTIES
    DownAfterNFailures
CHECK_DEADLOCK FALSE
