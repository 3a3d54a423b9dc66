SPECIFICATION Spec
CONSTANTS
    Null = Null
    Targets = {t1}
    Workers = {w1}
    Requesters = {}
    Admins = {a1}
    Thresholds = {1}
    ReminderHours = 0
    Faults <- NoFaults
    MaxTime = 0
    MaxFails = 1
INVARIANT
    DisabledIsUnknown
CHECK_DEADLOCK FALSE
