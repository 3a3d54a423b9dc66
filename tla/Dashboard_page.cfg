SPECIFICATION MCSpec
CONSTANTS
    Null = Null
    Targets = {t1}
    PageTargets = {a, b}
    Requests = {q1, q2}
    MaxLost = 1
    Pages = {p1}
    Windows = {1, 2}
    Retentions = {0, 1}
    Day = 2
    MaxTime = 3
    MaxRows = 2
INVARIANTS
    CountsFitRows
    UptimeIsWhole
PROPERTIES
    PageSettles
CHECK_DEADLOCK FALSE
