SPECIFICATION DbSpec
CONSTANTS
    Null = Null
    Threads = {c1, c2}
    Targets = {t1}
    Children = {"target_state", "check_history"}
INVARIANTS
    NoOrphans
    LockIsGivenBack
PROPERTIES
    AtomicSpec
    EveryCallReturns
