SPECIFICATION Spec
CONSTANTS
    a = a
    b = b
    c = c
    w1 = w1
    w2 = w2
    NoJob = NoJob
    Job = {a, b, c}
    Worker = {w1, w2}
    Parents <- Join
    Capacity = 2
    Sequential = FALSE
    MaxRetries = 2
    Outcomes = {"done", "failed", "retry", "ignore"}
    Faults = {"crash", "restart", "lost request"}
    Acts = {}
    FaultBound = 2
    ActBound = 0
    RequestBound = 2
    RetryBound = 2
SYMMETRY AlikeParents
CHECK_DEADLOCK FALSE
INVARIANTS
    TypeOK
    NoLostWakeup
PROPERTIES
    ImplementsJobGraph
