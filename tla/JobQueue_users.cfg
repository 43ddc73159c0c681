SPECIFICATION Spec
CONSTANTS
    a = a
    b = b
    c = c
    w1 = w1
    w2 = w2
    NoJob = NoJob
    Job = {a, b}
    Worker = {w1, w2}
    Parents <- Chain
    Capacity = 1
    Sequential = FALSE
    MaxRetries = 2
    Outcomes = {"done", "failed", "conflict"}
    Faults = {"restart", "crash", "crash before waking", "lost request"}
    Acts = {"requeue", "done", "cancel"}
    FaultBound = 1
    ActBound = 2
    RequestBound = 2
    RetryBound = 1
SYMMETRY AlikeWorkers
CHECK_DEADLOCK FALSE
INVARIANTS
    CapacityRespected
