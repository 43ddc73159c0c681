SPECIFICATION FairSpec
CONSTANTS
    a = a
    b = b
    c = c
    w1 = w1
    w2 = w2
    NoJob = NoJob
    Job = {a, b, c}
    Worker = {w1, w2}
    Parents <- Join
    Capacity = 1
    Sequential = FALSE
    MaxRetries = 2
    Outcomes = {"done", "failed", "retry"}
    Faults = {"crash", "restart"}
    Acts = {}
    FaultBound = 1
    ActBound = 0
    RequestBound = 2
    RetryBound = 2
CHECK_DEADLOCK FALSE
PROPERTIES
    EventuallyEnds
