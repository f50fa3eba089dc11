SPECIFICATION Spec
CONSTANTS
    w1 = w1
    w2 = w2
    a1 = a1
    typed = typed
    free = free
    NoReason = NoReason
    Children <- MCChildren
    Isolated <- MCWorkers
    Reasons <- MCAllReasons
    TypedReasons <- MCReasons
    BackendReason = typed
    MaxActive = 1
    MaxQueued = 1
    RetryLimit = 2
    MaxFaults = 0
    MaxCrashes = 0
INVARIANTS
    QueuedCancelSettles
CHECK_DEADLOCK FALSE
