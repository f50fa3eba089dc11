SPECIFICATION Spec
CONSTANTS
    w1 = w1
    w2 = w2
    a1 = a1
    typed = typed
    free = free
    NoReason = NoReason
    Children <- MCChildren
    Isolated <- MCWorkers
    Reasons <- MCReasons
    TypedReasons <- MCReasons
    BackendReason = typed
    MaxActive = 1
    MaxQueued = 1
    RetryLimit = 2
    MaxFaults = 2
    MaxCrashes = 1
INVARIANTS
    LeaseAccounting
    NoIdleCapacity
    NoChildForgotten
    ActiveLeaseIsOwned
    RunsOnce
    QueuedCancelSettles
PROPERTIES
    KeepsCustody
    ReleaseAfterCommit
CHECK_DEADLOCK FALSE
