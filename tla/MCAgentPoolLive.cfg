SPECIFICATION FairSpec
CONSTANTS
    w1 = w1
    w2 = w2
    a1 = a1
    typed = typed
    free = free
    NoReason = NoReason
    Children <- MCChildren
    Isolated <- MCWorkers
    Reasons <- MCReasons
    TypedReasons <- MCReasons
    BackendReason = typed
    MaxActive = 1
    MaxQueued = 1
    RetryLimit = 1
    MaxFaults = 1
    MaxCrashes = 0
PROPERTIES
    RunnersConclude
    QueueAdvances
    ShutdownConcludes
CHECK_DEADLOCK FALSE
