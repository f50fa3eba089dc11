SPECIFICATION Spec
CONSTANTS
    j1 = j1
    j2 = j2
    k1 = k1
    k2 = k2
    NoJob = NoJob
    NoHandoff = NoHandoff
    Jobs <- MCJobs
    Keys <- MCKeys
    JobLimits = {2}
    MaxGenerations = 3
    MaxFence = 3
    MaxRows = 2
    MaxObjects = 6
INVARIANTS
    LaunchedOnce
    CancelledNeverRuns
    AlwaysReopens
PROPERTIES
    KeepsJobContract
    OutcomeSealed
    JobsConclude
CHECK_DEADLOCK FALSE
