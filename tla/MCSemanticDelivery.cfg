SPECIFICATION Spec
CONSTANTS
    j1 = j1
    j2 = j2
    k1 = k1
    k2 = k2
    a1 = a1
    a2 = a2
    w1 = w1
    NoJob = NoJob
    NoHandoff = NoHandoff
    NoSub = NoSub
    NoOffer = NoOffer
    NoWait = NoWait
    Jobs <- MCJobs
    Keys <- MCKeys
    Attempts <- MCAttempts
    Waits <- MCWaits
    Cursors = {0, 2}
    JobLimits = {1, 2}
    OfferLimits = {2}
    MaxGenerations = 2
    MaxFence = 2
CONSTRAINTS SecondJobIsPlain FewNotices
SYMMETRY Sym
INVARIANTS
    RecoverySound
    DeliveredOnce
    NoMissedEvent
PROPERTIES
    Fencing
CHECK_DEADLOCK FALSE
