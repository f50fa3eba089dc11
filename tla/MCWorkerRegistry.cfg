SPECIFICATION Spec
CONSTANTS
    s1 = s1
    k1 = k1
    k2 = k2
    h1 = h1
    h2 = h2
    r1 = r1
    r2 = r2
    NoKey = NoKey
    NoHead = NoHead
    NoReason = NoReason
    Sessions <- MCSessions
    Keys <- MCKeys
    Heads <- MCHeads
    Reasons <- MCReasons
    MaxRevision = 9
INVARIANTS
    CancellationWins
    ReleaseIsEvidenced
    CleanupMatchesPlan
PROPERTIES
    KeepsCustody
    EvidenceKept
CHECK_DEADLOCK FALSE
