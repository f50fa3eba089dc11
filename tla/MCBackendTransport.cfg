SPECIFICATION Spec
CONSTANTS
    r1 = r1
    r2 = r2
    Request <- MCTwo
    Policies <- MCAll
    MemoryLimit = 1
    MaxGarbled = 1
SYMMETRY MCSymmetry
INVARIANTS
    
    OutcomeIsExact
    OwnershipKept
    RefusalIsReal
PROPERTIES
    DrainReportIsTrue
    KeepsContract
CHECK_DEADLOCK FALSE
