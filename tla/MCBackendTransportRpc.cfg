SPECIFICATION Spec
CONSTANTS
    r1 = r1
    r2 = r2
    Request <- MCOne
    Policies <- MCAll
    MemoryLimit = 1
    MaxGarbled = 0
INVARIANTS
    LateCommitWins
CHECK_DEADLOCK FALSE
