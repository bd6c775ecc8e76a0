SPECIFICATION VectorSpec
CONSTANTS
    NTasks = 5
    MAX_ATTRTYPES = 5
    NTypes = 3
INVARIANTS
    VectorOK
    CountsExact
    PeakPopulated
CHECK_DEADLOCK FALSE
