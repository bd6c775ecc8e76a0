SPECIFICATION Spec
CONSTANTS
    MAX_MEMS = 3
    MAX_TABLE = 2
    MAX_ROWS = 2
    MAX_BOOL = 2
    Sample <- MCSample
    Files <- MCFiles
    Templates <- MCTemplates
    Leftovers <- MCLeftovers
INVARIANTS
    TypeOK
    LoadedExactly
    TablesFit
    FeasibleArrives
    NothingLeftOver
PROPERTIES
    LoadingEnds
CHECK_DEADLOCK FALSE
