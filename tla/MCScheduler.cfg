SPECIFICATION Spec
CONSTANTS
    NTasks = 3
    MAX_ATTRTYPES = 2
    NPops = 3
    MaxGen = 1
    NMems = 2
    NClouds = 1
    NCpufreqs = 2
    NRatios = 2
    MAX_TRY = 3
    N_REPORTS = 1
    MemCapacity <- TwoMemories
    RealOffloading = 0
    Cutoff <- Cutoff230
    UtilOne <- MCUtilOne
    MemFits <- MCMemFits
    WcetExceeds <- MCWcetExceeds
    Util <- MCUtil
    Power <- MCPower
    Score <- MCScore
INVARIANTS
    TypeOK
    ListsRight
    ListedEvaluated
    VectorsRight
    FirstRatioOnly
    SelectPositionAsserts
PROPERTIES
    GenerationsImprove
CHECK_DEADLOCK FALSE
