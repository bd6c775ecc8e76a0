SPECIFICATION FairSpec
CONSTANTS
    NTasks = 3
    MAX_ATTRTYPES = 2
    NPops = 3
    MaxGen = 1
    NMems = 1
    NClouds = 1
    NCpufreqs = 2
    NRatios = 1
    MAX_TRY = 3
    N_REPORTS = 1
    MemCapacity <- OneMemory
    RealOffloading = 0
    Cutoff <- Cutoff230
    UtilOne <- MCUtilOne
    MemFits <- MCMemFits
    WcetExceeds <- MCWcetExceeds
    Util <- MCUtil
    Power <- MCPower
    Score <- MCScore
PROPERTIES
    InitGeneGivesUp
CHECK_DEADLOCK FALSE
