SPECIFICATION FairSpec
CONSTANTS
    NTasks = 2
    MAX_ATTRTYPES = 2
    NPops = 4
    MaxGen = 4
    NMems = 2
    NClouds = 1
    NCpufreqs = 2
    NRatios = 2
    MAX_TRY = 3
    N_REPORTS = 2
    MemCapacity <- TwoSmallMemories
    RealOffloading = 0
    Cutoff <- Cutoff150
    UtilOne <- MCUtilOne
    MemFits <- MCMemFits
    WcetExceeds <- MCWcetExceeds
    Util <- MCUtil
    Power <- MCPower
    Score <- MCScore
INVARIANTS
    SavedIsBest
PROPERTIES
    Termination
CHECK_DEADLOCK FALSE
