SPECIFICATION Spec
CONSTANTS
    NTasks = 3
    MAX_ATTRTYPES = 2
    NPops = 3
    MaxGen = 1
    NMems = 1
    NClouds = 1
    NCpufreqs = 2
    NRatios = 1
    MAX_TRY = 3
    N_REPORTS = 1
    MemCapacity <- OneLargeMemory
    RealOffloading = 1
    Cutoff <- Cutoff230
    UtilOne <- MCUtilOne
    MemFits <- MCMemFits
    WcetExceeds <- MCWcetExceeds
    Util <- MCUtil
    Power <- MCPower
    Score <- MCScore
INVARIANTS
    OffloadedPaysNetwork
CHECK_DEADLOCK FALSE
