SPECIFICATION FairSpec
CONSTANTS
    Count = 2
    Tables <- TablesCpu2
    CpuConf = 2
    MinPrio = 1
    MaxPrio = 2
    CapSysNice = TRUE
PROPERTIES
    EveryFiberRuns
