SPECIFICATION FairSpec
CONSTANTS
    Count = 3
    Tables <- Tables3
    CpuConf = 2
    MinPrio = 1
    MaxPrio = 2
    CapSysNice = TRUE
INVARIANTS
    TypeOK
    StartTogether
    NoEarlyStart
    NoLostWakeup
    ConfiguredAtStart
    MainUntouched
    PropsNeverCross
PROPERTIES
    EveryTimelyFiberRuns
    MainSettles
