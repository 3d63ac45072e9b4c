SPECIFICATION FairSpec
CONSTANTS
    Fibers = {1, 2}
    Tables <- TwoTables
    NsecPerSec = 4
    LongMax = 9
    MaxStart = 4
    MaxNow = 22
    MaxActivations = 2
INVARIANTS
    TypeOK
    NeverEarly
    InPhase
    NoDrift
    SleepsNormalised
PROPERTIES
    EveryReleaseServed
