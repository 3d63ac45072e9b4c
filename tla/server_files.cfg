SPECIFICATION FairSpec
CONSTANTS
    p1 = p1
    p2 = p2
    Instances <- TwoInstances
INVARIANTS
    TypeOK
    OwnFilesAlone
    CleanupRemovesOwn
PROPERTIES
    ProcessSettles
