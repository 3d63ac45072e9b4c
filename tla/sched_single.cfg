SPECIFICATION FairSpec
CONSTANTS
    c1 = c1
    c2 = c2
    Clients <- TwoClients
    Count = 2
    Radix = 2
    Table <- TwoElements
    Tid <- TwoTids
    SrvQLen = 1
    CliQLen = 3
    MaxCalls = 1
    MaxCrashes = 1
    MaxReuse = 1
INVARIANTS
    TypeOK
    RightThreads
    InStep
    ServerNeverHeldUp
PROPERTIES
    ServiceSpec
    CallReturns
    RequestServed
