SPECIFICATION Spec
CONSTANTS
    c1 = c1
    c2 = c2
    Clients <- OneClient
    Count = 2
    Radix = 2
    Table <- TwoElements
    Tid <- TwoTids
    SrvQLen = 3
    CliQLen = 3
    MaxCalls = 2
    MaxCrashes = 0
    MaxReuse = 1
INVARIANTS
    OkMeansApplied
