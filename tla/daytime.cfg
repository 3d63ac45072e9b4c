SPECIFICATION FairSpec
CONSTANTS
    c1 = c1
    c2 = c2
    Clients <- TwoClients
    NAddr = 2
    Backlog = 1
    MaxFds = 3
    MaxLine = 4
    Streams <- Lines
    MaxRounds = 2
INVARIANTS
    TypeOK
    NothingLost
    LineShown
    StoresInside
PROPERTIES
    ConnectReturns
    Answered
