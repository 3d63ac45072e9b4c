SPECIFICATION Spec
CONSTANTS
    s1 = s1
    c1 = c1
    Servers <- OneServer
    Clients <- OneClient
    MaxCalls = 2
INVARIANTS
    FailedMeansNotOpened
