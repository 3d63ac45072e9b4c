SPECIFICATION Spec
CONSTANTS
    SffSize = 2
    BusIds = {0, 3}
    Addrs = {1}
    Lists <- SomeLists
    NoList = NoList
    Usable = 1
    CntLast = 2
    QLen = 2
    ErrQLen = 1
INVARIANTS
    TypeOK
    FiltersRespected
    NoGap
