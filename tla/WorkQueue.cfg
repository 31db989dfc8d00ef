SPECIFICATION FairSpec
CONSTANTS
    Clients = {c1, c2}
    Cbs = {f, g}
    Datas = {d}
    NoCb = NoCb
    NoData = NoData
    NoJob = NoJob
    QueueLen = 2
INVARIANTS
    TypeOK
    TokenPerItem
    NoLostWakeup
    SemWithinMax
    ReleasedIsQuiet
PROPERTIES
    ImplementsWorkSpec
    Served
CHECK_DEADLOCK FALSE
