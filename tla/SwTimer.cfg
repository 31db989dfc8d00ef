SPECIFICATION FairSpec
CONSTANTS
    Timers = {t1, t2}
    Clients = {c1}
    Thr = Thr
    Times = {0, 1}
    NoTimer = NoTimer
    Forever = Forever
    MaxNow = 1
    MaxSem = 0
INVARIANTS
    TypeOK
    ListsPartition
    ActiveSorted
    NoOversleep
PROPERTIES
    DueIsServed
