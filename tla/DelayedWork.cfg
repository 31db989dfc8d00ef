SPECIFICATION DSpec
CONSTANTS
    Timers = {t1}
    Clients = {c1}
    Thr = Thr
    Times = {1}
    NoTimer = NoTimer
    Forever = Forever
    MaxNow = 1
    MaxSem = 0
    QueueLen = 1
    NoJob = NoJob
INVARIANTS
    CancelledForGood
