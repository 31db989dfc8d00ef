SPECIFICATION MgrFairSpec
CONSTANTS
    Threads = {t1, t2, t3}
INVARIANTS
    MgrTypeOK
    FreedIsUnused
PROPERTIES
    DeletedEnds
CHECK_DEADLOCK FALSE
