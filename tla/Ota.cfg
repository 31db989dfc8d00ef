SPECIFICATION FairSpec
CONSTANTS
    Downloads = {d1, d2}
    FileSize = 4
    RangeLen = 3
    Keep = 2
    MaxQuiet = 2
INVARIANTS TypeOK Accepted
PROPERTIES Ends
CHECK_DEADLOCK FALSE
