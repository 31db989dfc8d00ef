SPECIFICATION Spec
CONSTANTS
    Downloads = {d1}
    FileSize = 5
    RangeLen = 3
    Keep = 2
    MaxQuiet = 2
INVARIANT ImageWhole
CHECK_DEADLOCK FALSE
