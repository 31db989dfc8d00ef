SPECIFICATION FairSpec
CONSTANTS
    ReconnNum = 2
    MaxLost = 2
    MaxQueued = 1
    MaxIn = 1
    Slots = 3
INVARIANTS TypeOK Watched AgentReady
PROPERTIES LossIsNoticed
CHECK_DEADLOCK FALSE
