SPECIFICATION NetSpec
CONSTANTS
    ReconnNum = 2
    MaxLost = 2
    MaxQueued = 1
    MaxIn = 1
    Slots = 3
PROPERTY Reconnects
CHECK_DEADLOCK FALSE
