SPECIFICATION PFairSpec
CONSTANTS
    Msgs = {m1, m2, m3}
    NoMsg = NoMsg
    MaxId = 3
INVARIANTS PTypeOK NotifiedOnce
PROPERTIES PublishEnds
CHECK_DEADLOCK FALSE
