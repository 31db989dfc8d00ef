SPECIFICATION FairSpec
CONSTANTS
    MaxCalls = 2
    MaxTokens = 1
    MaxBoots = 1
INVARIANTS
    TypeOK
    ActivationDurable
    ResetDurable
    ConnectedIsLive
PROPERTIES
    Settles
    YieldKeepsRequests
    OnlineAgain
CHECK_DEADLOCK FALSE
