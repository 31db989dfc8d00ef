SPECIFICATION FairSpec
CONSTANTS
    Threads = {a, b}
    Subs = {x, y}
    MaxNodes = 2
    Nobody = Nobody
INVARIANTS
    TypeOK
    DispatchConsistent
    EmergencyFirst
PROPERTIES
    CallsReturn
