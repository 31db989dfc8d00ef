SPECIFICATION FairSpec
CONSTANTS
    Msgs = {m1}
    NoMsg = NoMsg
    MaxId = 1
    Reqs = {r1, r2}
    NoReq = NoReq
INVARIANTS TypeOK AnsweredOnce RequestsKept
PROPERTIES RequestsEnd
CHECK_DEADLOCK FALSE
