SPECIFICATION FairSpec
CONSTANTS
    Requests = {r1, r2}
    Tokens = {t1}
    Bodies = {b1}
    NoToken = NoToken
    NoBody = NoBody
    NoReply = NoReply
    NoRequest = NoRequest
    MaxId = 2
    MaxGen = 2
INVARIANTS TypeOK Correlated NoLeak Reachable
PROPERTIES EveryCallEnds AnswerOrStopReleases ImplementsRequestReply
CHECK_DEADLOCK FALSE
