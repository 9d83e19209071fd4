SPECIFICATION FairSpec
CONSTANTS
    Requests = {r1, r2}
    Answers = {a1, a2}
    NoAnswer = NoAnswer
    NoRequest = NoRequest
    MaxGen = 2
INVARIANTS Correlated NoLeak
PROPERTIES EveryRequestEnds AnswerOrStopReleases ImplementsRequestReply
CHECK_DEADLOCK FALSE
