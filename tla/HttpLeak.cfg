SPECIFICATION Spec
CONSTANTS
    Requests = {r1, r2}
    Answers = {a1}
    NoAnswer = NoAnswer
    NoRequest = NoRequest
    MaxGen = 1
INVARIANT LostAnswersRemoved
CHECK_DEADLOCK FALSE
