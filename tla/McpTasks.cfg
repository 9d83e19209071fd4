SPECIFICATION TasksSpec
CONSTANTS
    Tasks = {t1, t2}
    t1 = t1
    t2 = t2
INVARIANTS
    TableMatchesAnswers
    StatusMatchesResult
    PolledTaskHasResult
