SPECIFICATION FairSpec
CONSTANTS
    MaxRuns = 1
    MaxOut = 3
    MaxIn = 1
    MaxFailures = 2
    Limits = {0, 2}
INVARIANTS TypeOK SentOnceInOrder ViewAgrees GiveUpOnlyAtLimit AtMostOneStale NoOrphan
PROPERTIES KeepsTrying DroppedRunEnds
CHECK_DEADLOCK FALSE
