SPECIFICATION Spec
CONSTANTS
    MaxRuns = 2
    MaxOut = 0
    MaxIn = 1
    MaxFailures = 1
    Limits = {0}
INVARIANT NoZombie
CHECK_DEADLOCK FALSE
