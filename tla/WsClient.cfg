SPECIFICATION FairSpec
CONSTANTS
    MaxConns = 2
    MaxFrames = 3
INVARIANT EachFrameOnce
PROPERTIES
    KeptUntilReplaced
    CallsReturn
CHECK_DEADLOCK FALSE
