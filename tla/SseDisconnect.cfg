SPECIFICATION Spec
CONSTANTS
    Streams = {s1, s2}
    NamedIds = {1}
    Agreed = {}
    NoStream = NoStream
    MaxEvents = 1
    MaxGen = 1
INVARIANT SessionGoneOnDisconnect
CHECK_DEADLOCK FALSE
