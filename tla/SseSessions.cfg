SPECIFICATION FairSpec
CONSTANTS
    Streams = {s1, s2}
    NamedIds = {1, 4}
    Agreed = {4}
    NoStream = NoStream
    MaxEvents = 2
    MaxGen = 2
INVARIANTS EndpointFirst EachEventOnce
PROPERTIES OnlyNamesCollide AcceptedIsDelivered DetachedStreamEnds
CHECK_DEADLOCK FALSE
