SPECIFICATION Spec
CONSTANTS
    Clients = {c1, c2}
    Uris = {u1, u2}
    Requests = {r1, r2, r3}
    MaxGen = 2
SYMMETRY Symmetry
INVARIANTS SubscriptionsAsAnswered AtMostOneLate
PROPERTY EveryoneDueIsTold
CHECK_DEADLOCK FALSE
