CONSTANTS
    s1 = s1
    s2 = s2
    p1 = p1
    p2 = p2
    p3 = p3
    NoId = NoId
    Subscriber = {s1, s2}
    Publisher = {p1, p2}
    LastSeen <- Resuming
    EventIds = 8

SPECIFICATION FairSpec

INVARIANTS
    TypeOK
    ReadInOrder
    NoLostWakeup
    CountExact
PROPERTIES
    EventuallyRead

CHECK_DEADLOCK FALSE
