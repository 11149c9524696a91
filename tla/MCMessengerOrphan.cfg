CONSTANTS
    s1 = s1
    s2 = s2
    p1 = p1
    p2 = p2
    p3 = p3
    NoId = NoId
    Subscriber = {s1, s2}
    Publisher = {}
    LastSeen <- FromStart
    EventIds = 8

SPECIFICATION Spec

INVARIANTS
    WatchersInRoom

CHECK_DEADLOCK FALSE
