CONSTANTS
    s1 = s1
    s2 = s2
    p1 = p1
    p2 = p2
    p3 = p3
    NoId = NoId
    Subscriber = {s1}
    Publisher = {p1, p2, p3}
    LastSeen <- FromStart
    EventIds = 2

SPECIFICATION Spec

INVARIANTS
    ReadInOrder

CHECK_DEADLOCK FALSE
