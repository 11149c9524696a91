CONSTANTS
    k = k
    s = s
    sBad = sBad
    KeygenId = {k}
    SignId = {s, sBad}
    public_key <- SignsK
    BadHash = {sBad}
    MaxSubmits = 2
    FaultKinds = {"lookup", "save", "share", "join", "crash"}
    MaxFaults = 2

SPECIFICATION FairSpec

INVARIANTS
    TypeOK
    StatusOrder
    NoLateHashError
    RunsAsAnswered
    DoneUsable
PROPERTIES
    PollNeverGoesBack
    AcceptedVisible
    AnsweredIsOffered

CHECK_DEADLOCK FALSE
