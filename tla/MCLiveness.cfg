CONSTANTS
    a = a
    b = b
    c = c
    k = k
    kOne = kOne
    s = s
    sDup = sDup
    sFew = sFew
    sAt = sAt
    Node = {a, b}
    Prefix <- MCPrefix
    KeygenReq = {k, kOne}
    SignReq = {s}
    participant_public_keys <- OneParticipants
    threshold <- OneThresholds
    IdGroup <- NoAt
    public_key <- SignsK
    KGRounds = 2
    ORounds = 2
    P2P <- SecondRoundP2P
    PreKeys = {}
    MaxAttempts = 2
    FaultKinds = {"save"}
    MayRestart = {}
    MaxFaults = 1

SPECIFICATION FairSpec

PROPERTIES
    Completion
    RetriesEnd
    JointSpec

CHECK_DEADLOCK FALSE
