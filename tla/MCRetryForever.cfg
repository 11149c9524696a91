CONSTANTS
    a = a
    b = b
    c = c
    k = k
    kOne = kOne
    s = s
    sDup = sDup
    sFew = sFew
    sAt = sAt
    Node = {a, b}
    Prefix <- MCPrefix
    KeygenReq = {k}
    SignReq = {}
    participant_public_keys <- TwoKeygen
    threshold <- OneThreshold
    IdGroup <- NoAt
    public_key <- NoSigns
    KGRounds = 1
    ORounds = 2
    P2P <- SecondRoundP2P
    PreKeys = {}
    MaxAttempts = 2
    FaultKinds = {"redeliver"}
    MayRestart = {}
    MaxFaults = 1

SPECIFICATION FairSpec

PROPERTIES
    RetriesEnd

CHECK_DEADLOCK FALSE
