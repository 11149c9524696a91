CONSTANTS
    a = a
    b = b
    c = c
    k = k
    kOne = kOne
    s = s
    sDup = sDup
    sFew = sFew
    sAt = sAt
    Node = {a, b}
    Prefix <- MCPrefix
    KeygenReq = {k}
    SignReq = {s, sDup, sFew, sAt}
    participant_public_keys <- BadParticipants
    threshold <- OneThreshold
    IdGroup <- AtGroup
    public_key <- AllSignK
    KGRounds = 1
    ORounds = 1
    P2P <- OfflineP2P
    PreKeys = {k}
    MaxAttempts = 1
    FaultKinds = {}
    MayRestart = {}
    MaxFaults = 0

SPECIFICATION Spec

INVARIANTS
    EncryptNeverFails
    RoundBarrier
    NothingLost

CHECK_DEADLOCK FALSE
