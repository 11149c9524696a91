CONSTANTS
    a = a
    b = b
    c = c
    k = k
    kOne = kOne
    s = s
    sDup = sDup
    sFew = sFew
    sAt = sAt
    Node = {a, b, c}
    Prefix <- MCPrefix
    KeygenReq = {k}
    SignReq = {}
    participant_public_keys <- KeygenParticipants
    threshold <- OneThreshold
    IdGroup <- NoAt
    public_key <- NoSigns
    KGRounds = 2
    ORounds = 2
    P2P <- SecondRoundP2P
    PreKeys = {}
    MaxAttempts = 1
    FaultKinds = {}
    MayRestart = {}
    MaxFaults = 0

SPECIFICATION Spec

INVARIANTS
    EncryptNeverFails
    RoundBarrier
    DoneNeedsAll
    NothingLost

CHECK_DEADLOCK FALSE
