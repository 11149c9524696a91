CONSTANTS
    a = a
    b = b
    c = c
    k = k
    kOne = kOne
    s = s
    sDup = sDup
    sFew = sFew
    sAt = sAt
    Node = {a, b}
    Prefix <- MCPrefix
    KeygenReq = {k}
    SignReq = {s}
    participant_public_keys <- TwoParticipants
    threshold <- OneThreshold
    IdGroup <- NoAt
    public_key <- SignsK
    KGRounds = 1
    ORounds = 1
    P2P <- OfflineP2P
    PreKeys = {k}
    MaxAttempts = 1
    FaultKinds = {"send", "lost", "stream", "redeliver", "proceed", "restart"}
    MayRestart = {a}
    MaxFaults = 2

SPECIFICATION Spec

INVARIANTS
    TypeOK
    DecryptOnce
    EncryptNeverFails
    NothingLost
    ResultOnce
    Provenance
PROPERTIES
    JointSpec

CHECK_DEADLOCK FALSE
