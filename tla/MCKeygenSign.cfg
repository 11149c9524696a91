CONSTANTS
    a = a
    b = b
    c = c
    k = k
    kOne = kOne
    s = s
    sDup = sDup
    sFew = sFew
    sAt = sAt
    Node = {a, b, c}
    Prefix <- MCPrefix
    KeygenReq = {k}
    SignReq = {s}
    participant_public_keys <- ThreeSigners
    threshold <- TwoThreshold
    IdGroup <- NoAt
    public_key <- SignsK
    KGRounds = 1
    ORounds = 1
    P2P <- SecondRoundP2P
    PreKeys = {}
    MaxAttempts = 1
    FaultKinds = {}
    MayRestart = {}
    MaxFaults = 0

SPECIFICATION Spec

INVARIANTS
    DoneNeedsAll
    NothingLost
PROPERTIES
    JointSpec

CHECK_DEADLOCK FALSE
