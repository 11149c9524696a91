CONSTANTS
    k = k
    s = s
    sBad = sBad
    KeygenId = {k}
    SignId = {}
    public_key <- SignsK
    BadHash = {}
    MaxSubmits = 2
    FaultKinds = {}
    MaxFaults = 0

SPECIFICATION Spec

INVARIANTS
    AcceptedOnce

CHECK_DEADLOCK FALSE
