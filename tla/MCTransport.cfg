CONSTANTS
    m1 = m1
    m2 = m2
    fatal = fatal
    forged = forged
    broken = broken
    Message = {m1, m2}
    GoodText = {fatal}
    FatalText = {fatal}
    ForgedText = {forged}
    ErrorText = {broken}
    FaultKinds = {"refuse", "cut", "hang", "end", "encrypt", "request"}
    MaxFaults = 2

SPECIFICATION FairSpec

INVARIANTS
    TypeOK
    SinkPresent
    PublishedOnce
    StopsForCause
PROPERTIES
    SendingSpec
    LoopProgress

CHECK_DEADLOCK FALSE
