SPECIFICATION FairSpec
CONSTANTS
    c1 = c1  c2 = c2
    Conn = {c1, c2}
    ProtoOf <- MixProtoOf
    None = None
    MaxConn = 2
    BufSz = 2
    MaxSignals = 1
    Stalled = {c1}
    MayFail = FALSE
INVARIANTS RegistryLive ShutdownHeard
PROPERTIES ShutdownUnlessHeld
CHECK_DEADLOCK FALSE
