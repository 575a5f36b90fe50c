SPECIFICATION Spec
CONSTANTS
    c1 = c1  c2 = c2
    Conn = {c1, c2}
    ProtoOf <- MixProtoOf
    None = None
    MaxConn = 1
    BufSz = 2
    MaxSignals = 2
    Stalled = {}
    MayFail = TRUE
INVARIANTS TypeOK SlotAccount SocketOwned DrainComplete CountersExact
CHECK_DEADLOCK FALSE
