SPECIFICATION Spec
CONSTANTS
    c1 = c1  c2 = c2
    Conn = {c1}
    ProtoOf <- TelnetProtoOf
    None = None
    MaxConn = 1
    BufSz = 2
    MaxSignals = 2
    Stalled = {}
    MayFail = FALSE
INVARIANTS DestroyWaits
CHECK_DEADLOCK FALSE
