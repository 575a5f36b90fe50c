SPECIFICATION FairSpec
CONSTANTS
    BufSz = 6
    Chunk = 1
    DrainMax = 1
    MaxSent = 7
INVARIANTS TypeOK VerdictExact OneReply ReplyKept
PROPERTIES HandlerEnds
CHECK_DEADLOCK FALSE
