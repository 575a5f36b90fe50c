SPECIFICATION FairSpec
CONSTANTS
    NameMax = 1
    LineMax = 1
    ChunkMax = 2
    MaxChunks = 8
INVARIANTS TypeOK GameOwned NotifyTarget NothingDeferred NeverStuck
PROPERTIES SilenceEnds
CHECK_DEADLOCK FALSE
