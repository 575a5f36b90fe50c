SPECIFICATION FairSpec
CONSTANTS
    Reader = {1, 2}
    Room = {r1, r2}
    None = None
    First = r1
    Limit = 1
    MaxPosts = 3
    MaxFaults = 2
INVARIANTS TypeOK ShownOnce ViewExact
PROPERTIES ConnectionSettles WhoSettles
CHECK_DEADLOCK FALSE
