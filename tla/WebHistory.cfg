SPECIFICATION Spec
CONSTANTS
    Reader = {1, 2}
    Room = {r1, r2}
    None = None
    First = r1
    Limit = 1
    MaxPosts = 3
    MaxFaults = 2
INVARIANTS HistoryThenLive
CHECK_DEADLOCK FALSE
