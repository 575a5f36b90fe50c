CONSTANTS
    t1 = t1
    t2 = t2
    u1 = u1
    u2 = u2
    NoFd = NoFd
    None = None
    User = {u1, u2}
    Thread = {t1, t2}
    Room = {r1}
    Fd = {f1, f2}
    UserOf <- PairUserOf
    Serves <- StreamServes
    MaxSubs = 2
    SseBatch = 2
    Lines = 1
    PipeCap = 1
    MaxPosts = 2
SPECIFICATION FairSpec
PROPERTIES StreamDelivers
