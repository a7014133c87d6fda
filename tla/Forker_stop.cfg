\* A stop request that arrives just before select() sleeps.
SPECIFICATION FairSpec
CONSTANTS
    Conns = {c1}
    Server = Server
    Listen = Listen
    None = None
    AcceptSocket = 0
    LastFd = 2
    MAX_DESCRIPTORS = 1
    MAX_PENDING_REQUESTS = 1
    TimeoutSecs = 1
    IntMax = 100
    MaxTime = 0
    Faults = {}
    AbortDrops = FALSE
PROPERTIES StopRequestHonoured
CHECK_DEADLOCK FALSE
