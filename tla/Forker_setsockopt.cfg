\* setsockopt() fails.
SPECIFICATION Spec
CONSTANTS
    Conns = {c1, c2}
    Server = Server
    Listen = Listen
    None = None
    AcceptSocket = 0
    LastFd = 3
    MAX_DESCRIPTORS = 2
    MAX_PENDING_REQUESTS = 2
    TimeoutSecs = 1
    IntMax = 100
    MaxTime = 0
    Faults = {"setsockopt"}
    AbortDrops = FALSE
INVARIANTS DescriptorsOpen
CHECK_DEADLOCK FALSE
