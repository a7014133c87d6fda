\* Every call may fail, the process runs out of descriptors, clients reset queued connections.
SPECIFICATION Spec
CONSTANTS
    Conns = {c1, c2, c3}
    Server = Server
    Listen = Listen
    None = None
    AcceptSocket = 0
    LastFd = 2
    MAX_DESCRIPTORS = 2
    MAX_PENDING_REQUESTS = 2
    TimeoutSecs = 1
    IntMax = 100
    MaxTime = 2
    Faults = {"accept", "setsockopt", "fork", "select", "fdelt"}
    AbortDrops = TRUE
SYMMETRY Symmetry
INVARIANTS TableInv ConnInv
PROPERTIES ImplementsDispatcher
CHECK_DEADLOCK FALSE
