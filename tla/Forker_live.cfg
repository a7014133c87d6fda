\* Liveness: two clients; accept() and fork() may fail.
SPECIFICATION FairSpec
CONSTANTS
    Conns = {c1, c2}
    Server = Server
    Listen = Listen
    None = None
    AcceptSocket = 0
    LastFd = 3
    MAX_DESCRIPTORS = 2
    MAX_PENDING_REQUESTS = 2
    TimeoutSecs = 0
    IntMax = 100
    MaxTime = 1
    Faults = {"accept", "fork"}
    AbortDrops = FALSE
PROPERTIES ReadyReleased ExpiredReleased PendingResolved OrphansClosed StopsWithTraffic
CHECK_DEADLOCK FALSE
