\* Three clients, a table of two entries; fork() may fail.
SPECIFICATION Spec
CONSTANTS
    Conns = {c1, c2, c3}
    Server = Server
    Listen = Listen
    None = None
    AcceptSocket = 0
    LastFd = 3
    MAX_DESCRIPTORS = 2
    MAX_PENDING_REQUESTS = 2
    TimeoutSecs = 1
    IntMax = 100
    MaxTime = 2
    Faults = {"fork"}
    AbortDrops = FALSE
SYMMETRY Symmetry
INVARIANTS TypeOK DescriptorsOpen OneSlotEach NoLeak WorkerIsolation ExclusiveHandoff HandoffOnlyReady ServerSurvives AcceptNeverBlocks
PROPERTIES NoEarlyTimeout RefusedOnlyIfFull ImplementsDispatcher
CHECK_DEADLOCK FALSE
