\* A client that sends requests one after the other and may close in the middle of
\* one or reset; files that come and go.
SPECIFICATION FairSpec
CONSTANTS
    BUF_SIZE = 5
    Messages <- ManyMessages
    MaxMessages = 2
    MaxChanges = 1
    MaxOverrun = 4
    Memory <- BehindBuffer
    Pipelined = FALSE
    LENGTH = 3
    MESSAGE_LENGTH = 2
    SizeMax = 15
    SEND_CHUNK_SIZE_BYTES = 2
    MaxFailures = 2
    Faults = {"reset", "stall", "replace", "mmap", "timeout"}
INVARIANTS TypeOK RequestsWellFormed OnlySentRequestsAnswered FileReleased RestBehindPointer BodyArrives
PROPERTIES ResponseEnds WorkerEnds
CHECK_DEADLOCK FALSE
