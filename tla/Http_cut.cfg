\* The client closes in the middle of a request.
SPECIFICATION Spec
CONSTANTS
    BUF_SIZE = 7
    Messages <- CutMessages
    MaxMessages = 1
    MaxChanges = 0
    MaxOverrun = 4
    Memory <- BehindBuffer
    Pipelined = FALSE
    LENGTH = 3
    MESSAGE_LENGTH = 2
    SizeMax = 15
    SEND_CHUNK_SIZE_BYTES = 2
    MaxFailures = 0
    Faults = {}
INVARIANTS NoRequestMadeUp
CHECK_DEADLOCK FALSE
