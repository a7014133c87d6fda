\* One request for a file that is empty.
SPECIFICATION Spec
CONSTANTS
    BUF_SIZE = 7
    Messages <- OneRequest
    MaxMessages = 1
    MaxChanges = 0
    MaxOverrun = 1
    Memory <- BehindBuffer
    Pipelined = FALSE
    LENGTH = 3
    MESSAGE_LENGTH = 2
    SizeMax = 15
    SEND_CHUNK_SIZE_BYTES = 2
    MaxFailures = 0
    Faults = {}
INVARIANTS MapFailureReported
CHECK_DEADLOCK FALSE
