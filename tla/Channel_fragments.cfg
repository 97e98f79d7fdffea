SPECIFICATION Spec
CONSTANTS
    Modes = {"ReliableUnordered", "ReliableOrdered", "ReliableSequenced"}
    Policies = {TRUE}
    Half = 8
    SendBufferSize = 3
    MaxRetries = 1
    Rto = 1
    OrderedTimeout = 2
    OrderedBufferSize = 4
    MaxDedupSetSize = 2
    Frames = {1, 2}
    Pieces = 2
    Start = 1
    MaxMessages = 5
    MaxAge = 4
    MaxSpan = 8
INVARIANT FragmentsAreReassembled
CHECK_DEADLOCK FALSE
