SPECIFICATION Spec
CONSTANTS
    Modes = {"ReliableSequenced"}
    Policies = {TRUE}
    Half = 8
    SendBufferSize = 3
    MaxRetries = 1
    Rto = 1
    OrderedTimeout = 2
    OrderedBufferSize = 4
    MaxDedupSetSize = 2
    Frames = {1, 2}
    Pieces = 0
    Start = 0
    MaxMessages = 4
    MaxAge = 4
    MaxSpan = 8
INVARIANT AckedIsSettled
CHECK_DEADLOCK FALSE
