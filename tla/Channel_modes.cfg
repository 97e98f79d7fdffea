SPECIFICATION Spec
CONSTANTS
    Modes = {"Unreliable", "UnreliableSequenced", "ReliableUnordered", "ReliableOrdered", "ReliableSequenced"}
    Policies = {TRUE, FALSE}
    Half = 8
    SendBufferSize = 2
    MaxRetries = 1
    Rto = 1
    OrderedTimeout = 2
    OrderedBufferSize = 4
    MaxDedupSetSize = 2
    Frames = {1, 2}
    Pieces = 2
    Start = 1
    MaxMessages = 5
    MaxAge = 4
    MaxSpan = 5
INVARIANTS BuffersConsistent AckedIsSettled
PROPERTIES KeepsPromise
CHECK_DEADLOCK FALSE
