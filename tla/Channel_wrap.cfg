SPECIFICATION FairSpec
CONSTANTS
    Modes = {"ReliableOrdered", "ReliableSequenced"}
    Policies = {TRUE, FALSE}
    Half = 5
    SendBufferSize = 2
    MaxRetries = 1
    Rto = 1
    OrderedTimeout = 2
    OrderedBufferSize = 4
    MaxDedupSetSize = 2
    Frames = {1, 2}
    Pieces = 1
    Start = 8
    MaxMessages = 11
    MaxAge = 4
    MaxSpan = 3
INVARIANTS OrderHolds
PROPERTIES HeldBackIsDelivered SendBufferDrains
CHECK_DEADLOCK FALSE
