SPECIFICATION Spec
CONSTANTS
    Half = 8
    Ring = 4
    AckWindow = 3
    WireBits = 2
    MaxSeqDist = 3
    MaxDelay = 6
    MaxPackets = 5
    MaxHeaders = 2
    Empty = Empty
INVARIANT EveryAckWasReceived

CHECK_DEADLOCK FALSE
