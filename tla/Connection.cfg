SPECIFICATION Spec
CONSTANTS
    a = a
    b = b
    Ends = {a, b}
    Senders = {a}
    Channels = {0, 1}
    Reliable = {0}
    SendBufferSize = 2
    MaxRetries = 1
    Rto = 2
    KeepaliveInterval = 1
    ConnectionTimeout = 2
    WireBits = 4
    MaxAckMapSize = 1
    AckPruneWindow = 5
    MaxMessages = 1
    MaxCalmMessages = 2
    MaxPackets = 3
    MaxReplies = 2
    MaxCalmPackets = 8
INVARIANTS AckedArrived AcksGoOut CopiesBounded StaysUp NoNeedlessRetransmission
CHECK_DEADLOCK FALSE
