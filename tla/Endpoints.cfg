SPECIFICATION EndpointsSpec
CONSTANTS
    Half = 8
    Ring = 4
    AckWindow = 3
    WireBits = 2
    MaxSeqDist = 8
    MaxDelay = 6
    MaxPackets = 5
    MaxHeaders = 2
    Empty = Empty
    Peers = {s, a, b}
    s = s
    a = a
    b = b
    Callers = {a, b}
    Foreign = {}
    MaxClients = 1
    MaxPending = 1
    RequestTimeout = 1
    RequestRetries = 0
    ConnectionTimeout = 1
    DisconnectTimeout = 1
    DisconnectRetries = 0
    Duplicates = FALSE
    MaxCalls = 2
    MaxSalt = 5
    None = None
INVARIANTS SentAccounting AckStateExact AckedWasReceived AcceptedOnce AdmissionBound
PROPERTY NackMeansMissing
CHECK_DEADLOCK FALSE
