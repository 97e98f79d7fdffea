SPECIFICATION FairSpec
CONSTANTS
    Peers = {a, b}
    a = a
    b = b
    Callers = {a, b}
    Foreign = {b}
    MaxClients = 1
    MaxPending = 1
    RequestTimeout = 1
    RequestRetries = 1
    ConnectionTimeout = 1
    DisconnectTimeout = 1
    DisconnectRetries = 1
    Duplicates = TRUE
    MaxCalls = 2
    MaxSalt = 4
    None = None
INVARIANTS OnePhase EventsMatchState ForeignRefused
PROPERTIES PendingResolves OneSidedEnds
