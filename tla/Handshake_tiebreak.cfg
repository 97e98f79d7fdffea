SPECIFICATION Spec
CONSTANTS
    Peers = {a, b}
    a = a
    b = b
    Callers = {a, b}
    Foreign = {}
    MaxClients = 1
    MaxPending = 1
    RequestTimeout = 1
    RequestRetries = 1
    ConnectionTimeout = 2
    DisconnectTimeout = 1
    DisconnectRetries = 1
    Duplicates = FALSE
    MaxCalls = 2
    MaxSalt = 4
    None = None
INVARIANTS SimultaneousTiebreak
