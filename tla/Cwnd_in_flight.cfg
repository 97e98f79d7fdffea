SPECIFICATION CwndSpec
CONSTANTS
    Half = 3
    PacketSizes = {4, 8}
    Mss = 8
    InitialMss = 3
    MinMss = 2
    DefaultThreshold = 40
    IdleAfter = 2
    AckBits = 3
    NackThreshold = 2
    MaxPackets = 4
INVARIANTS InFlightIsReal
CHECK_DEADLOCK FALSE
