SPECIFICATION Spec
CONSTANTS
    MessageSizes = {3, 4, 5}
    MaxFragPayload = 2
    MaxFragments = 2
    MaxBufferSize = 4
    FragmentTimeout = 2
    Copies = 2
    MaxFragmented = 2
    One = 2
    Hz = 2
    BaseRate = 1
    MaxMultiplier = 3
    RecoveryMin = 2
    RecoveryMax = 17
    DoubleWithin = 10
    HalveAfter = 20
    MaxFrame = 2
    MaxIdle = 3
    MaxWaiting = 2
    Half = 3
    PacketSizes = {8}
    Mss = 8
    InitialMss = 3
    MinMss = 2
    DefaultThreshold = 40
    IdleAfter = 2
    AckBits = 3
    NackThreshold = 2
    MaxPackets = 5
    Sources = {a, b}
    MaxPerSecond = 2
    Second = 2
    CleanupInterval = 3
    Clients = {1, 2, 3}
    Expiries = {2}
    TokenLifetime = 2
    MaxTracked = 2
    MaxTokens = 4
    LowBound = 2
    HighBound = 12
    MaxAttempts = 4
    ProbeTimeout = 2
    NoBaseline = 3
    MaxPending = 2
    MaxBaselines = 2
    BaselineTimeout = 2
    MaxLag = 2
    MaxSpan = 2
    MaxSnapshots = 5
    WorldPeers = 2
    Latency = 1
    ExtraDelays = {0, 1}
    MayLose = TRUE
    MayDuplicate = TRUE
    MaxWorldPackets = 2
    SimSizes = {1, 3}
    BytesPerUnit = 1
    PerSecond = 3
    SimDelays = {0, 2}
    DuplicateDelays = {1}
    MaxSimPackets = 3
    MaxSimTime = 6
    Samples = {0, 7, 8, 23}
    RtoMin = 5
    RtoMax = 40
    Granularity = 1
    LossWindowSize = 4
    MaxOutcomes = 7
    Addresses = {1, 2, 3}
    Salts = {s, t}
    MaxDistance = 0
    MigrationCooldown = 2
    MaxNumber = 1
    Entities = {1, 2, 3}
    SizeOf <- EntitySizes
    BasePriorities = {1, 2}
    Modifiers = {0, 4}
    Neutral = 3
    BudgetBytes = 3
    MaxWait = 3
    Nibble = 2
    Channels = 2
    PayloadType = 1
    HandshakeType = 0
    WireMtu = 18
    FragmentThreshold = 2
    WireMessages <- RunMessages
    WireHeaders <- RunHeaders
    WireSalts = {4660}
    MaxWritten = 2
    ByteValues = 4
    Capacity = 12
    BatchMessages <- RunBatch
    TransferSizes = {1, 3}
    MaxSamples = 2
    WindowMs = 2
    MaxTransfers = 4
    MaxMoment = 5
    Depths = {1, 2}
    Delays = {0, 1}
    ServerTimes = {1, 2, 4, 5, 7}
    RenderTimes = {0, 1, 2, 3, 4, 5, 6, 7, 8}
    MaxPushed = 5
    SliceMessages <- RunSlices
    SliceSizes = {0, 1, 2, 3}
    MaxFragmentCount = 3
    CrcByte = 2
    CrcSize = 2
    CrcPoly <- RunPoly
    CrcWord = 2
    CrcPayloads <- RunPayloads
    Tasks <- RunTasks
    LimbBits = 5
    Base = 32
    MacKeys <- RunMacKeys
    MacBlocks <- RunMacBlocks
    MaxMacBlocks = 3
    StreamBlock = 3
    TagBlock = 2
    Plaintexts <- RunPlaintexts
    Protocols = {1, 2}
    MaxSealed = 2
INVARIANTS
    PartsTypeOK AssembledWhole AssemblerAccounts WindowIsTrue GatesHold
    PathIsMeasured ReplicaIsTrue WrittenIsRead NetworksKeepAccounts
    DamageIsFound DigestsAreStandard MacIsExact OpenedIsSealed
PROPERTIES
    BuffersDrain HalvingsSpaced WaitingIsSent ModeComesBack MovesKeepConnections
CHECK_DEADLOCK FALSE
