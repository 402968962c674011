CONSTANTS
    a = a
    b = b
    k1 = k1
    k2 = k2
    k3 = k3
    k4 = k4
    k5 = k5
    Free = Free
    NoEntry = NoEntry
    Clients = {a, b}
    Keys = {k1, k3}
    TokensOf <- MCTokens
    Calls <- LaneCalls
    Cells = {1, 2}
    CacheEntries = 0
    PipelineSlots = 2
    SlotGroup <- OneDevice
    OverflowSlots <- NoOverflow
    SlotMaxBatchTokens <- Uncapped
    MaxBatchTokens = 2
    MaxBatchRequests = 2
    MaxBatchSequenceTokens = 4
    ShortBypassTokens = 1
    OverflowMaxSequenceTokens = 0
    ContextLimit = 4
    Switches = {"batch_wait"}
    DrainOnStop = TRUE

SPECIFICATION FairSpec
INVARIANTS
    BypassLanes
PROPERTIES
    ServiceLive
