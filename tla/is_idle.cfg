CONSTANTS
    a = a
    b = b
    k1 = k1
    k2 = k2
    k3 = k3
    k4 = k4
    k5 = k5
    Free = Free
    NoEntry = NoEntry
    Clients = {a, b}
    Keys = {k1, k2, k3}
    TokensOf <- MCTokens
    Calls <- PairCalls
    Cells = {1, 2, 3, 4}
    CacheEntries = 1
    PipelineSlots = 2
    SlotGroup <- DevicePerSlot
    OverflowSlots <- NoOverflow
    SlotMaxBatchTokens <- Uncapped
    MaxBatchTokens = 4
    MaxBatchRequests = 1
    MaxBatchSequenceTokens = 2
    ShortBypassTokens = 0
    OverflowMaxSequenceTokens = 0
    ContextLimit = 4
    Switches = {"batch_wave", "sort"}
    DrainOnStop = FALSE

SPECIFICATION Spec
INVARIANTS
    IdleDeviceServed
