CONSTANTS
    a = a
    b = b
    k1 = k1
    k2 = k2
    k3 = k3
    k4 = k4
    k5 = k5
    Free = Free
    NoEntry = NoEntry
    Clients = {a, b}
    Keys = {k1, k2, k3, k4, k5}
    TokensOf <- MCTokens
    Calls <- BacklogCalls
    Cells = {1, 2, 3, 4, 5, 6}
    CacheEntries = 0
    PipelineSlots = 2
    SlotGroup <- DevicePerSlot
    OverflowSlots <- LastOverflows
    SlotMaxBatchTokens <- OverflowCap
    MaxBatchTokens = 4
    MaxBatchRequests = 2
    MaxBatchSequenceTokens = 3
    ShortBypassTokens = 0
    OverflowMaxSequenceTokens = 2
    ContextLimit = 4
    Switches = {"lookahead", "sort", "solo_inline", "batch_wait"}
    DrainOnStop = FALSE

SPECIFICATION Spec
SYMMETRY Callers
INVARIANTS
    WaveWithinBudget
    PickPromisesMember
    PendingInOnePlace
    SlotsExclusive
PROPERTIES
    OverflowLeavesHead
