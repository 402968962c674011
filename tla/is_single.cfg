CONSTANTS
    a = a
    b = b
    k1 = k1
    k2 = k2
    k3 = k3
    k4 = k4
    k5 = k5
    Free = Free
    NoEntry = NoEntry
    Clients = {a, b}
    Keys = {k1, k2, k3}
    TokensOf <- MCTokens
    Calls <- CacheCalls
    Cells = {1, 2, 3, 4}
    CacheEntries = 2
    PipelineSlots = 1
    SlotGroup <- OneDevice
    OverflowSlots <- NoOverflow
    SlotMaxBatchTokens <- Uncapped
    MaxBatchTokens = 4
    MaxBatchRequests = 2
    MaxBatchSequenceTokens = 4
    ShortBypassTokens = 0
    OverflowMaxSequenceTokens = 0
    ContextLimit = 4
    Switches = {"lookahead", "solo_inline", "batch_wave", "adaptive_wait", "sort", "batch_wait", "arrival_wait"}
    DrainOnStop = FALSE

SPECIFICATION Spec
SYMMETRY Callers
INVARIANTS
    TypeOK
    OneEntryPerKey
    NoDanglingEntry
    UsersCounted
    CacheBounded
    CountsBalanced
PROPERTIES
    EvictionOrder
    ImplementsSharedAnswers
