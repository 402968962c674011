CONSTANTS
    WorkerCount = 2
    Requests <- SmallRequests
    Limits <- AnyLimits
    Generations = 8
    MaxCalls = 2

SPECIFICATION FairSpec

INVARIANTS
    CapRespected

PROPERTIES
    CallsEnd
    ImplementsParallelFor
