CONSTANTS
    Garbage = Garbage
    None = None
    Failed = Failed
    LayerCount = 2
    SwaPeriod = 2
    SwaWindow = 2
    CudaWarps = 2
    XpuWarps = 2
    XpuGraphLimit = 2
    XpuCrossover <- MCXpuCrossover
    MmaTile = 4
    ContextLength = 6
    FirstCapacity = 2
    GraphLimit = 2
    Gemma2Window = 1
    BlockOf <- MCBlocks
    FirstBatch = 1
    Gemma2GraphLimit = 2
    Crossover <- MCCrossover
    Shapes <- MCShapes
    Sessions <- MCExceptions

SPECIFICATION Spec
INVARIANT EmbeddingsMatch
