CONSTANTS
    a = a
    Clients = {a, b}
    First = a
    Tokenizers = {t1, t2}
    Models <- MCModels
    Spm <- MCSpm
    Batches <- MCBatches
    Kept <- MCKept
    MaxCalls = 2

SPECIFICATION FairSpec

INVARIANT TokensMatch
PROPERTIES
    ImplementsParallelFor
    TokenizersReturn
