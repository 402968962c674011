CONSTANTS
    c1 = c1
    c2 = c2
    c3 = c3
    w1 = w1
    w2 = w2
    k1 = k1
    k2 = k2
    a = a
    b = b
    d = d
    None = None
    NoFile = NoFile
    NoVector = NoVector
    Connections = {c1, c2, c3}
    Workers = {w1, w2}
    Layouts <- MCLayouts
    MaxHeader = 2
    Chunk = 4
    Keys = {k1, k2}
    Models = {a, b, d}
    PrefixHash <- MCHash
    CacheEntries = 1

SPECIFICATION FairSpec
INVARIANTS
    ConnectionsAccounted
    AnswersInOrder
    VectorsOfFingerprint
PROPERTIES
    FileReplacedWhole
    StopNoticed
    ConnectionsEnd
