CONSTANTS
    r1 = r1
    r2 = r2
    r3 = r3
    w = w
    Free = Free
    NULL = NULL
    Requests = {r1, r2, r3}
    Waves = {w}
    Layouts <- MCLayouts
    Layers = 2
    Sizes = {1, 4}
    MaxItems = 2
    MaxRows = 3

SPECIFICATION FairSpec
INVARIANTS
    EngineExclusive
    YieldHandsOver
    NodesAlive
PROPERTIES
    RequestsServed
