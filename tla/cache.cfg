CONSTANTS
    CacheUsers = {w1, w2, w3}
    ResponseKeys = {k1, k2, k3, k4}
    Sizes = {1, 2, 4, 5}
    MaxBytes = 4
    Cells = {e1, e2, e3, e4}
    NoEntry = NoEntry

SPECIFICATION ResponseSpec

INVARIANTS
    ResponseTypeOK
    BytesAccounted
    HeldAlive
    OneResponsePerKey

PROPERTIES
    RoomMade

SYMMETRY Symmetric
