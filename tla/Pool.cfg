SPECIFICATION Spec
CONSTANTS
    Clients = {k1, k2, k3}
    Conns = {c1, c2, c3, c4, c5}
    MaxPoolSize = 2
    MinIdleConns = 2
SYMMETRY Symmetric
INVARIANTS
    TypeOK
    OneHolder
    TotalCounts
    SendNeverBlocks
    OvershootBounded
    ClosedForGood
CHECK_DEADLOCK FALSE
