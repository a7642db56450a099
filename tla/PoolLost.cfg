SPECIFICATION Spec
CONSTANTS
    Clients = {k1, k2, k3}
    Conns = {c1, c2, c3, c4}
    MaxPoolSize = 1
    MinIdleConns = 1
SYMMETRY Symmetric
INVARIANT
    NoneLost
CHECK_DEADLOCK FALSE
