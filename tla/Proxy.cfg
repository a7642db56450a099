SPECIFICATION FairSpec
CONSTANTS
    Handlers = {h1}
    Nodes = {n1, n2}
    Pooled = FALSE
    MaxChanges = 1
INVARIANTS
    DrainLeavesNothing
PROPERTIES
    ShutdownEndsAll
    GoneClientEnds
\* The daemon ends with its context.
CHECK_DEADLOCK FALSE
