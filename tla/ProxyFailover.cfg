SPECIFICATION FairSpec
CONSTANTS
    Handlers = {h1}
    Nodes = {n1, n2}
    Pooled = TRUE
    MaxChanges = 1
PROPERTY
    FailoverDrains
\* The daemon ends with its context.
CHECK_DEADLOCK FALSE
