SPECIFICATION FairSpec
CONSTANTS
    Handlers = {h1}
    Nodes = {n1, n2}
    Pooled = TRUE
    MaxChanges = 0
PROPERTY
    PipeReturnsOnEither
\* The daemon ends with its context.
CHECK_DEADLOCK FALSE
