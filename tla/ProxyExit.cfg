SPECIFICATION Spec
CONSTANTS
    Handlers = {h1}
    Nodes = {n1, n2}
    Pooled = TRUE
    MaxChanges = 0
INVARIANT
    ExitAfterDrain
\* The daemon ends with its context.
CHECK_DEADLOCK FALSE
