SPECIFICATION Spec
CONSTANTS
    Levels = {"info", "debug"}
    MaxEvents = 3
    MaxStarts = 2
INVARIANTS
    LevelUpdated
CHECK_DEADLOCK FALSE
