SPECIFICATION Spec
CONSTANTS
    Levels = {"info", "debug"}
    MaxEvents = 3
    MaxStarts = 2
INVARIANTS
    KilledStartsAgain
CHECK_DEADLOCK FALSE
