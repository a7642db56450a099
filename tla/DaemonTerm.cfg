SPECIFICATION FairSpec
CONSTANTS
    Levels = {"info", "debug"}
    MaxEvents = 3
    MaxStarts = 2
PROPERTIES
    TermEnds
CHECK_DEADLOCK FALSE
