SPECIFICATION FairSpec
CONSTANTS
    Levels = {"info", "debug"}
    MaxEvents = 3
    MaxStarts = 2
INVARIANTS
    TypeOK
    NothingLeftOpen
    RaftHasItsStores
    ExitExplained
PROPERTIES
    ReceivedTermEnds
    FailureEnds
    SighupTakesEffect
CHECK_DEADLOCK FALSE
