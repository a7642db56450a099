SPECIFICATION FairSpec
CONSTANTS
    Observers = {o1, o2, o3, o4}
    ObsCap = 2
    MaxElections = 2
    MaxNetFaults = 0
    MaxRestarts = 1
PROPERTY
    OnlyLeaderHasAddress
CHECK_DEADLOCK FALSE
