SPECIFICATION FairSpec
CONSTANTS
    Observers = {o1, o2, o3, o4}
    ObsCap = 3
    MaxElections = 2
    MaxNetFaults = 1
    MaxRestarts = 0
PROPERTY
    LeaderHasAddress
CHECK_DEADLOCK FALSE
