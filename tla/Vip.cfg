SPECIFICATION FairSpec
CONSTANTS
    Observers = {o1, o2, o3, o4}
    ObsCap = 2
    MaxElections = 4
    MaxNetFaults = 2
    MaxRestarts = 1
INVARIANTS
    LossIsNoticed
    AddressOwned
PROPERTIES
    LeaderGetsAddress
    FollowerGivesUp
CHECK_DEADLOCK FALSE
