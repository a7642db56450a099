SPECIFICATION FairSpec
CONSTANTS
    Capacity = 3
    ZeroEntry <- MCZeroEntry
    Lags = {0}
    Interval = 1
    Multiplier = 2
    MaxBackoff = 8
    FailureCap = 4
    Limits = {0, 1, 4}
    DefaultLimit = 2
    MaxFaults = 2
INVARIANTS
    ReadersAgree
    BackoffMatchesHistory
    StartsInformed
    AnswerAddsUp
PROPERTIES
    RingIsRecent
    ServerNoticed
    StopsClean
CHECK_DEADLOCK FALSE
