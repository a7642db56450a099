SPECIFICATION FairSpec
CONSTANTS
    NodeNames = {n1}
    DirectiveIDs = {}
    DirectiveMaxAge = 1
    ParamNames <- MCParams
    ParamValues = {"big", "small"}
    ValidNames <- MCValid
    Postmaster <- MCPostmaster
    Patches <- MCPatches
    MaxVersion = 3
    MaxFaults = 1
    MaxRestarts = 1
INVARIANTS
    AppliedLeavesMark
    RestartFlagged
PROPERTY
    LastVersionReached
CHECK_DEADLOCK FALSE
