SPECIFICATION FairSpec
CONSTANTS
    NodeNames = {n1}
    DirectiveIDs = {}
    DirectiveMaxAge = 1
    ParamNames <- MCParams
    ParamValues = {"big", "small"}
    ValidNames <- MCValid
    Postmaster <- MCPostmaster
    Patches <- MCPatches
    MaxVersion = 2
    MaxFaults = 0
    MaxRestarts = 0
PROPERTY
    DeletedGoes
CHECK_DEADLOCK FALSE
