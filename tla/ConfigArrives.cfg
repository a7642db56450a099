SPECIFICATION FairSpec
CONSTANTS
    NodeNames = {n1}
    DirectiveIDs = {}
    DirectiveMaxAge = 1
    ParamNames <- MCParams
    ParamValues = {"big", "small"}
    ValidNames <- MCValid
    Postmaster <- MCPostmaster
    Patches <- MCSets
    MaxVersion = 2
    MaxFaults = 0
    MaxRestarts = 0
PROPERTY
    ConfigArrives
CHECK_DEADLOCK FALSE
