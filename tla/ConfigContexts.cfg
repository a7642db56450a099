SPECIFICATION Spec
CONSTANTS
    NodeNames = {n1}
    DirectiveIDs = {}
    DirectiveMaxAge = 1
    ParamNames <- MCParams
    ParamValues = {"big", "small"}
    ValidNames <- MCValid
    Postmaster <- MCPostmaster
    Patches <- MCSets
    MaxVersion = 2
    MaxFaults = 1
    MaxRestarts = 0
INVARIANT
    UnknownContextsPend
CHECK_DEADLOCK FALSE
