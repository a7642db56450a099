SPECIFICATION FairSpec
CONSTANTS
  DirectiveIDs <- MCDirectiveIDs
  NodeNames = {n1, n2}
  Daemons = {n2}
  InitialPrimary = n1
  InitialRole = "replica"
  ParamNames = {}
  ParamValues = {}
  DirectiveMaxAge = 1
  ApiWorkers = {api}
  ApiOps = {"pause"}
  FencingEnabled = TRUE
  Protection = FALSE
  Ageing = TRUE
  Lags = {0, 2}
  MaxLagThreshold = 1
  MaxRetries = 2
  MaxBehind = 1
  MaxOps = 1
  MaxElections = 1
  MaxFaults = 0
  MaxCrashes = 1
PROPERTIES
  InFlightEnds
