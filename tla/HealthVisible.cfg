SPECIFICATION FairSpec
CONSTANTS
  DirectiveIDs <- MCDirectiveIDs
  NodeNames = {n1, n2}
  Daemons = {n1, n2}
  InitialPrimary = n1
  InitialRole = "replica"
  ParamNames = {}
  ParamValues = {}
  DirectiveMaxAge = 1
  ApiWorkers = {api}
  ApiOps = {}
  FencingEnabled = TRUE
  Protection = FALSE
  Ageing = TRUE
  Lags = {0}
  MaxLagThreshold = 0
  MaxRetries = 2
  MaxBehind = 1
  MaxOps = 0
  MaxElections = 0
  MaxFaults = 0
  MaxCrashes = 0
PROPERTIES
  PrimaryHealthVisible
