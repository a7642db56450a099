SPECIFICATION FairSpec
CONSTANTS
  DirectiveIDs <- MCDirectiveIDs
  NodeNames = {n1, n2}
  Daemons = {n1}
  InitialPrimary = n1
  InitialRole = "unknown"
  ParamNames = {}
  ParamValues = {}
  DirectiveMaxAge = 1
  ApiWorkers = {api}
  ApiOps = {"switchover"}
  FencingEnabled = TRUE
  Protection = TRUE
  Ageing = FALSE
  Lags = {0}
  MaxLagThreshold = 0
  MaxRetries = 1
  MaxBehind = 1
  MaxOps = 1
  MaxElections = 1
  MaxFaults = 1
  MaxCrashes = 0
INVARIANTS
  DemoteAfterCheckpoint
PROPERTIES
  SelfFences
