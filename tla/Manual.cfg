SPECIFICATION Spec
CONSTANTS
  DirectiveIDs <- MCDirectiveIDs
  NodeNames = {n1, n2}
  Daemons = {n1, n2}
  InitialPrimary = n1
  InitialRole = "unknown"
  ParamNames = {}
  ParamValues = {}
  DirectiveMaxAge = 1
  ApiWorkers = {api}
  ApiOps = {"failover", "switchover"}
  FencingEnabled = TRUE
  Protection = FALSE
  Ageing = FALSE
  Lags = {0}
  MaxLagThreshold = 0
  MaxRetries = 1
  MaxBehind = 1
  MaxOps = 1
  MaxElections = 0
  MaxFaults = 0
  MaxCrashes = 1
INVARIANTS
  InFlightCanEnd
  PrimariesJustified
PROPERTIES
  ImplementsBoard
