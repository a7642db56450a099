SPECIFICATION Spec
CONSTANTS
  DirectiveIDs <- MCDirectiveIDs
  NodeNames = {n1, n2}
  Daemons = {n1, n2}
  InitialPrimary = n1
  InitialRole = "replica"
  ParamNames = {}
  ParamValues = {}
  DirectiveMaxAge = 1
  ApiWorkers = {api}
  ApiOps = {}
  FencingEnabled = TRUE
  Protection = FALSE
  Ageing = TRUE
  Lags = {0}
  MaxLagThreshold = 0
  MaxRetries = 2
  MaxBehind = 0
  MaxOps = 1
  MaxElections = 1
  MaxFaults = 0
  MaxCrashes = 0
INVARIANTS
  OldPrimaryHandledFirst
PROPERTIES
  FencedUntilCommanded
