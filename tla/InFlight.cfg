SPECIFICATION Spec
CONSTANTS
  DirectiveIDs <- MCDirectiveIDs
  NodeNames = {n1}
  Daemons = {n1}
  InitialPrimary = n1
  InitialRole = "replica"
  ParamNames = {}
  ParamValues = {}
  DirectiveMaxAge = 1
  ApiWorkers = {api1, api2}
  ApiOps = {"failover", "switchover"}
  FencingEnabled = TRUE
  Protection = FALSE
  Ageing = TRUE
  Lags = {0}
  MaxLagThreshold = 0
  MaxRetries = 1
  MaxBehind = 1
  MaxOps = 2
  MaxElections = 0
  MaxFaults = 0
  MaxCrashes = 0
INVARIANTS
  InFlightWhileWorking
