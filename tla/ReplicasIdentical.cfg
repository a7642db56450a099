SPECIFICATION Spec
CONSTANTS
  NodeNames = {n1, n2}
  DirectiveIDs = {d}
  ParamNames = {}
  ParamValues = {}
  DirectiveMaxAge = 1
  Commands <- MCDirectiveCommands
  MaxLog = 4
  MaxTime = 4
  MaxRestarts = 1
INVARIANTS
  ReplicasIdentical
CHECK_DEADLOCK FALSE
