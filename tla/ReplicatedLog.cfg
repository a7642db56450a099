SPECIFICATION Spec
CONSTANTS
  NodeNames = {n1, n2}
  DirectiveIDs = {d}
  ParamNames = {p}
  ParamValues = {v}
  DirectiveMaxAge = 1
  Commands <- MCCommands
  MaxLog = 3
  MaxTime = 3
  MaxRestarts = 1
SYMMETRY Symmetric
INVARIANTS
  PrimaryRegistered
  ReplicasAgree
CHECK_DEADLOCK FALSE
