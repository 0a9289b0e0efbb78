SPECIFICATION Spec
CONSTANTS
  none = none
  d1 = d1
  d2 = d2
  d3 = d3
  Deployments = {d1, d2, d3}
  None = none
  Production = TRUE
  MaxCommands = 4
  MaxDrifts = 1
INVARIANT GivenUpIsClosed
CHECK_DEADLOCK FALSE
