SPECIFICATION Spec
CONSTANTS
  none = none
  d1 = d1
  d2 = d2
  d3 = d3
  Deployments = {d1, d2, d3}
  None = none
  Production = TRUE
  MaxCommands = 4
  MaxDrifts = 1
INVARIANTS TypeOK TrafficFollowsHead LedgerIsHistory HeadServes
PROPERTIES StaleCommandHarmless ImplementsActiveBundle CommandSettles
CHECK_DEADLOCK FALSE
