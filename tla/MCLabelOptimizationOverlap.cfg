SPECIFICATION Spec
CONSTANTS
  c1 = c1
  c2 = c2
  b1 = b1
  b2 = b2
  None = None
  Candidates <- MCCandidates
  Bundles <- MCBundles
  First = b1
  MaxRounds = 2
  MaxFailures = 2
  Limit = 1
  Cooldown = 2
  Horizon = 5
  Registered = TRUE
INVARIANT OneActiveRun
CHECK_DEADLOCK FALSE
