SPECIFICATION Spec
CONSTANTS
  c1 = c1
  c2 = c2
  b1 = b1
  b2 = b2
  None = None
  Candidates <- MCCandidates
  Bundles <- MCBundles
  First = b1
  MaxRounds = 3
  MaxFailures = 2
  Limit = 1
  Cooldown = 2
  Horizon = 3
  Registered = TRUE
INVARIANTS TypeOK SessionIsItsLastRound NothingOutlives ReviewIsEarned OneLineage
PROPERTY SessionEnds
CHECK_DEADLOCK FALSE
