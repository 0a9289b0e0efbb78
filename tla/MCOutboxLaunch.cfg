SPECIFICATION FairSpec
CONSTANTS
  l = l
  q = q
  m = m
  w1 = w1
  w2 = w2
  Events = {l}
  Workers = {w1, w2}
  Kind <- OneLaunch
  MaxAttempts = 2
  ClaimMaxAttempts = 3
  MaxReconcile = 3
  MaxEvents = 1
  MaxFaults = 2
  MaxFlips = 0
  Timely = TRUE
  HonestErrors = TRUE
INVARIANTS TypeOK AtMostOneRun FailedLeftNothing AttemptsBounded
PROPERTIES EventuallySettled
CHECK_DEADLOCK FALSE
