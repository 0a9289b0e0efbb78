SPECIFICATION Spec
CONSTANTS
  l = l
  q = q
  m = m
  w1 = w1
  w2 = w2
  Events = {l, q, m}
  Workers = {w1, w2}
  Kind <- Several
  MaxAttempts = 2
  ClaimMaxAttempts = 2
  MaxReconcile = 2
  MaxEvents = 2
  MaxFaults = 1
  MaxFlips = 2
  Timely = FALSE
  HonestErrors = FALSE
INVARIANTS ProcessedWasDelivered SettledRunMovedOn BlockedTogether
PROPERTIES StaleWorkerHarmless ReleasedUnderOpenGate
SYMMETRY SymWorkers
CHECK_DEADLOCK FALSE
