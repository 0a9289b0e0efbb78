SPECIFICATION Spec
CONSTANTS
  none = none
  c1 = c1
  c2 = c2
  c3 = c3
  key = key
  Callers = {c1, c2, c3}
  Key <- SharedKey
  Body <- TwoBodies
  None = none
  MaxAttempts = 2
  MaxFaults = 2
INVARIANTS TypeOK ExecutedOnce ToldWhatStands
PROPERTIES CallersFinish
CHECK_DEADLOCK FALSE
