SPECIFICATION Spec
CONSTANTS
  none = none
  base = base
  r1 = r1
  r2 = r2
  native = native
  derived = derived
  p1 = p1
  p2 = p2
  k1 = k1
  k2 = k2
  FactSetIds = {base, r1, r2}
  Recomputed = {r1, r2}
  Spaces = {native, derived}
  SpaceOf <- TwoSpaces
  Partitions = {p1, p2}
  Keys = {k1, k2}
  Budget = 1
  MaxAttempts = 2
  MaxGeneration = 4
  None = none
INVARIANTS TypeOK WholeWhenVisible ReceiptIsOfThisAttempt HeadIsLedger
PROPERTIES FrozenOnceVetted ImplementsActiveBundle
SYMMETRY Interchangeable
CHECK_DEADLOCK FALSE
