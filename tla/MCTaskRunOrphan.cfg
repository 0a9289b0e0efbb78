SPECIFICATION Spec
CONSTANTS
  c1 = c1
  c2 = c2
  c3 = c3
  Controls = {c1}
  Contract = TRUE
  Strays = FALSE
INVARIANTS EndedRunHoldsNoReceipt
CHECK_DEADLOCK FALSE
