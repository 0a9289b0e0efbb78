SPECIFICATION Spec
CONSTANTS
  c1 = c1
  c2 = c2
  c3 = c3
  Controls = {c1, c2, c3}
  Contract = TRUE
  Strays = TRUE
INVARIANTS TypeOK OneTerminalEvent SuccessIsProven CancelledIsStopped DecidedWithCancellation
PROPERTIES StaleControlHarmless
SYMMETRY SymControls
CHECK_DEADLOCK FALSE
