SPECIFICATION FairSpec
CONSTANTS
  c1 = c1
  c2 = c2
  c3 = c3
  Controls = {c1, c2}
  Contract = FALSE
  Strays = FALSE
PROPERTIES CancellationDecided
CHECK_DEADLOCK FALSE
