SPECIFICATION Spec
CONSTANTS
  Node = {n1}
  BatchSize = 1
  MaxId = 2
  MaxInitial = 2
  MaxClears = 1
  Failures = FALSE
INVARIANTS RepopulatesCache
CHECK_DEADLOCK FALSE
