SPECIFICATION Spec
CONSTANTS
  Node = {n1, n2}
  BatchSize = 1
  MaxId = 2
  MaxInitial = 1
  MaxClears = 1
  Failures = TRUE
SYMMETRY Symmetry
INVARIANTS TypeOK RecoveryIsComplete RunningEnds
CHECK_DEADLOCK FALSE
