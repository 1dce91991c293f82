SPECIFICATION ConfigurationSpec
CONSTANTS
  Node = {n1, n2}
  Call = {c1}
  Limits <- MCLimits
  None = None
  MaxEdits = 3
INVARIANTS EditTakesEffect
