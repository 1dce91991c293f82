SPECIFICATION Spec
CONSTANTS
  Id = {m1}
  Caller = {c1, c2}
  Lifetimes = {1, 9}
  Century = 9
  MaxElements = 0
  Failures = FALSE
  MaxToday = 1
PROPERTIES LivesUntilExpiry
