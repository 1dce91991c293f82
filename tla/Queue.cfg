SPECIFICATION Spec
CONSTANTS
  Id = {m1, m2}
  Caller = {c1, c2}
  Lifetimes = {1}
  Century = 9
  MaxElements = 1
  Failures = TRUE
  MaxToday = 1
SYMMETRY Symmetry
INVARIANTS TypeOK CacheFollowsStorage
PROPERTIES RenewedAloneDieEarly
