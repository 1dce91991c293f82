SPECIFICATION Spec
CONSTANTS
  MaxScore = 2
  Id = {m1}
  NoId = NoId
  Caller = {c1, c2}
  Requests <- MCRequests
  Pulls <- MCPulls
  Answers <- MCAnswers
  Century = 9
  MaxInserted = 2
  MaxAnswers = 2
  MaxNow = 2
SYMMETRY Symmetry
INVARIANTS TypeOK DiagnosticsAreExact CacheFollowsStorage BeyondBoundsOnlyAsAsked CrashesOnlyOnOverlap
CHECK_DEADLOCK FALSE
