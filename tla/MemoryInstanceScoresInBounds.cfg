SPECIFICATION Spec
CONSTANTS
  MaxScore = 2
  Id = {m1}
  NoId = NoId
  Caller = {c1}
  Requests <- MCRequests
  Pulls <- MCPulls
  Answers <- MCAnswersBeyond
  Century = 9
  MaxInserted = 2
  MaxAnswers = 2
  MaxNow = 2
INVARIANT ScoresInBounds
CHECK_DEADLOCK FALSE
