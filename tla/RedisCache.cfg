SPECIFICATION FairSpec
CONSTANTS
  Id = {1, 2}
  Scores = {0, 1}
  LockScores <- MCLockScores
  AckDeadlines <- MCAckDeadlines
  LockTimes = {0, 1}
  Limits <- MCLimits
  PullSizes = {1, 2}
  DefaultTimeout = 2
  BatchSize = 1
  MaxNow = 3
INVARIANTS
  TypeOK
  PoolsDisjoint
  ScoresOnlyWhileLocked
PROPERTIES
  ReplyIsWhatMoved
  ImplementsMessageCycle
  ExpiredEventuallyReturns
