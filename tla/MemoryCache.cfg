SPECIFICATION FairSpec
CONSTANTS
  Queue <- MCQueue
  Ids <- MCIds
  Scores = {0, 5}
  LockScores <- MCLockScores
  AckDeadlines <- MCAckDeadlines
  LockTimes = {1}
  Limits <- MCLimits
  PullSizes = {1, 2}
  MaxRequest = 2
  DefaultTimeout = 1
  Second = 2
  MaxNow = 2
INVARIANTS TypeOK EachMessageOnce Sorted
PROPERTIES ImplementsMessageCycle OverdueReturns
