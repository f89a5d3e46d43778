SPECIFICATION FairSpec
CONSTANTS
  None = None
  Id = {i1, i2}
  Worker = {w1, w2}
  Client = {c1}
  Content <- Retried
  Retries <- MCRetries
  Schedule <- MCSchedule
  Filter <- NoFilter
  Interval = 2
  MaxDueBatch = 1
  MaxConcurrent = 1
  MaxStaleness = 0
  TimerSkew = 0
  MaxTime = 2
  MaxTasks = 2
  MaxOps = 0
  MaxStops = 0
  MaxCrashes = 1
  MaxErrors = 0
INVARIANTS
  ClaimExclusive
  SlotBound
  LogComplete
PROPERTIES
  EventuallyFinished
