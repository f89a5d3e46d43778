SPECIFICATION FairSpec
CONSTANTS
  None = None
  Id = {i1}
  Worker = {w1}
  Client = {c1}
  Content <- OnlyOnce
  Retries <- MCRetries
  Schedule <- MCSchedule
  Filter <- MCFilter
  Interval = 2
  MaxDueBatch = 1
  MaxConcurrent = 1
  MaxStaleness = 0
  TimerSkew = 0
  MaxTime = 2
  MaxTasks = 1
  MaxOps = 2
  MaxStops = 1
  MaxCrashes = 1
  MaxErrors = 0
PROPERTIES
  EventuallyFinished
