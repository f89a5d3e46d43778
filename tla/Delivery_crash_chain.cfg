SPECIFICATION Spec
CONSTANTS
  None = None
  Id = {i1, i2, i3}
  Worker = {w1, w2}
  Client = {c1}
  Content <- Recurring
  Retries <- MCRetries
  Schedule <- MCSchedule
  Filter <- NoFilter
  Interval = 2
  MaxDueBatch = 1
  MaxConcurrent = 1
  MaxStaleness = 0
  TimerSkew = 0
  MaxTime = 2
  MaxTasks = 1
  MaxOps = 0
  MaxStops = 0
  MaxCrashes = 1
  MaxErrors = 0
SYMMETRY Symmetry
PROPERTIES
  OutageKeepsChain
