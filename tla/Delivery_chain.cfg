SPECIFICATION Spec
CONSTANTS
  None = None
  Id = {i1, i2, i3, i4, i5}
  Worker = {w1, w2}
  Client = {c1}
  Content <- Recurring
  Retries <- MCRetries
  Schedule <- MCSchedule
  Filter <- NoFilter
  Interval = 2
  MaxDueBatch = 1
  MaxConcurrent = 1
  MaxStaleness = 1
  TimerSkew = 0
  MaxTime = 3
  MaxTasks = 1
  MaxOps = 0
  MaxStops = 1
  MaxCrashes = 1
  MaxErrors = 1
SYMMETRY Symmetry
INVARIANTS
  NoFork
PROPERTIES
  ChainContinues
