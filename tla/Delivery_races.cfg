SPECIFICATION Spec
CONSTANTS
  None = None
  Id = {i1}
  Worker = {w1}
  Client = {c1, c2}
  Content <- OnlyOnce
  Retries <- MCRetries
  Schedule <- MCSchedule
  Filter <- MCFilter
  Interval = 2
  MaxDueBatch = 1
  MaxConcurrent = 1
  MaxStaleness = 1
  TimerSkew = 1
  MaxTime = 2
  MaxTasks = 1
  MaxOps = 2
  MaxStops = 1
  MaxCrashes = 1
  MaxErrors = 1
SYMMETRY Symmetry
INVARIANTS
  TypeOK
  FireWindow
  BoundedRuns
  RunningIsOwned
  RecordConsistent
  IInv
PROPERTIES
  HistoryIsFinal
