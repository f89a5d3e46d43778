SPECIFICATION Spec
CONSTANTS
  None = None
  Retries <- AllRetries
  Intervals <- AllIntervals
  Timeouts = {0, 2}
  Response <- MCResponse
  defaultTimeout = 3
  Millisecond = 2
  Second = 4
  maxBackoff = 5
  Word = 5
CHECK_DEADLOCK FALSE
INVARIANTS
  TypeOK
  Exhausted
  SleepBounded
  SlotHeld
  StartsSpaced
