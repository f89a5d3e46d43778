SPECIFICATION Spec
CONSTANTS
  None = None
  Worker = {w1, w2}
  MaxConcurrent = 2
  Retries = 1
  Value <- MCValue
  upper <- OneBound
  MaxStarts = 2
  MaxRequests = 3
SYMMETRY Symmetry
INVARIANTS
  TypeOK
  GaugeInLimit
  HistogramExact
  FinishedShown
  LagBounded
