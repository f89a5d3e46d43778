SPECIFICATION Spec
CONSTANTS
  None = None
  Id <- TwoIds
  Url = {u1}
  IdemKey = {}
  DefaultPageSize = 1
  MaxPageSize = 1
  Txn = {x1, x2}
  Res = 2
  MaxTick = 2
  MaxDueBatch = 1
  Filter <- MCFilter
  MaxTxns = 4
  MaxBlind = 0
SYMMETRY Symmetry
CHECK_DEADLOCK FALSE
INVARIANTS
  TypeOK
  Keyspace
  CountsExact
  DueOldest
PROPERTIES
  LiveKept
  BulkDeleteComplete
  MapSpec
