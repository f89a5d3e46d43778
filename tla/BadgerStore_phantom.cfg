SPECIFICATION Spec
CONSTANTS
  None = None
  Id <- OneId
  Url = {u1}
  IdemKey = {}
  DefaultPageSize = 1
  MaxPageSize = 1
  Txn = {x1, x2}
  Res = 1
  MaxTick = 1
  MaxDueBatch = 2
  Filter <- MCFilter
  MaxTxns = 4
  MaxBlind = 1
SYMMETRY Symmetry
CHECK_DEADLOCK FALSE
INVARIANTS
  OneKeyPerId
