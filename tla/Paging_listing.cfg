SPECIFICATION Spec
CONSTANTS
  None = None
  Id <- ThreeIds
  Url = {"u"}
  IdemKey = {}
  Res = 1
  MaxTick = 1
  MaxDueBatch = 1
  DefaultPageSize = 1
  MaxPageSize = 2
  Filter <- MCFilter
  Lister = {l1}
  Creator = {}
  Limits <- MCLimits
  Existing <- Rows
  Request <- NoRequest
  MaxWrites = 2
  MaxNow = 0
INVARIANTS
  TypeOK
  WalkExact
PROPERTIES
  HasMore
