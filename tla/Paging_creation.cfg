SPECIFICATION FairSpec
CONSTANTS
  None = None
  Id <- ThreeIds
  Url = {"u"}
  IdemKey = {"k"}
  Res = 2
  MaxTick = 2
  MaxDueBatch = 1
  DefaultPageSize = 1
  MaxPageSize = 1
  Filter <- NoFilter
  Lister = {}
  Creator = {c1, c2}
  Limits = {}
  Existing <- Waiting
  Request <- MCRequest
  MaxWrites = 1
  MaxNow = 1
CHECK_DEADLOCK FALSE
PROPERTIES
  CreateOnce
  Answered
