SPECIFICATION Spec
CONSTANTS
  ta = ta
  tb = tb
  tc = tc
  Threads = {ta, tb, tc}
  NSlots = 5
  OrderMax = 3
  MaxInactive = 1
  ObjSize <- MCObjSize
  PbPages <- MCPbPages
  PoolSize <- MCPoolSize
  Scenarios <- AllScenarios
INVARIANTS BlockInv BuddyInv RecordsTrue
PROPERTIES CallsReturn
CHECK_DEADLOCK FALSE
