SPECIFICATION Spec
CONSTANTS
  w1 = w1
  w2 = w2
  t1 = t1
  Workers = {w1, w2}
  Testers = {t1}
  NKeys = 2
  NLocks = 2
  Perslab <- MCPerslab
  NPages = 3
  HashPower = 0
  UpdateInterval = 0
  Wrap = 3
  MaxTime = 4
  Scenarios <- AllScenarios
INVARIANTS StoreInv RefAccounted
PROPERTIES HeldStable  ImplementsCache MaintenanceEnds
CHECK_DEADLOCK FALSE
