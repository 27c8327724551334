SPECIFICATION Spec
CONSTANTS
  NCpus = 4
  MainLcpu = 0
  MaxPhases = 3
  MaxInits = 2
INVARIANTS PoolInv
PROPERTIES HandoffStable FinalizeQuiescent CallsReturn ImplementsForkJoin
CHECK_DEADLOCK FALSE
