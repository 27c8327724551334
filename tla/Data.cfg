SPECIFICATION DataSpec
CONSTANTS
  Order = 1
  Key = {1, 2, 3, 4, 5, 6, 7, 8, 9}
  MaxPairs = 9
  MaxLen = 6
  MaxVal = 4
  MaxColl = 2
  NColls = 3
  MaxText = 5
  MaxSplit = 3
  MaxNodes = 3
  MaxCalls = 25
  MaxOps = 5
  NRows = 2
  NTotal = 3
  NSampled = 2
  InitArraySize = 2
  CombinerThreshold = 2
  EstInterval = 2
  NKeysPerBkt = 1
  SampleTasks = 3
  TasksPerCpu = 1
  OldEstimates = {0, 7}
INVARIANTS AlgorithmsCorrect CollectionsSound AppsCorrect
CHECK_DEADLOCK FALSE
