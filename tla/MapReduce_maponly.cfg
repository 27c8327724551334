SPECIFICATION Spec
CONSTANTS
  NCpus = 2
  MaxSplits = 4
  SplitCounts = {1, 4}
  ka = ka
  kb = kb
  kc = kc
  Key <- MCKey
  Emits <- MCEmits
  Hash <- MCHash
  MaxCols = 3
  SampleCols = 2
  SamplePercent = 5
  Estimates = {2, 3}
  Programs <- MapOnlyPrograms
INVARIANTS MapOnlyResult
