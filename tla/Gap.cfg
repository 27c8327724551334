CONSTANTS
    t1 = t1
    t2 = t2
    Workers = {t1, t2}
    kBitsPerWord = 2
    BuChunk = 2
    local_size = 2
    kBinSizeThreshold = 2
    kDistInf = 1000
    kMaxBin = 1000
    Runs <- PassingRuns
SPECIFICATION Spec
INVARIANTS KernelInv ResultCorrect
PROPERTY KernelEnds
