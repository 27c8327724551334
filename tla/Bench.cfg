CONSTANTS
    Runs <- PassingRuns
    kTotalSize = 24
    kMlockSize = 8
    kTotalAccesses = 24
    N_FILL_REQS = 1
    N_TEST_REQS = 4
    MAX_TEST_THREADS = 3
    NUM_SOCKET = 2
    NUM_PHYSICAL_CPU_PER_SOCKET = 2
    SMT_LEVEL = 1
SPECIFICATION Spec
INVARIANTS PhaseSetUp 
PROPERTY RunEnds
