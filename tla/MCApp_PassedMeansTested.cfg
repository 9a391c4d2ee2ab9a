CONSTANTS
    U32 = 32
    BLOCKS_PER_READ = 2
    PROGRESS_UPDATE_SECTORS = 2
    PROGRESS_ITERATIONS = 2
    LATENCY_SLOW_US = 5
    FAST_TEST_SECTORS = 3
    FAST_BUTTERFLY_ITER = 1
    CYCLES = 2
    PERCENT = 10
    Counts <- MCCounts
    Latencies <- MCLatencies
    Modes <- MCModes
SPECIFICATION Spec
CHECK_DEADLOCK FALSE
INVARIANT PassedMeansTested
