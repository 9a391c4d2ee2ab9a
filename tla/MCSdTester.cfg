CONSTANTS
    U32 = 32
    BLOCKS_PER_READ = 2
    PROGRESS_UPDATE_SECTORS = 4
    PROGRESS_ITERATIONS = 2
    LATENCY_SLOW_US = 5
    Counts <- MCCounts
    Latencies <- MCLatencies
    Limits <- MCLimits
SPECIFICATION Spec
INVARIANTS
    TypeOK
    SequentialCoverage
    RecordSound
    VerdictHonest
    ButterflyGeometry
PROPERTIES
    ProgressAdvances
    TestTerminates
