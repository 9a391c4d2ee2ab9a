CONSTANTS
    UNITS = 7
    HDR = 2
    Sizes <- MCSizes
    Blocks = {b1, b2}
    Junk = Junk
SYMMETRY BlocksAlike
SPECIFICATION MemSpec
INVARIANTS
    PoolTiled
    ContentsKept
