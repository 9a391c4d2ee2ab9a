CONSTANTS
    Transfers <- MCTransfers
    MaxBlocks = 3
    Boundary = 2
    TmrMod = 4
    WaitBound = 1
    DmaBound = 1
SPECIFICATION Spec
INVARIANTS
    InBounds
    ResponseIsOurs
    DataSafe
PROPERTIES
    TimeoutsHonest
    CallsReturn
