CONSTANTS
    Kinds <- MCKinds
    Modes <- MCModes
    Polls = 2
SPECIFICATION Spec
INVARIANTS
    BoardAgrees
    RecordBacked
PROPERTIES
    InitReturns
    ImplementsCardSpec
