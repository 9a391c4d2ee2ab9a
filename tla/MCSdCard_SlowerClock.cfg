CONSTANTS
    Kinds <- MCKinds
    Modes <- MCModes
    Polls = 2
SPECIFICATION Spec
INVARIANTS
    SlowerClock
