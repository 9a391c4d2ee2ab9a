CONSTANTS
    START = 8
    HDR = 2
    Sizes <- MCSizes
    MaxHeld = 3
SPECIFICATION Spec
INVARIANTS
    HeapSound
    Coalesced
PROPERTIES
    CallsReturn
