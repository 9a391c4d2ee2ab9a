CONSTANTS
    Counts <- MCCounts
    Requests <- MCRequests
    MaxBlocks = 2
    RETRIES = 5
    RETRIES_RE = 3
SPECIFICATION Spec
INVARIANTS
    TypeOK
    SessionSound
PROPERTIES
    CallsReturn
    
