CONSTANTS
    n1 = n1
    n2 = n2
    byte1 = byte1
    byte2 = byte2
    LastCluster = 5
    EntriesPerFat = 2
    Slots = 2
    SlotsPerSector = 1
    SectorSize = 2
    Names = {n1, n2}
    Bytes = {byte1, byte2}
    Images <- MCImages
    Writes <- MCWrites
    NoName = NoName
    MaxFaults = 2
    MaxCalls = 4
SPECIFICATION FatSpec
INVARIANTS
    FilesKept
    ChainsSound
    WindowCoherent
    RepliesHonest
