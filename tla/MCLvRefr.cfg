CONSTANTS
    Scr = Scr
    win = win
    btn = btn
    tip = tip
    Objs = {win, btn, tip}
    None = None
    HOR_RES = 4
    VER_RES = 3
    VDB_SIZE = 5
    INV_FIFO_SIZE = 2
    Styles <- MCStyles
    Spots <- MCSpots
    Dims <- MCDims
    Scenes <- MCScenes
    MaxChanges = 3
SPECIFICATION RefrSpec
INVARIANTS
    StaleIsQueued
    BuffersFit
PROPERTIES
    NoneDropped
