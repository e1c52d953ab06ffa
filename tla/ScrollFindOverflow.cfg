SPECIFICATION ScrollSpec
CONSTANTS
    Workers = {w1, w2}
    MaxCount = 3
    MaxCalls = 2
    TILE_SIZE = 2
    CellSize = 8
    MinRegion = 4
    FFT_SIZE = 8
    MAX_SCROLL_REGIONS = 2
    Screens <- MCScreens
    Shifts <- MCShifts
    Faults = {"calloc", "buffers", "plans"}
    Nobody = Nobody
INVARIANT RegionsFit
CHECK_DEADLOCK FALSE
