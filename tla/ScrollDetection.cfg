SPECIFICATION ScrollFair
CONSTANTS
    Workers = {w1, w2}
    MaxCount = 3
    MaxCalls = 2
    TILE_SIZE = 2
    CellSize = 8
    MinRegion = 4
    FFT_SIZE = 8
    MAX_SCROLL_REGIONS = 4
    Screens <- MCScreens
    Shifts <- MCShifts
    Faults = {"calloc", "buffers", "plans"}
    Nobody = Nobody
INVARIANTS
    ExactlyOnce
    GridSound
    ShiftExact
    PlannerSerial
PROPERTIES
    CallReturns
\* The calls of parallel_for are bounded: the model stops after the last.
CHECK_DEADLOCK FALSE
