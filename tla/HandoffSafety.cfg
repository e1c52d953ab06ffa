SPECIFICATION Spec
CONSTANTS
    Tiles <- MCTiles
    Region = {}
    Shifts <- MCNoShifts
    Events = {"break", "shutdown", "spurious", "build_state", "compose", "quiet"}
    SlowFrames = FALSE
    MaxCommits = 1
    MaxFaults = 1
CHECK_DEADLOCK FALSE
INVARIANTS
    BufferOwnership
    NoLostWakeup
    PrevIsViewer
PROPERTIES
    HandoffIsMailbox
    ViewerNeverRewinds
