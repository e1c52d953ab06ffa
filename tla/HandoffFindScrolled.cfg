SPECIFICATION FairSpec
CONSTANTS
    Tiles <- MCTiles
    Region <- MCTiles
    Shifts <- MCShifts
    Events = {}
    SlowFrames = TRUE
    MaxCommits = 2
    MaxFaults = 0
CHECK_DEADLOCK FALSE
PROPERTY
    ScreenCatchesUp
