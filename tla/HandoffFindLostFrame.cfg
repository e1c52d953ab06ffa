SPECIFICATION FairSpec
CONSTANTS
    Tiles <- MCTile
    Region = {}
    Shifts <- MCNoShifts
    Events = {}
    SlowFrames = FALSE
    MaxCommits = 2
    MaxFaults = 0
CHECK_DEADLOCK FALSE
PROPERTY
    ScreenCatchesUp
