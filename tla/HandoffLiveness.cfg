SPECIFICATION FairSpec
CONSTANTS
    Tiles <- MCTile
    Region = {}
    Shifts <- MCNoShifts
    Events = {"break", "shutdown"}
    SlowFrames = FALSE
    MaxCommits = 1
    MaxFaults = 0
CHECK_DEADLOCK FALSE
PROPERTIES
    PendingTaken
    ForceConsumed
    ShutdownCompletes
