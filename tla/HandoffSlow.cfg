SPECIFICATION FairSpec
CONSTANTS
    Tiles <- MCScrollTiles
    Region <- MCScrollTiles
    Shifts <- MCShifts
    Events = {"data_ptr"}
    SlowFrames = TRUE
    MaxCommits = 2
    MaxFaults = 1
CHECK_DEADLOCK FALSE
INVARIANTS
    DirtyMapSound
    PoisonIsRepaired
PROPERTY
    PrevCatchesUp
