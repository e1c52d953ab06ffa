SPECIFICATION FairSpec
CONSTANTS
    MaxTiles = 3
    MaxPending = 2
    Events = {"break"}
CHECK_DEADLOCK FALSE
PROPERTY
    ExitsWithLastToplevel
