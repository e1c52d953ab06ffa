SPECIFICATION StartupFair
CONSTANTS
    MaxTiles = 3
    MaxPending = 2
    Events = {"break", "listener", "context", "drain_start", "initialize", "memory"}
    Faults = {"args", "buffers", "thread", "display", "backend", "renderer", "allocator",
              "scene", "xdg_shell", "xwayland", "socket", "child", "output"}
CHECK_DEADLOCK FALSE
INVARIANTS
    InFlightBounded
    LivePeerOnly
    ReleasedAfterJoin
PROPERTIES
    ThrottleEnds
    StopEnds
    ViewerServed
    ProcessEnds
