SPECIFICATION Spec
CONSTANTS
    t1 = t1
    t2 = t2
    t3 = t3
    p1 = p1
    p2 = p2
    Toplevels <- MCToplevels
    Popups <- MCPopups
    Buttons = {left}
    Left = left
    NoSurface = NoSurface
    Areas <- MCAreas
    Grabbing = {p2}
    MaxSurfaces = 3
SYMMETRY MCSymmetry
CHECK_DEADLOCK FALSE
INVARIANTS
    TypeOK
    KeysGoToFront
PROPERTIES
    DragNeverSwitches
    PressGoesUnderCursor
