SPECIFICATION Spec
CONSTANTS
    t1 = t1
    t2 = t2
    t3 = t3
    p1 = p1
    p2 = p2
    Toplevels <- MCToplevels
    Popups <- MCPopups
    Buttons = {left}
    Left = left
    NoSurface = NoSurface
    Areas <- MCAreas
    Grabbing = {}
    MaxSurfaces = 4
SYMMETRY MCSymmetry
CHECK_DEADLOCK FALSE
PROPERTIES
    KeyboardGoesToVisible
