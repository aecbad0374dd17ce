CONSTANTS
    c1 = c1
    c2 = c2
    x1 = x1
    t1 = t1
    t2 = t2
    p1 = p1
    p2 = p2
    None = None
    Slots = 1
SPECIFICATION TreeSpec
PROPERTIES
    LoadKeepsSelection
CHECK_DEADLOCK FALSE
