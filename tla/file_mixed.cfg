SPECIFICATION Spec
CONSTANTS
    s1 = s1
    s2 = s2
    b1 = b1
    b2 = b2
    Sessions = {s1, s2}
    Permitted = {s1, s2}
    Names = {"x", "x.part"}
    Asked = {"x"}
    Temp <- TempOf
    Blocks = {b1, b2}
    Hole = Hole
    Claims <- TwoBlocks
    MaxBlocks = 2
    MaxIds = 1
    MaxFaults = 0
SYMMETRY Symmetry
CHECK_DEADLOCK FALSE
INVARIANTS
    OnlyMatchInPlace
