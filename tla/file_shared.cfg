SPECIFICATION Spec
CONSTANTS
    s1 = s1
    s2 = s2
    b1 = b1
    b2 = b2
    Sessions = {s1, s2}
    Permitted = {s1, s2}
    Names = {"x", "x.part", "x.part.part"}
    Asked = {"x", "x.part"}
    Temp <- TempOf
    Blocks = {b1}
    Hole = Hole
    Claims <- RightAndWrong
    MaxBlocks = 2
    MaxIds = 1
    MaxFaults = 1
SYMMETRY Symmetry
CHECK_DEADLOCK FALSE
INVARIANTS
    TypeOK
    VerifiedWhenAlone
    NothingUnverified
