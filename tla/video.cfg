SPECIFICATION FairSpec
CONSTANTS
    Colors = {c1, c2}
    Blank = Blank
    Sizes <- OneOrTwoTiles
    LinkSize = 2
    MaxChanges = 3
    MaxLosses = 1
    MaySecure = TRUE
INVARIANTS
    TypeOK
    PicturesTrue
PROPERTIES
    CatchesUp
CHECK_DEADLOCK FALSE
