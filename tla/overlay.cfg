SPECIFICATION FairSpec
CONSTANTS
    o1 = o1
    o2 = o2
    o3 = o3
    Overlays = {o1, o2, o3}
    MayTimeOut = TRUE
    MayFail = TRUE
INVARIANTS
    TypeOK
    BannersOfSessions
PROPERTIES
    HideReturns
