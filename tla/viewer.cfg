SPECIFICATION FairViewerSpec
CONSTANTS
    Control = TRUE
    UserCloses = TRUE
    MaxMessages = 4
INVARIANTS
    ViewerTypeOK
    DamageNeedsUser
PROPERTIES
    ViewerReturns
CHECK_DEADLOCK FALSE
