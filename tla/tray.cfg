SPECIFICATION FairSpec
CONSTANTS
    Options = {o1, o2}
    Users = {none, u1}
    DefaultOptions = o1
    NoUsers = none
    Unusable = Unusable
    Sessions = {s1}
    BootMayFail = TRUE
    MaxServers = 3
    MaxNested = 2
    MaxFaults = 1
INVARIANTS
    TypeOK
    OneServerRuns
    ServesWhatWasSaved
    EditsStay
PROPERTIES
    ExitCompletes
CHECK_DEADLOCK FALSE
