SPECIFICATION FairSpec
CONSTANTS
    Conns = {c1, c2}
    Malformed = {c1}
    Accounts <- TwoAccounts
    MaxSessions = 1
    None = None
INVARIANTS
    TypeOK
    SlotsKept
    PortFreeOnReturn
    RecordTrue
PROPERTIES
    PromiseKept
    HandshakeBounded
    SlotReleased
    StopReturns
