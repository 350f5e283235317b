SPECIFICATION FairSpec
CONSTANTS
    Users = {u1}
    Sessions = {s1, s2}
    MaxFailedAttempts = 2
    LockoutWindow = 1
    LockoutDuration = 2
    MaxTime = 4
INVARIANTS
    TypeOK
    OverrunBounded
    CountExact
PROPERTIES
    LockJustified
    LockExpires
