\* One command of the client against one session.
SPECIFICATION Spec
CONSTANTS
    Commands = {"upload", "download", "delete", "move"}
    b1 = b1
    b2 = b2
    Absent = Absent
    Bytes = {b1, b2}
    Contents <- MCContents
    Capacity = 1
    MaxMeddling = 1
INVARIANTS
    AuditTells
PROPERTIES
    RequestSpec
    ClientReturns
\* A command that has returned does nothing more.
CHECK_DEADLOCK FALSE
