SPECIFICATION Spec
CONSTANTS
    Processes = {p1}
    Threads = {t1, t2, t3}
    Events = {e1, e2}
    MaxRows = 3
    MaxFaults = 2
SYMMETRY Symmetry
INVARIANTS
    TypeOK
    TamperEvident
    NeighboursChained
PROPERTIES
    TrailSpec
