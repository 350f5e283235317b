SPECIFICATION Spec
CONSTANTS
    Processes = {p1}
    Threads = {t1}
    Events = {e1, e2}
    MaxRows = 3
    MaxFaults = 1
INVARIANTS
    ChainSurvivesCrash
