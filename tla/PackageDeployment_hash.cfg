SPECIFICATION Spec
CHECK_DEADLOCK FALSE
CONSTANTS
    Clients = {c1}
    Dbs = {d1, d2}
    MaxRelease = 2
    MaxFaults = 0
    MaxEnds = 2
INVARIANT UpdatesArrive
