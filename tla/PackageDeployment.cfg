SPECIFICATION FairSpec
CHECK_DEADLOCK FALSE
CONSTANTS
    Clients = {c1, c2}
    Dbs = {d1, d2}
    MaxRelease = 1
    MaxFaults = 1
    MaxEnds = 1
INVARIANTS Deployed NothingLeft
 
