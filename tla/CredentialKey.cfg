SPECIFICATION KeyFairSpec
CONSTANTS
    Procs = {p1, p2}
    Records = {r1, r2}
    MaxKeys = 3
    MaxLost = 2
    Absent = Absent
    Plain = Plain
INVARIANTS KeyOnDisk Readable
PROPERTIES StartEnds
