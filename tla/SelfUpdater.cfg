SPECIFICATION FairSpec
CHECK_DEADLOCK FALSE
CONSTANTS
    Exe = exe
    Libs = {l1, l2}
    Plain = {p1}
INVARIANTS NeverLost UpdatedWhole RolledBackOnWindows
PROPERTY UpdateEnds
