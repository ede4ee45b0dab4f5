SPECIFICATION Spec
CHECK_DEADLOCK FALSE
CONSTANTS
    Exe = exe
    Libs = {l1, l2}
    Plain = {p1}
INVARIANT RolledBack
