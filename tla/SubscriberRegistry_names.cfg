SPECIFICATION Spec
CONSTANTS
    Clients = {c1, c2}
    Names = {n1, n2}
    MaxTroubles = 0
INVARIANT NamesAreUnique
CHECK_DEADLOCK FALSE
