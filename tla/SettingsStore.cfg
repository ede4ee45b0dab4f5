SPECIFICATION Spec
CONSTANTS
    Keys = {k1, k2, k3}
    Dbs = {d1}
    Users = {u1, u2}
    None = None
    MaxEvents = 3
    Slots = {s1, s2}
SYMMETRY Symmetry
CHECK_DEADLOCK FALSE
INVARIANTS PointerHasRecord ValidatedHasVerdict
PROPERTIES KeepsPromise ComesBackAsActive DefaultKept
