SPECIFICATION Spec
CONSTANTS
    Tasks = {t1, t2}
    Workers = {w1, w2}
    Leases = {l1, l2}
    Calls = {c1, c2}
    MaxAttempts = 1
    Duration = 2
    MaxTime = 3
    None = None
SYMMETRY Symmetry
CONSTRAINT Undisturbed
INVARIANTS
    LeaseCoveredBySlot
    AttemptsWithinBudget
PROPERTIES
    OrphanLapses
CHECK_DEADLOCK FALSE
