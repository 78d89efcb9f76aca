SPECIFICATION Spec
CONSTANTS
    Process = {p1, p2}
    Tick = {t1, t2}
    MaxTimers = 2
    MaxCrashes = 1
SYMMETRY Symmetry
INVARIANTS
    SingletonUnlessLapsed
PROPERTIES
    LiveLeaseKept
CHECK_DEADLOCK FALSE
