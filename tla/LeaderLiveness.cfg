SPECIFICATION FairSpec
CONSTANTS
    Process = {p1, p2}
    Tick = {t1}
    MaxTimers = 2
    MaxCrashes = 1
PROPERTIES
    DeposedLeaderStops
    StandbyTakesOver
CHECK_DEADLOCK FALSE
