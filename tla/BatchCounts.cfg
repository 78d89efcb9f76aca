CONSTANTS
    c1 = c1
    NumCells = 4
    Lanes = 2
    MaxRuns = 1
    Calls = {}
    MaxDeaths = 0
SPECIFICATION Spec
INVARIANT CompletedIsWhole
CHECK_DEADLOCK FALSE
