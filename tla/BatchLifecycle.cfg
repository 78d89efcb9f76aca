CONSTANTS
    c1 = c1
    NumCells = 2
    Lanes = 1
    MaxRuns = 2
    Calls = {c1}
    MaxDeaths = 1
SPECIFICATION FairSpec
INVARIANT CompletedIsWhole
PROPERTIES
    TerminalIsFinal
    BatchEnds
CHECK_DEADLOCK FALSE
