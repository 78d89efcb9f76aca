SPECIFICATION FairSpec
CONSTANTS
    Job = {j1, j2, j3}
    None = None
    File = {f1, f2}
INVARIANTS
    SlotIsRunningJob
    CompletedIsComplete
PROPERTIES
    SlotIsFreed
CHECK_DEADLOCK FALSE
