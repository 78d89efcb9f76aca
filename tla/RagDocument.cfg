SPECIFICATION FairSpec
CONSTANTS
    i1 = i1
    i2 = i2
    long = long
    short = short
    Ingest = {i1, i2}
    Reindex = {job}
    Revision <- MCRevision
    Absent = Absent
    MaxChunks = 3
    ChunkCount <- MCChunkCount
    BatchSize = 1
    MaxFaults = 2
INVARIANTS
    OneWriter
    ReplacementIsWhole
    OriginalTextAgrees
PROPERTIES
    NeverEmptied
    EveryCallEnds
