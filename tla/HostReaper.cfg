SPECIFICATION FairSpec
CONSTANTS
    Batches = {b1}
    Releasers = {r1}
    Sessions = {s1, s2}
    None = None
PROPERTY AbandonedIsReaped
