SPECIFICATION Spec
CONSTANTS
    Batches = {b1, b2}
    Releasers = {r1, r2}
    Sessions = {}
    None = None
SYMMETRY CallSymmetry
INVARIANTS
    HolderHasClaim
    FinalizersTakeTurns
    AdmissionOutlivesClaim
PROPERTIES
    LiveClaimKept
    TokenKeptForRecovery
