SPECIFICATION FairSpec
CONSTANTS
    Client = {c1, c2}
    Watchdog = {watchdog}
    Request = {r1}
    Foreign = {}
    PrincipalOf <- MCPrincipalOf
    Host = {h1}
    ResidencyKey = {k1}
    Owner = {o1, o2}
    NoOwner = NoOwner
    MaxId = 1
    MaxGeneration = 2
    MaxVersion = 4
    ReceiptLimit = 2
INVARIANT ReceiptMeansGone
PROPERTIES
    RecoveryMovesForward
    RecoveryFenced
    LiveOwnerKept
    LapseIsNoticed
    RenewalSurvivesReaper
