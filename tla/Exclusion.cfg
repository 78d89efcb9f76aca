SPECIFICATION Spec
CONSTANTS
    Client = {c1, c2}
    Watchdog = {}
    Request = {r1, r2}
    Foreign = {r2}
    PrincipalOf <- MCPrincipalOf
    Host = {h1, h2}
    ResidencyKey = {k1, k2}
    Owner = {o1}
    NoOwner = NoOwner
    MaxId = 2
    MaxGeneration = 1
    MaxVersion = 0
    ReceiptLimit = 1
SYMMETRY Symmetry
INVARIANTS
    MaintenanceExclusion
    HostOwnership
    ResidencyAgreement
    OneAdmissionPerRequest
PROPERTIES
    QuarantineIsDurable
    ImplementsExclusion
