CONSTANTS
    h1 = h1
    rh = rh
    NoHandle = NoHandle
    NoLimit = NoLimit
    Handle = {h1,rh}
    FirstHandle = h1
    ReplayHandle = rh
    GracefulHandle = {}
    Reconnects = {TRUE}
    Limits = {NoLimit}
    MaxGeneration = 3
    MaxCalls = 2
SPECIFICATION Spec
INVARIANTS
    TypeOK
    NoOrphan
    OneCurrentConnection
    LossReported
    IInv
PROPERTIES
    HealthyConnectionKept
    KeepsContract
CHECK_DEADLOCK FALSE
