CONSTANTS
    h1 = h1
    rh = rh
    NoHandle = NoHandle
    NoLimit = NoLimit
    Handle = {h1,rh}
    FirstHandle = h1
    ReplayHandle = rh
    GracefulHandle = {}
    Reconnects = {TRUE}
    Limits = {1}
    MaxGeneration = 3
    MaxCalls = 1
SPECIFICATION FairSpec
PROPERTIES
    LostCallsResolve
CHECK_DEADLOCK FALSE
