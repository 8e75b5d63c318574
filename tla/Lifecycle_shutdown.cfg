CONSTANTS
    h1 = h1
    h2 = h2
    NoHandle = NoHandle
    NoLimit = NoLimit
    Handle = {h1,h2}
    FirstHandle = h1
    ReplayHandle = NoHandle
    GracefulHandle = {h1}
    Reconnects = {TRUE, FALSE}
    Limits = {NoLimit}
    MaxGeneration = 2
    MaxCalls = 1
SPECIFICATION FairSpec
INVARIANTS
    IInv
PROPERTIES
    ShutdownStopsMonitor
    ShutdownAnnounced
    KeepsContract
    LostCallsResolve
    NothingLeaks
