CONSTANTS
    h1 = h1
    NoHandle = NoHandle
    NoLimit = NoLimit
    Handle = {h1}
    FirstHandle = h1
    ReplayHandle = NoHandle
    GracefulHandle = {h1}
    Reconnects = {TRUE, FALSE}
    Limits = {1}
    MaxGeneration = 3
    MaxCalls = 1
SPECIFICATION FairSpec
PROPERTIES
    LostCallsResolve
    ReconnectingEnds
    NothingLeaks
