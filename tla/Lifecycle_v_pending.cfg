CONSTANTS
    h1 = h1
    h2 = h2
    NoHandle = NoHandle
    NoLimit = NoLimit
    Handle = {h1,h2}
    FirstHandle = h1
    ReplayHandle = NoHandle
    GracefulHandle = {h1}
    Reconnects = {FALSE}
    Limits = {1}
    MaxGeneration = 2
    MaxCalls = 1
SPECIFICATION FairSpec
PROPERTIES
    PendingCallsCompleted
