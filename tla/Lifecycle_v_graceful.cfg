CONSTANTS
    h1 = h1
    h2 = h2
    NoHandle = NoHandle
    NoLimit = NoLimit
    Handle = {h1,h2}
    FirstHandle = h1
    ReplayHandle = NoHandle
    GracefulHandle = {h1}
    Reconnects = {TRUE}
    Limits = {1}
    MaxGeneration = 2
    MaxCalls = 0
SPECIFICATION Spec
PROPERTIES
    DisconnectedForAllClones
