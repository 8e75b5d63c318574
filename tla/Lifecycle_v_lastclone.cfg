CONSTANTS
    h1 = h1
    NoHandle = NoHandle
    NoLimit = NoLimit
    Handle = {h1}
    FirstHandle = h1
    ReplayHandle = NoHandle
    GracefulHandle = {}
    Reconnects = {TRUE}
    Limits = {1}
    MaxGeneration = 2
    MaxCalls = 0
SPECIFICATION Spec
PROPERTIES
    NoConnectionWithoutClones
