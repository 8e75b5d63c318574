SPECIFICATION SessionSpec
CONSTANTS
    Ports = {8080}
    NoPort = NoPort
    Hubs = {hub}
    FirstHub = hub
    Durations = {1, 4}
    DefaultInitial = 1
    DefaultMax = 3
    MaxDuration = 5
    WordBits = 2
    Limits = {0, 2}
    NoLimit = NoLimit
    MaxSettings = 0
    MaxAttempt = 1
    MaxMessages = 2
    MaxInFrame = 2
    SeparatorAt = {2}
INVARIANTS
    SetupMessagesKept
