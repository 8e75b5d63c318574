SPECIFICATION SessionSpec
CONSTANTS
    Ports = {8080}
    NoPort = NoPort
    Hubs = {hub}
    FirstHub = hub
    Durations = {1, 4}
    DefaultInitial = 1
    DefaultMax = 3
    MaxDuration = 5
    WordBits = 2
    Limits = {0, 2}
    NoLimit = NoLimit
    MaxSettings = 2
    MaxAttempt = 3
    MaxMessages = 0
    MaxInFrame = 0
    SeparatorAt = {}
PROPERTIES
    DoublesUntilMaximum
