SPECIFICATION Spec
CONSTANTS
    Commands = {k1}
    NoCommand = NoCommand
    Durations = {1}
    Ttls = {2, 3}
    Offsets = {0, 3}
    Never = Never
    Drifts = {0}
    MaxDuration = 3
    MaxTtl = 2
    RelayMax = 2
    Watchdog = 2
    MaxSkew = 1
    Capacity = 1
    Wrap = 10
    UpFor = 7
    Rotation = 2
    MaxAge = 3
    MaxClock = 9
    MaxBoots = 0
    MaxHonoured = 1
PROPERTIES
    NoneForLater
