SPECIFICATION Spec
CONSTANTS
    Commands = {k1, k2, k3}
    NoCommand = NoCommand
    Durations = {3, 4}
    Ttls = {2, 3}
    Offsets = {0, 2}
    Never = Never
    Drifts <- SlowOrFast
    MaxDuration = 3
    MaxTtl = 2
    RelayMax = 2
    Watchdog = 2
    MaxSkew = 1
    Capacity = 2
    Wrap = 10
    UpFor = 7
    Rotation = 2
    MaxAge = 3
    MaxClock = 6
    MaxBoots = 1
    MaxHonoured = 4
SYMMETRY Interchangeable
INVARIANTS
    TypeOK
    PulseCeiling
    RingRemembers
    BeaconWindow
PROPERTIES
    PulseNotCut
    ReplayWindow
