SPECIFICATION Spec
CONSTANTS
    Calls = {c1, c2, c3}
    Families = {f1}
    Devices = {d1}
    NoFamily = NoFamily
    NoDevice = NoDevice
    MaxToken = 4
SYMMETRY Interchangeable
INVARIANT BurnedHasNoLiveToken
