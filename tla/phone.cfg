SPECIFICATION PhoneSpec
CONSTANTS
    Calls = {c1, c2}
    Families = {f1}
    Devices = {d1}
    NoFamily = NoFamily
    NoDevice = NoDevice
    MaxToken = 6
    Threads = {t1, t2}
    NoThread = NoThread
    NoCall = NoCall
SYMMETRY Interchangeable
INVARIANTS
    PhoneTypeOK
    NoFalseTheft
    HoldsWhatStands
PROPERTY
    SignedOutStays
