SPECIFICATION Spec
CONSTANTS
    Calls = {c1, c2, c3, c4}
    Families = {f1, f2}
    Devices = {d1}
    NoFamily = NoFamily
    NoDevice = NoDevice
    MaxToken = 6
SYMMETRY Interchangeable
INVARIANTS
    TypeOK
    OneRefreshStanding
PROPERTIES
    DeadStaysDead
