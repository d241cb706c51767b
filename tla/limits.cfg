SPECIFICATION Spec
CONSTANTS
    Handlers = {h1, h2}
    Users = {u1, u2}
    Peers = {i1}
    NoPeer = NoPeer
    NoUser = NoUser
    LoginLimit = 2
    LoginWindow = 2
    UnlockLimit = 3
    UnlockWindow = 1
    MaxRow = 4
    MaxClock = 2
SYMMETRY Interchangeable
INVARIANTS
    TypeOK
    OvershootBounded
    UnlocksBounded
