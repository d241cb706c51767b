SPECIFICATION Spec
CONSTANTS
    c1 = c1
    Controllers = {c1}
    Sessions = {s1, s2}
    Requests = {r1, r2}
    NoSession = NoSession
    CodeOf <- MCCodeOf
    TargetOf <- MCTargetOf
SYMMETRY Interchangeable
INVARIANTS
    TypeOK
    NoOrphanFuture
    RegisteredIsLive
    EntitledOpens
    RefusalIsFinal
PROPERTIES
    ContractHonoured
    OfflineByOwnEnd
