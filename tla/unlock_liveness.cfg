SPECIFICATION FairSpec
CONSTANTS
    c1 = c1
    Controllers = {c1}
    Sessions = {s1, s2}
    Requests = {r1}
    NoSession = NoSession
    CodeOf <- MCCodeOf
    TargetOf <- MCTargetOf
PROPERTIES
    EveryRequestAnswered
    DeadLinkNoticed
