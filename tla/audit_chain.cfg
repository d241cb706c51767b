SPECIFICATION FairSpec
CONSTANTS
    Writers = {w1, w2}
    Bodies = {b1, b2}
    NoBody = NoBody
    NoWriter = NoWriter
    MaxSeq = 3
    MaxMonth = 3
INVARIANTS
    TypeOK
    HeadStillHead
    OrderedChainVerifies
    RemovalEvident
    EditNamed
PROPERTIES
    InsertsEnd
