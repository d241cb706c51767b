SPECIFICATION Spec
CONSTANTS
    Writers = {w1, w2}
    Bodies = {b1, b2}
    NoBody = NoBody
    NoWriter = NoWriter
    MaxSeq = 3
    MaxMonth = 3
SYMMETRY Interchangeable
INVARIANT NoFork
