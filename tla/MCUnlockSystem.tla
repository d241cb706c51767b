--------------------------- MODULE MCUnlockSystem ---------------------------
(* Instances for TLC: one controller, whose connections supersede each other, *)
(* and requests for its door that wait on one connection or on several.       *)
EXTENDS UnlockSystem, TLC

CONSTANT c1

MCCodeOf == [s \in Sessions |-> c1]
MCTargetOf == [r \in Requests |-> c1]

\* Connections and requests are interchangeable (safety runs only).
Interchangeable == Permutations(Sessions) \cup Permutations(Requests)
=============================================================================
