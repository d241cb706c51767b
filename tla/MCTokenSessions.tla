--------------------------- MODULE MCTokenSessions ---------------------------
(* Instances for TLC: a login, its rotations, and the calls that overlap them. *)
EXTENDS TokenSessions, TLC

\* Calls and families are interchangeable.
Interchangeable == Permutations(Calls) \cup Permutations(Families)
=============================================================================
