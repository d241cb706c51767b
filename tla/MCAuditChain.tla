---------------------------- MODULE MCAuditChain ----------------------------
(* Instances of the audit chain for TLC: two database connections, so that   *)
(* their inserts interleave; two bodies, so that a row can be edited; three  *)
(* values of the sequence, so that a row can follow an inverted pair; three  *)
(* months, so that a partition can be detached and another one be missing.   *)
EXTENDS AuditChain, TLC

\* Connections and bodies are interchangeable (safety runs only).
Interchangeable == Permutations(Writers) \cup Permutations(Bodies)
=============================================================================
