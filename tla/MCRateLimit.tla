----------------------------- MODULE MCRateLimit -----------------------------
(* Instances for TLC. *)
EXTENDS RateLimit, TLC

Interchangeable == Permutations(Handlers) \cup Permutations(Users)
=============================================================================
