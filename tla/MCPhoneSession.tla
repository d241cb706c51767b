---------------------------- MODULE MCPhoneSession ----------------------------
(* Instances for TLC: two threads of one phone whose access token has expired. *)
EXTENDS PhoneSession, TLC

Interchangeable == Permutations(Calls) \cup Permutations(Threads)
=============================================================================
