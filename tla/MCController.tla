----------------------------- MODULE MCController -----------------------------
(* Instances for TLC: a board whose millis() wraps during the run. *)
EXTENDS Controller, TLC

\* The board's clock is behind, or ahead.
SlowOrFast == {-1, 1}

Interchangeable == Permutations(Commands)
=============================================================================
