------------------------------- MODULE MCClient -------------------------------
(* TLC instances of Client. *)
EXTENDS Client, TLC

Interchangeable == Permutations(Calls)
=============================================================================
