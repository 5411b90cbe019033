----------------------------- MODULE RunningFolds -----------------------------
(***************************************************************************)
(* A loop over a sequence as the function from the number of elements that *)
(* it has seen to what it has made of them.  FoldLeft of the community     *)
(* modules has the last of these values only, and chooses among subsets;   *)
(* proofs by induction need all of them.                                   *)
(***************************************************************************)
EXTENDS Naturals, Sequences

Running(Op(_, _), base, seq) ==
  LET after[n \in 0..Len(seq)] ==
        IF n = 0 THEN base ELSE Op(after[n - 1], seq[n])
  IN after
=============================================================================
