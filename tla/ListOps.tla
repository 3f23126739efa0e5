------------------------------- MODULE ListOps -------------------------------
(***************************************************************************)
(* The sum of a sequence of numbers, and a sequence without the elements   *)
(* of a set (SelectSeq, as a definition that can be expanded in a proof).  *)
(***************************************************************************)
EXTENDS Integers, Sequences, SequencesExt

Total(sizes) ==
    LET total[n \in 0..Len(sizes)] == IF n = 0 THEN 0 ELSE total[n - 1] + sizes[n]
    IN  total[Len(sizes)]

Without(S, s) ==
    FlattenSeq([i \in 1..Len(s) |-> IF s[i] \in S THEN <<>> ELSE <<s[i]>>])
=============================================================================
