------------------------------- MODULE MCSpSM -------------------------------
(***************************************************************************)
(* Small instances of SpSM.  The widths differ enough for the sections of  *)
(* a buffer, which begin at multiples of 256 bytes, to lie elsewhere.      *)
(***************************************************************************)
EXTENDS SpSM, TLC

CONSTANTS m1, m2, d1, s1, s2, sorted, unsorted, empty

Symmetry == Permutations(Matrices) \cup Permutations(Streams)

MCRowCount == [p \in Patterns |-> IF p = empty THEN 0 ELSE 3]
MCRowSorted == [p \in Patterns |-> p # unsorted]
=============================================================================
