------------------------------ MODULE MCSDDMM ------------------------------
(***************************************************************************)
(* Small instances of SDDMM: three patterns, two of them with as many      *)
(* entries so that one can take the other's place under one descriptor,    *)
(* and an empty one.                                                       *)
(***************************************************************************)
EXTENDS SDDMM, TLC

CONSTANTS m1, m2, b1, b2, b3, s1, s2

MCPatterns == {<<>>, <<0, 1>>, <<1, 1>>}
MCNnz == [p \in MCPatterns |-> Len(p)]
MCLongestRow == [p \in MCPatterns |-> IF p = <<>> THEN 0 ELSE 1 + p[1]]
MCRowSorted == [p \in MCPatterns |-> TRUE]

(* Two buffers of its own for the first matrix, one for the other.         *)
MCScratch == (m1 :> {b1, b3}) @@ (m2 :> {b2})
=============================================================================
