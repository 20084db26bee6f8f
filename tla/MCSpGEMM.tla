------------------------------ MODULE MCSpGEMM ------------------------------
(***************************************************************************)
(* Small instances of SpGEMM: a product of short rows, one of a long row,  *)
(* one without entries and one whose A has no rows.                        *)
(***************************************************************************)
EXTENDS SpGEMM, TLC

CONSTANTS short, long, none, rowless, d1, d2, b1, b2

(* The figures of each product.                                            *)
Figures ==
  (short :> [work |-> 1, total |-> 2, longest |-> 1]) @@
  (long :> [work |-> 2, total |-> 3, longest |-> 2]) @@
  (none :> [work |-> 0, total |-> 0, longest |-> 0]) @@
  (rowless :> [work |-> 0, total |-> 0, longest |-> 0])

MCWork == [p \in Products |-> Figures[p].work]
MCTotal == [p \in Products |-> Figures[p].total]
MCLongest == [p \in Products |-> Figures[p].longest]

MCBuffers == [d \in Descrs |-> IF d = d1 THEN {b1} ELSE {b2}]
=============================================================================
