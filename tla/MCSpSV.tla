------------------------------- MODULE MCSpSV -------------------------------
(***************************************************************************)
(* Small instances of SpSV.  A pattern is the rows of the entries of a     *)
(* two-row matrix with their columns; its figures are computed by the      *)
(* loops of RowOffsets.                                                    *)
(***************************************************************************)
EXTENDS SpSV, TLC

CONSTANTS m1, m2, d1, d2, b1, b2, c1, c2, s1, s2

R == INSTANCE RowOffsets

MCRows == 2
Offs(p) == R!BuiltOffsets(p.rows, MCRows)
InOrder(p) == R!ScanRows(p.rows, MCRows) = R!SUCCESS

(* A lower triangle, another one, unsorted columns and unsorted rows.      *)
MCPatterns ==
  {[rows |-> <<0, 1, 1>>, columns |-> <<0, 0, 1>>],
   [rows |-> <<0, 0, 1>>, columns |-> <<0, 1, 1>>],
   [rows |-> <<0, 1, 1>>, columns |-> <<0, 1, 0>>],
   [rows |-> <<1, 0>>, columns |-> <<1, 0>>]}

MCNnz == [p \in MCPatterns |-> Len(p.rows)]
MCRowSorted == [p \in MCPatterns |-> InOrder(p)]
MCLongestRow ==
  [p \in MCPatterns |-> IF InOrder(p) THEN R!LongestRun(Offs(p), MCRows) ELSE 0]
MCColumnsSorted ==
  [p \in MCPatterns |->
     InOrder(p) /\ R!ColumnsSorted(Offs(p), p.columns, MCRows, MCRows) = R!SUCCESS]

MCSecond == (b1 :> c1) @@ (b2 :> c2)

(* A buffer for each matrix, whichever descriptor analyses it; or one      *)
(* buffer for each descriptor.                                             *)
MCPerMatrix ==
  [d \in SolveDescrs |-> [m \in Matrices |-> IF m = m1 THEN {b1} ELSE {b2}]]
MCPerDescr ==
  [d \in SolveDescrs |-> [m \in Matrices |-> IF d = d1 THEN {b1} ELSE {b2}]]
=============================================================================
