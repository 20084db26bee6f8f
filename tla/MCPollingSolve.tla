--------------------------- MODULE MCPollingSolve ---------------------------
(***************************************************************************)
(* The systems of three rows with a diagonal, every row's columns          *)
(* ascending or every row's descending, either triangle, for PollingSolve; *)
(* and sliced-ELL ones, which it must not take.                            *)
(***************************************************************************)
EXTENDS PollingSolve, SequencesExt

Row(S) == SetToSortSeq(S, <)
RowSets == {f \in [Rows -> SUBSET Rows] : \A r \in Rows : r \in f[r]}

MCEvery ==
  {[columns |-> [r \in Rows |-> IF up THEN Row(f[r]) ELSE Reverse(Row(f[r]))],
    lower |-> lower, sell |-> sell, width |-> 1] :
     f \in RowSets, up \in BOOLEAN, lower \in BOOLEAN, sell \in BOOLEAN}
=============================================================================
