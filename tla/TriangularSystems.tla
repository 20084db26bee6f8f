------------------------- MODULE TriangularSystems -------------------------
(***************************************************************************)
(* The triangular matrices flagsparseSpSV (src/ops/spsv.cpp) is given, the *)
(* ones its analysis accepts, and what its kernels take from a row.  A     *)
(* system is its column indices row by row, which triangle is solved, and  *)
(* the route: a sliced-ELL matrix (sell) is handed out width rows at a     *)
(* time under SELL_ALG2, everything else one row at a time.  A definition  *)
(* whose comment begins "Slip" is a mistake the code could have made;      *)
(* nothing uses it.                                                        *)
(***************************************************************************)
EXTENDS Integers, Sequences

CONSTANTS
  N,          \* rows of the matrix
  Candidates  \* the systems callers hand over, acceptable or not

Rows == 0 .. N - 1

System == [columns : [Rows -> Seq(Rows)], lower : BOOLEAN, sell : BOOLEAN,
           width : Nat \ {0}]

ASSUME SystemsAssumption ==
  /\ N \in Nat \ {0}
  /\ Candidates \subseteq System
  /\ \A A \in Candidates : ~A.sell => A.width = 1

Columns(A, r) == {A.columns[r][i] : i \in 1..Len(A.columns[r])}

(* Rows that must be known before row r: the strict triangle, whatever is  *)
(* stored on the other side of the diagonal.                               *)
Triangle(A, r) ==
  {c \in Columns(A, r) : IF A.lower THEN c < r ELSE c > r}

(* check_csr_columns_sorted: strictly ascending inside a row.              *)
ColumnsSorted(A) ==
  \A r \in Rows : \A i, j \in 1..Len(A.columns[r]) :
    i < j => A.columns[r][i] < A.columns[r][j]

(* Slip: the analysis forgets to look at the columns.                      *)
AcceptsUnchecked(A) == A.sell => A.lower

(* What validate and the analysis let through to a solve: sliced-ELL only  *)
(* for a lower triangle, everything else only with sorted columns.         *)
Accepts(A) == IF A.sell THEN A.lower ELSE ColumnsSorted(A)
Accepted == {A \in Candidates : Accepts(A)}

(* Slip: rows are handed out from the first, whichever triangle it is.     *)
ForwardIndex(A, r) == r

(* REVERSE_ORDER: an upper triangle is solved from the last row back.      *)
LogicalIndex(A, r) == IF A.lower THEN r ELSE N - 1 - r

(* Slip: every row is walked from the front.                               *)
ConsumedForward(A, r) ==
  LET cols == A.columns[r]
      off(c) == IF A.lower THEN c < r ELSE c > r
  IN  {cols[i] : i \in {k \in 1..Len(cols) : \A j \in 1..k : off(cols[j])}}

(* The entries a kernel uses.  The sliced-ELL kernels compare every column *)
(* with the row; the others walk the row up to the diagonal, from the      *)
(* front for a lower triangle and from the back (SCAN_BACKWARD) otherwise. *)
Consumed(A, r) ==
  LET cols == A.columns[r]
      last == Len(cols)
  IN  IF A.sell THEN {c \in Columns(A, r) : c < r}
      ELSE IF A.lower
      THEN {cols[i] : i \in {k \in 1..last : \A j \in 1..k : cols[j] < r}}
      ELSE {cols[i] : i \in {k \in 1..last : \A j \in k..last : cols[j] > r}}

(* Slip: the rows of a part of a slice are not counted.                    *)
WholeUnits(A) == N \div A.width

(* The units of work the counter hands out, and the unit of a row.         *)
Units(A) == (N + A.width - 1) \div A.width
UnitOf(A, r) == LogicalIndex(A, r) \div A.width
=============================================================================
