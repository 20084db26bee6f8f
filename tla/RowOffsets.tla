----------------------------- MODULE RowOffsets -----------------------------
(***************************************************************************)
(* The host-side loops of src/core/csr_meta.cpp over index arrays read     *)
(* back from the device, as functions of the arrays.  Arrays are sequences *)
(* and hold the indices of the C++ arrays, which start at zero: element i  *)
(* of the C++ array is element i + 1 here.                                 *)
(***************************************************************************)
EXTENDS Integers, Sequences, FiniteSets

INVALID == "INVALID_VALUE"
SUCCESS == "SUCCESS"

Larger(x, y) == IF x > y THEN x ELSE y

(* A definition whose comment begins "Slip" is a mistake the code could    *)
(* have made; nothing uses it.                                             *)

(* Slip: the scan checks the range and forgets the order.                  *)
ScanRowsUnordered(rows, m) ==
  IF \E k \in 1..Len(rows) : rows[k] < 0 \/ rows[k] >= m THEN INVALID ELSE SUCCESS

(* The scan of the row indices: a row out of 0..m-1, or smaller than the   *)
(* one before it, refuses the matrix.  previous starts at 0.               *)
ScanRows(rows, m) ==
  LET previous(k) == IF k = 1 THEN 0 ELSE rows[k - 1]
      bad(k) == rows[k] < 0 \/ rows[k] >= m \/ rows[k] < previous(k)
  IN  IF \E k \in 1..Len(rows) : bad(k) THEN INVALID ELSE SUCCESS

(* Slip: row r is counted at offsets[r].                                   *)
CountsUnshifted(rows, m) ==
  [i \in 0..m |-> Cardinality({k \in 1..Len(rows) : rows[k] = i})]

(* offsets[r + 1] counts the entries of row r, then sums up from row 0.    *)
Counts(rows, m) ==
  LET count[k \in 0..Len(rows)] ==
        IF k = 0 THEN [i \in 0..m |-> 0]
        ELSE [count[k - 1] EXCEPT ![rows[k] + 1] = @ + 1]
  IN  count[Len(rows)]

PrefixSums(counts, m) ==
  LET sum[r \in 0..m] == IF r = 0 THEN counts[0] ELSE counts[r] + sum[r - 1]
  IN  sum

BuiltOffsets(rows, m) == PrefixSums(Counts(rows, m), m)

(* Slip: the loop keeps the last run, not the longest.                     *)
LastRun(offsets, n) == IF n = 0 THEN 0 ELSE offsets[n] - offsets[n - 1]

(* The loop of ensure_max_row_nnz and of build_coo_row_offsets.            *)
LongestRun(offsets, n) ==
  LET longest[r \in 0..n] ==
        IF r = 0 THEN 0
        ELSE Larger(longest[r - 1], offsets[r] - offsets[r - 1])
  IN  longest[n]

(* Slip: equal neighbours pass.                                            *)
ColumnsNotDescending(offsets, columns, n, cols) ==
  IF \A r \in 0 .. n - 1 : \A p \in offsets[r] + 1 .. offsets[r + 1] - 1 :
       columns[p + 1] >= columns[p]
  THEN SUCCESS ELSE INVALID

(* check_csr_columns_sorted on n rows: offsets in range and ascending,     *)
(* columns in range and strictly ascending inside a row.                   *)
ColumnsSorted(offsets, columns, n, cols) ==
  LET begin(r) == offsets[r]
      end(r)   == offsets[r + 1]
      rowOk(r) ==
        /\ begin(r) >= 0 /\ end(r) <= Len(columns) /\ end(r) >= begin(r)
        /\ \A p \in begin(r) .. end(r) - 1 :
             /\ columns[p + 1] \in 0 .. cols - 1
             /\ p > begin(r) => columns[p + 1] > columns[p]
  IN  IF n <= 0 \/ Len(columns) = 0 \/ \A r \in 0 .. n - 1 : rowOk(r)
      THEN SUCCESS ELSE INVALID
=============================================================================
