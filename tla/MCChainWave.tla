---------------------------- MODULE MCChainWave ----------------------------
(***************************************************************************)
(* All the systems of three rows with a diagonal (sorted or not, either    *)
(* triangle, CSR and sliced-ELL), for ChainWave.                           *)
(***************************************************************************)
EXTENDS ChainWave, SequencesExt

(* Every row order of the columns chosen: ascending ones are what the      *)
(* analysis accepts, the others what it must keep from the kernel.         *)
RowOrders(r) == UNION {SetToSeqs(S \cup {r}) : S \in SUBSET (Rows \ {r})}

Layouts == {f \in [Rows -> UNION {RowOrders(r) : r \in Rows}] :
              \A r \in Rows : f[r] \in RowOrders(r)}

Ascending(f) == \A r \in Rows : \A i \in 1..Len(f[r]) - 1 : f[r][i] < f[r][i + 1]

MCEverySystem ==
  [columns : Layouts, lower : BOOLEAN, sell : {FALSE}, width : {1}]

MCEverySlicing ==
  [columns : {f \in Layouts : Ascending(f)}, lower : BOOLEAN, sell : {TRUE},
   width : {1, 2}]

MCEvery == MCEverySystem \cup MCEverySlicing
=============================================================================
