--------------------------- MODULE HostFunctions ---------------------------
(***************************************************************************)
(* The pure functions of the host code applied to any inputs, and what     *)
(* they are for: the loops over index arrays (RowOffsets), and the reach   *)
(* of the launches over dense operands (DenseLaunch).  A behaviour picks   *)
(* one input, evaluates the functions that take it, and stops.             *)
(***************************************************************************)
EXTENDS RowOffsets, DenseLaunch

CONSTANTS
  CooArrays,  \* index arrays of COO matrices, each with its row count m
  Operands,   \* operands of SpMM and SpSM: A of m rows and k columns, B and C
  Products,   \* sparse matrices of SpMV calls, transposed or not
  Sizes,      \* numbers of columns, longest rows and devices SpMM sizes for
  Vectors     \* sparse vectors, by their entries, and the device they are on

DnMat == [rows : Int, cols : Int, ld : Int, order : {"ROW", "COL"}]

(* Powers of two: what Triton takes, and the warps there are.              *)
Pow2 == {1, 2, 4, 8, 16, 32, 64, 128, 256, 512, 1024}

(* The adaptor reports a warp always, the other figures when it can.       *)
Device == [warp : Pow2, threads : Int, sm : Int]

ASSUME HostAssumption ==
  /\ \A a \in CooArrays :
       /\ a \in [m : Nat \ {0}, rows : Seq(Int), columns : Seq(Int)]
       /\ Len(a.rows) = Len(a.columns)
  /\ Operands \subseteq [m : Nat, k : Nat, B : DnMat, C : DnMat,
                        trans : BOOLEAN, unit : {1, 2}]
  /\ Products \subseteq [format : {"CSR", "COO", "CSC", "BSR"}, rows : Nat, cols : Nat,
                        block_dim : Nat \ {0}, nnz : Nat, trans : BOOLEAN]
  /\ Sizes \subseteq [n : Nat, longest : Nat, wide : BOOLEAN, dev : Device]
  /\ Vectors \subseteq [nnz : Nat, dev : Device]

VARIABLES
  kind,   \* which functions
  input,  \* what they are applied to
  output  \* << >>, then what they returned

vars == <<kind, input, output>>

Kinds == {"arrays", "dense", "beta", "size", "gather"}

InputsOf(k) ==
  CASE k = "arrays" -> CooArrays
    [] k = "dense"  -> Operands
    [] k = "beta"   -> Products
    [] k = "size"   -> Sizes
    [] k = "gather" -> Vectors

Init ==
  /\ kind \in Kinds
  /\ input \in InputsOf(kind)
  /\ output = <<>>

(* build_coo_row_offsets, then the check before a triangular solve.        *)
Built(a) ==
  IF ScanRows(a.rows, a.m) = INVALID THEN <<INVALID>>
  ELSE LET offsets == BuiltOffsets(a.rows, a.m)
       IN  <<SUCCESS, offsets, LongestRun(offsets, a.m),
             ColumnsSorted(offsets, a.columns, a.m, a.m)>>

(* The two dense operands are created, then validated with the sparse one. *)
Taken(o) ==
  /\ CreateDnMat(o.B) /\ CreateDnMat(o.C)
  /\ Validated(o.m, o.k, o.B, o.trans, o.C)

Build ==
  /\ kind = "arrays" /\ output = <<>>
  /\ output' = Built(input)
  /\ UNCHANGED <<kind, input>>

Validate ==
  /\ kind = "dense" /\ output = <<>>
  /\ output' = IF Taken(input) THEN <<SUCCESS>> ELSE <<INVALID>>
  /\ UNCHANGED <<kind, input>>

(* The others take every input; what they compute is in the properties.    *)
Plan ==
  /\ kind \in {"beta", "size", "gather"} /\ output = <<>>
  /\ output' = <<SUCCESS>>
  /\ UNCHANGED <<kind, input>>

Done == output # <<>> /\ UNCHANGED vars

Next == Build \/ Validate \/ Plan \/ Done

Spec == Init /\ [][Next]_vars

----------------------------------------------------------------------------
Returned(k) == kind = k /\ output # <<>>
Accepted == Returned("arrays") /\ output[1] = SUCCESS
Dense == Returned("dense") /\ output[1] = SUCCESS
EntriesOf(r) == {k \in 1..Len(input.rows) : input.rows[k] = r}

(* The array built for a COO matrix is its CSR row offsets: row r owns     *)
(* exactly the entries whose row index is r, in one run                    *)
(* (build_coo_row_offsets).                                                *)
OffsetsDelimitRows ==
  Accepted => \A r \in 0..input.m - 1 :
    {k \in 1..Len(input.rows) : k > output[2][r] /\ k <= output[2][r + 1]} = EntriesOf(r)

(* A matrix is accepted exactly when its rows are in range and ascending.  *)
AcceptsExactlySorted ==
  Returned("arrays") =>
    (Accepted <=>
       /\ \A k \in 1..Len(input.rows) : input.rows[k] \in 0..input.m - 1
       /\ \A j, k \in 1..Len(input.rows) : j < k => input.rows[j] <= input.rows[k])

(* The figure the segment loop is sized from is the largest row.           *)
LongestIsLargestRow ==
  Accepted => /\ \A r \in 0..input.m - 1 : Cardinality(EntriesOf(r)) <= output[3]
              /\ \E r \in 0..input.m - 1 : Cardinality(EntriesOf(r)) = output[3]

(* The check before a triangular solve passes only matrices on which a     *)
(* scan that stops at the diagonal has met every entry before it, whatever *)
(* the row (check_csr_columns_sorted, src/flagsparse_codegen/spsv.py).     *)
ScanStopsPastDependencies ==
  (Accepted /\ output[4] = SUCCESS) =>
    \A r \in 0..input.m - 1 : \A i, j \in EntriesOf(r) :
      (i < j /\ input.columns[i] >= r) => input.columns[j] > r

----------------------------------------------------------------------------
(* Where a dense matrix keeps element (i, j), and the components of the    *)
(* array from its first element to its last.                               *)
Stored(D, i, j) == IF D.order = "ROW" THEN i * D.ld + j ELSE j * D.ld + i
Extent(D) ==
  IF D.rows = 0 \/ D.cols = 0 THEN 0 ELSE Stored(D, D.rows - 1, D.cols - 1) + 1
Elements(D) == (0..D.rows - 1) \X (0..D.cols - 1)

(* Element (i, j) of op(B).                                                *)
OpStored(D, trans, i, j) == IF trans THEN Stored(D, j, i) ELSE Stored(D, i, j)

(* An SpMM reads op(B) where B keeps it, for every row that A has a column *)
(* for and every column of C, and never past the end of B: "opB =          *)
(* TRANSPOSE is the two B strides swapped. Nothing is materialised"        *)
(* (src/ops/spmm.cpp).                                                     *)
ReadsOpOfB ==
  Dense => \A k \in 0..input.k - 1, c \in 0..input.C.cols - 1, r \in 0..input.unit - 1 :
    LET at == At(OpStrides(input.B, input.trans), input.unit, k, c, r)
    IN  /\ at = OpStored(input.B, input.trans, k, c) * input.unit + r
        /\ at < Extent(input.B) * input.unit

(* A launch over C writes each of its elements once, in an array that ends *)
(* with its last one, and leaves what lies between rows or columns alone   *)
(* (src/ops/spmm.cpp, src/core/prologue.cpp).                              *)
WritesEachElementOnce ==
  Dense =>
    LET visits == Visits(input.m, input.C.cols, kBlockN) \X (0..input.unit - 1)
        Place(w) == At(StridesOf(input.C), input.unit, w[1][1], w[1][3], w[2])
    IN  /\ Cardinality(visits) = input.unit * Cardinality(Elements(input.C))
        /\ {Place(w) : w \in visits} =
             {Stored(input.C, e[1], e[2]) * input.unit + r :
                e \in Elements(input.C), r \in 0..input.unit - 1}
        /\ \A v, w \in visits : v # w => Place(v) # Place(w)

(* The copies around an SpSM solve put element (i, j) of op(B) into        *)
(* element (i, j) of C by way of a packed work array of one place each     *)
(* ("the scratch holds that work array and the solve copies in and out     *)
(* around it", src/ops/spsm.cpp), whatever the orders, the leading         *)
(* dimensions and op.                                                      *)
WorkCarriesTheOperand ==
  Dense /\ input.m = input.k =>
    LET in  == CopyIn(input.B, input.C, input.trans, input.unit)
        out == CopyOut(input.B, input.C, input.trans, input.unit)
        Through(w) == {x.from : x \in {y \in in : y.to = w}}
    IN  /\ {x.to : x \in in} = 0..input.m * input.C.cols * input.unit - 1
        /\ \A e \in Elements(input.C), r \in 0..input.unit - 1 :
             UNION {Through(x.from) : x \in {y \in out :
                      y.to = Stored(input.C, e[1], e[2]) * input.unit + r}}
               = {OpStored(input.B, input.trans, e[1], e[2]) * input.unit + r}

(* Every element of y is multiplied by beta once, by the kernel or by the  *)
(* launch before it, also where the matrix has no entries: "a matrix with  *)
(* only empty rows still has to run so that the beta term is applied to y" *)
(* (src/ops/spmv.cpp).                                                     *)
BetaAppliedOnce ==
  Returned("beta") /\ Takes(input, input.trans) =>
    \A y \in 0..YLen(input, input.trans) - 1 :
      Cardinality({v \in Prologue(input, input.trans) : v[3] = y})
        + (IF y \in InKernel(input, input.trans) THEN 1 ELSE 0) = 1

(* A launch of SpMM has no more threads than a block, or a multiprocessor, *)
(* takes ("the same two bounds _clip_spmm_base_num_warps applies"), the    *)
(* COO one no more warps than it has columns to work on ("leaving Triton's *)
(* default of 4 warps idles three quarters of the threads"), and block     *)
(* sizes and warps are powers of two, which Triton requires                *)
(* (src/ops/spmm.cpp).                                                     *)
FitsTheDevice ==
  Returned("size") =>
    LET csr  == ResolveLaunch(input.n, input.longest, input.wide, input.dev)
        coo  == ResolveCooLaunch(input.n, input.dev)
        warp == AtLeastOne(input.dev.warp)
    IN  /\ {csr.block_n, csr.block_nnz, csr.num_warps,
            coo.block_n, coo.block_nnz, coo.num_warps} \subseteq Pow2
        /\ csr.num_warps * warp <= 1024
        /\ csr.num_warps > 1 => csr.num_warps * warp <= input.dev.threads
        /\ coo.num_warps > 1 => coo.num_warps * warp <= coo.block_n

(* Gather and scatter each visit every entry of the sparse vector once:    *)
(* the one strides over what its capped grid does not hold, the other has  *)
(* "no grid-stride loop here, so the grid must cover every element"        *)
(* (src/ops/gather_scatter.cpp).                                           *)
EntriesVisitedOnce ==
  Returned("gather") =>
    \A i \in 0..input.nnz - 1 :
      /\ Cardinality({v \in GatherVisits(input.nnz, input.dev) : v[2] = i}) = 1
      /\ Cardinality({v \in ScatterVisits(input.nnz, input.dev) : v[2] = i}) = 1
=============================================================================
