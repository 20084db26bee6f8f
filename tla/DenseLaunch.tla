---------------------------- MODULE DenseLaunch ----------------------------
(***************************************************************************)
(* Which elements of the dense operands the operators' launches reach, as  *)
(* functions of the operands' shapes: the strides of a dense matrix and of *)
(* its transpose, the launches of SpMM (src/ops/spmm.cpp), the copies      *)
(* around an SpSM solve (src/ops/spsm.cpp), the ways an SpMV applies beta  *)
(* (src/ops/spmv.cpp), gather and scatter (src/ops/gather_scatter.cpp),    *)
(* and how the size of a launch is fitted to the device.                   *)
(*                                                                         *)
(* A launch is the set of the visits its programs pay: <<i, p, c>> is the  *)
(* visit of program (i, p) of the grid to column c of row i.  An address   *)
(* counts components from the start of an array.  What a kernel does with  *)
(* its program ids comes from the contract the repository states for it.   *)
(* A definition whose comment begins "Slip" is a mistake the code could    *)
(* have made; nothing uses it.                                             *)
(***************************************************************************)
EXTENDS Integers, FiniteSets

CONSTANTS
  kBlockN,    \* columns a program of the scale and copy kernels visits
  kBlockSize  \* entries a program of gather and scatter visits in a turn

ASSUME DenseLaunchAssumption ==
  /\ kBlockN \in Nat \ {0}
  /\ kBlockSize \in Nat \ {0}

LargestOf(S) == CHOOSE x \in S : \A y \in S : y <= x
LeastOf(S) == CHOOSE x \in S : \A y \in S : x <= y

CeilDiv(n, block) == (n + block - 1) \div block

(* Slip: the last block is left out unless it is full.                     *)
OnlyFullBlocks(x, n, block) == (0 .. x - 1) \X (0 .. (n \div block) - 1)

(* The grid: x programs by as many blocks as hold n columns.  An empty one *)
(* is a launch that does nothing.                                          *)
Programs(x, n, block) == (0 .. x - 1) \X (0 .. CeilDiv(n, block) - 1)

Slice(p, n, block) == {c \in 0 .. n - 1 : c \div block = p}

Visits(x, n, block) ==
  UNION {{<<g[1], g[2], c>> : c \in Slice(g[2], n, block)} :
           g \in Programs(x, n, block)}

----------------------------------------------------------------------------
(* Dense matrices: D is [rows, cols, ld, order]                            *)

(* Slip: the leading dimension has to span a row, whatever the order.      *)
SpansRows(D) == D.ld >= D.cols

(* flagsparseCreateDnMat.                                                  *)
CreateDnMat(D) ==
  D.rows >= 0 /\ D.cols >= 0 /\ D.ld >= (IF D.order = "COL" THEN D.rows ELSE D.cols)

StridesOf(D) ==
  IF D.order = "ROW" THEN [row |-> D.ld, col |-> 1] ELSE [row |-> 1, col |-> D.ld]

(* Slip: the transpose is read with the strides of the matrix.             *)
SameStrides(D, trans) == StridesOf(D)

(* op(B) = B^T is B with its strides swapped.                              *)
OpStrides(D, trans) ==
  IF trans THEN [row |-> StridesOf(D).col, col |-> StridesOf(D).row]
  ELSE StridesOf(D)

OpRows(D, trans) == IF trans THEN D.cols ELSE D.rows
OpCols(D, trans) == IF trans THEN D.rows ELSE D.cols

(* Slip: B is compared with the rows of A.                                 *)
ComparesRows(m, k, B, trans, C) ==
  C.rows = m /\ OpRows(B, trans) = m /\ OpCols(B, trans) = C.cols

(* validate, on A of m rows and k columns; an A that SpSM takes is square. *)
Validated(m, k, B, trans, C) ==
  C.rows = m /\ OpRows(B, trans) = k /\ OpCols(B, trans) = C.cols

(* Slip: a complex column is one component wide.                           *)
AtHalfWidth(s, unit, i, c, r) == i * s.row * unit + c * s.col + r

(* Strides double for interleaved real and imaginary parts, r apart by 1.  *)
At(s, unit, i, c, r) == (i * s.row + c * s.col) * unit + r

Packed(n_rhs) == [row |-> n_rhs, col |-> 1]

(* copy_dense: what it writes where, from where.                           *)
CopyDense(src, dst, unit, n_rows, n_cols) ==
  {[to |-> At(dst, unit, v[1], v[3], r), from |-> At(src, unit, v[1], v[3], r)] :
     v \in Visits(n_rows, n_cols, kBlockN), r \in 0 .. unit - 1}

(* Slip: C is given the strides B is read with.                            *)
CopyOutLikeIn(B, C, trans, unit) ==
  CopyDense(Packed(C.cols), OpStrides(C, trans), unit, C.rows, C.cols)

CopyIn(B, C, trans, unit) ==
  CopyDense(OpStrides(B, trans), Packed(C.cols), unit, C.rows, C.cols)
CopyOut(B, C, trans, unit) ==
  CopyDense(Packed(C.cols), StridesOf(C), unit, C.rows, C.cols)

----------------------------------------------------------------------------
(* How SpMV applies beta: A is [format, rows, cols, block_dim, nnz]        *)

BlockDim(A) == IF A.format = "BSR" THEN A.block_dim ELSE 1

(* operand_extents.                                                        *)
YLen(A, trans) == BlockDim(A) * (IF trans THEN A.cols ELSE A.rows)

Takes(A, trans) == A.format \in {"CSC", "BSR"} \/ ~trans

(* Slip: the transposed direction of CSC is scaled first as well.          *)
PrologueOfCsc(A, trans) ==
  IF A.format \in {"CSC", "BSR"} THEN Visits(1, YLen(A, trans), kBlockN) ELSE {}

(* Routes that accumulate scale y in a launch of their own.                *)
Prologue(A, trans) ==
  IF A.format = "BSR" \/ (A.format = "CSC" /\ ~trans)
  THEN Visits(1, YLen(A, trans), kBlockN) ELSE {}

(* Slip: a matrix without entries is not launched.                         *)
InKernelIfEntries(A, trans) ==
  IF A.nnz = 0 THEN {}
  ELSE IF A.format \in {"CSR", "COO"} THEN 0 .. A.rows - 1
  ELSE IF A.format = "CSC" /\ trans THEN 0 .. A.cols - 1 ELSE {}

(* The others run one program for each element of y, which scales it.      *)
InKernel(A, trans) ==
  IF A.format \in {"CSR", "COO"} THEN 0 .. A.rows - 1
  ELSE IF A.format = "CSC" /\ trans THEN 0 .. A.cols - 1 ELSE {}

----------------------------------------------------------------------------
(* The size of a launch: dev is [warp, threads, sm] as the adaptor reports *)
(* them, threads and sm 0 when it cannot.                                  *)

AtLeastOne(n) == IF n < 1 THEN 1 ELSE n

(* select_warp_and_factor, on n dense columns.                             *)
WarpSize(n) == LeastOf({w \in {4, 8, 16} : n <= w} \cup {32})
Factor(n) == IF n > 64 THEN 4 ELSE IF n > 32 THEN 2 ELSE 1

(* Slip: the threads a multiprocessor holds are not asked for.             *)
ClippedByBlock(desired, dev) ==
  LargestOf({1} \cup {w \in {1, 2, 4, 8, 16} :
                        /\ w <= AtLeastOne(1024 \div AtLeastOne(dev.warp))
                        /\ w <= AtLeastOne(desired)})

ClipNumWarps(desired, dev) ==
  LET warp == AtLeastOne(dev.warp)
      cap  == LeastOf({16, AtLeastOne(1024 \div warp), AtLeastOne(dev.threads \div warp)})
  IN  LargestOf({1} \cup {w \in {1, 2, 4, 8, 16} : w <= cap /\ w <= AtLeastOne(desired)})

(* The warps resolve_launch asks for.                                      *)
DesiredWarps(n, max_row_nnz, wide) ==
  LET byColumns == IF n <= 16 THEN 1 ELSE IF n <= 32 THEN 2 ELSE 4
      byRow     == IF (n > 64 /\ max_row_nnz >= 512) \/ (n > 32 /\ max_row_nnz >= 1024)
                   THEN 8 ELSE 1
  IN  LeastOf({LargestOf({byColumns, byRow}), IF wide THEN 8 ELSE 16})

ResolveLaunch(n, max_row_nnz, wide, dev) ==
  [block_n |-> WarpSize(n) * Factor(n), block_nnz |-> WarpSize(n),
   num_warps |-> ClipNumWarps(DesiredWarps(n, max_row_nnz, wide), dev)]

(* Slip: a warp for each 32 columns, whatever the device's warp.           *)
CooLaunchOf32(n, dev) ==
  [block_n |-> WarpSize(n) * Factor(n), block_nnz |-> 4,
   num_warps |-> (WarpSize(n) * Factor(n)) \div 32]

ResolveCooLaunch(n, dev) ==
  LET block_n == WarpSize(n) * Factor(n)
  IN  [block_n |-> block_n, block_nnz |-> 4,
       num_warps |-> AtLeastOne(block_n \div AtLeastOne(dev.warp))]

kNumWarps == 8

GatherMaxPrograms(dev) ==
  LET block_threads == AtLeastOne(kNumWarps * (IF dev.warp > 0 THEN dev.warp ELSE 32))
  IN  IF dev.sm <= 0 THEN 1024
      ELSE AtLeastOne(dev.sm * AtLeastOne(dev.threads \div block_threads))

Tiles(nnz) == CeilDiv(nnz, kBlockSize)
GatherGrid(nnz, dev) == LeastOf({Tiles(nnz), GatherMaxPrograms(dev)})

(* Slip: scatter is capped as gather is.                                   *)
ScatterGridCapped(nnz, dev) == GatherGrid(nnz, dev)

ScatterGrid(nnz, dev) == Tiles(nnz)

(* Gather's programs stride over the tiles by the size of the grid;        *)
(* scatter's visit one tile each.                                          *)
GatherVisits(nnz, dev) ==
  {v \in (0 .. GatherGrid(nnz, dev) - 1) \X (0 .. nnz - 1) :
     (v[2] \div kBlockSize) % GatherGrid(nnz, dev) = v[1]}
ScatterVisits(nnz, dev) ==
  {v \in (0 .. ScatterGrid(nnz, dev) - 1) \X (0 .. nnz - 1) :
     v[2] \div kBlockSize = v[1]}
=============================================================================
