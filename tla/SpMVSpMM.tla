------------------------------ MODULE SpMVSpMM ------------------------------
(***************************************************************************)
(* The two products by a dense operand: SpMV (src/ops/spmv.cpp) over CSR,  *)
(* CSC, BSR and COO, and SpMM (src/ops/spmm.cpp) over CSR and COO.  Both   *)
(* have an optional preprocess call and both run a COO matrix over a       *)
(* row-offsets array built in the caller's externalBuffer.                 *)
(*                                                                         *)
(* Calls that return before changing anything (a validation that fails, an *)
(* empty output, a missing buffer, a readback that fails) are stuttering   *)
(* steps and have no action.  A definition whose comment begins "Slip" is  *)
(* a mistake the code could have made; nothing uses it.                    *)
(***************************************************************************)
EXTENDS SpMat

CONSTANTS
  BlockNnz,  \* BlockNnz[k]: entries one segment of kernel k covers
  Scratch    \* Scratch[m]: the buffers the caller hands over with matrix m

Segmented == {"csr_rowpar", "csc_trans", "csc_atomic", "bsr_atomic"}

ASSUME SpMVAssumption ==
  /\ BlockNnz \in [Segmented -> Nat \ {0}]
  /\ Scratch \in [Matrices -> SUBSET Addresses]

(* Slip: the division rounds down.                                         *)
SegmentsRoundedDown(k, max_row_nnz) ==
  LET n == max_row_nnz \div BlockNnz[k] IN IF n < 1 THEN 1 ELSE n

(* Slip: the rounding has the wrong sign and nothing bounds it below.      *)
SegmentsUnclamped(k, max_row_nnz) ==
  (max_row_nnz - BlockNnz[k]) \div BlockNnz[k]

(* std::max(1, ceil(max_row_nnz / block)): the segment loop's bound.       *)
Segments(k, max_row_nnz) ==
  LET n == (max_row_nnz + BlockNnz[k] - 1) \div BlockNnz[k]
  IN  IF n < 1 THEN 1 ELSE n

Launched(k, m, d, a) ==
  [kernel |-> k, mat |-> m, arrays |-> d.arrays, at |-> a,
   segments |-> IF k \in Segmented THEN Segments(k, d.max_row_nnz) ELSE 0]

----------------------------------------------------------------------------
(* Preprocess: always rebuilds for COO, reads back once for the others.    *)

PreprocessCoo(m, a) ==
  /\ desc[m].format = "COO"
  /\ \E r \in BuildCooRowOffsets(desc[m], mem, a) :
       /\ desc' = [desc EXCEPT ![m] = r.d]
       /\ mem' = r.mem
  /\ UNCHANGED <<queue, stream>>

PreprocessOffsets(m) ==
  /\ desc' = [desc EXCEPT ![m] = EnsureMaxRowNnz(desc[m])]
  /\ UNCHANGED <<mem, queue, stream>>

SpMVPreprocess(m, a) ==
  /\ desc[m] # NULL
  /\ \/ PreprocessCoo(m, a)
     \/ desc[m].format \in OffsetFormats /\ PreprocessOffsets(m)

SpMMPreprocess(m, a) ==
  /\ desc[m] # NULL
  /\ \/ PreprocessCoo(m, a)
     \/ desc[m].format = "CSR" /\ PreprocessOffsets(m)

----------------------------------------------------------------------------
(* Solves *)

(* Slip: offsets built in some buffer are taken to be in this one.         *)
BuiltSomewhere(d, a) == d.coo_offsets_buffer # NULL

(* The descriptor remembers this very buffer.                              *)
Remembers(d, a) == d.coo_offsets_buffer = a

(* The offsets are rebuilt unless they are remembered; then kernel k runs  *)
(* over them.                                                              *)
OverCooOffsets(m, a, k) ==
  /\ desc[m].format = "COO"
  /\ \E r \in IF Remembers(desc[m], a)
              THEN {[ok |-> TRUE, d |-> desc[m], mem |-> mem]}
              ELSE BuildCooRowOffsets(desc[m], mem, a) :
       /\ desc' = [desc EXCEPT ![m] = r.d]
       /\ mem' = r.mem
       /\ IF r.ok THEN LaunchInOrder(<<Launched(k, m, r.d, a)>>)
                  ELSE UNCHANGED queue
  /\ UNCHANGED stream

(* ALG2 runs the CSR kernel over the offsets, the other ids the segment    *)
(* kernel.                                                                 *)
SpMVCoo(m, a) ==
  /\ desc[m] # NULL
  /\ \E k \in {"coo_seg", "csr_rowpar"} : OverCooOffsets(m, a, k)

(* The routes over an offsets array the matrix already has.  The atomic    *)
(* ones scale y by beta in a launch of its own first; a BSR matrix with no *)
(* blocks stops there.                                                     *)
OffsetRoutes(m, d) ==
  LET scale  == Launched("scale", m, d, NULL)
      one(k) == <<Launched(k, m, d, NULL)>>
  IN  CASE d.format = "CSR" -> {one("csr_rowpar")}
        [] d.format = "CSC" -> {one("csc_trans"), <<scale>> \o one("csc_atomic")}
        [] d.format = "BSR" -> {IF Nnz[d.arrays] = 0 THEN <<scale>>
                                ELSE <<scale>> \o one("bsr_atomic")}

SpMVOffsets(m) ==
  /\ desc[m] # NULL
  /\ desc[m].format \in OffsetFormats
  /\ LET d == EnsureMaxRowNnz(desc[m])
     IN  /\ desc' = [desc EXCEPT ![m] = d]
         /\ \E ops \in OffsetRoutes(m, d) : LaunchInOrder(ops)
  /\ UNCHANGED <<mem, stream>>

SpMMCoo(m, a) ==
  /\ desc[m] # NULL
  /\ OverCooOffsets(m, a, "spmm_rowrun")

SpMMCsr(m) ==
  /\ desc[m] # NULL
  /\ desc[m].format = "CSR"
  /\ LET d == EnsureMaxRowNnz(desc[m])
     IN  /\ desc' = [desc EXCEPT ![m] = d]
         /\ LaunchInOrder(<<Launched("spmm_csr", m, d, NULL)>>)
  /\ UNCHANGED <<mem, stream>>

----------------------------------------------------------------------------
WithScratch(m, a) ==
  \/ SpMVPreprocess(m, a)
  \/ SpMMPreprocess(m, a)
  \/ SpMVCoo(m, a)
  \/ SpMMCoo(m, a)

OnMatrix(m) ==
  \/ \E f \in Formats, p \in Patterns : CreateMat(m, f, p)
  \/ DestroyMat(m)
  \/ \E p \in Patterns : CsrSetPointers(m, p)
  \/ SpMVOffsets(m)
  \/ SpMMCsr(m)
  \/ \E a \in Scratch[m] : WithScratch(m, a)

Next ==
  \/ \E m \in Matrices : OnMatrix(m)
  \/ \E s \in Streams : SetStream(s)
  \/ \E s \in Streams : RunKernel(s)

Init == SpMatInit

Spec == Init /\ [][Next]_matVars

----------------------------------------------------------------------------
TypeOK == SpMatTypeOK

(* The discipline under which the caches are sound: no two matrices share  *)
(* a buffer.                                                               *)
PrivateScratch ==
  \A m, n \in Matrices : m # n => Scratch[m] \cap Scratch[n] = {}

(* Whatever kernel a stream runs next finds, in the scratch it was given,  *)
(* the offsets of the very arrays it multiplies: neither a skipped rebuild *)
(* nor a later call's rebuild has put something else there                 *)
(* (src/ops/spmv.cpp run_coo, src/ops/spmm.cpp run_coo).                   *)
ReadsOwnOffsets ==
  \A s \in Streams : queue[s] # <<>> => Satisfied(Head(queue[s]), mem)

(* The segment loop, a compile-time constant, reaches the end of the       *)
(* longest row of the arrays the kernel was launched on, so that no entry  *)
(* is dropped (ensure_max_row_nnz, launch_csr_rowpar, run_csc, run_bsr).   *)
SegmentsCoverLongestRow ==
  \A op \in Pending : op.kernel \in Segmented =>
    op.segments * BlockNnz[op.kernel] >= LongestRow[op.arrays]

(* A COO matrix whose entries are not sorted by row never reaches a        *)
(* kernel, whichever call met it first (build_coo_row_offsets).            *)
UnsortedCooNeverLaunched ==
  \A op \in Pending : ReadsOffsets(op) => RowSorted[op.arrays]

(* "a caller that hands over a different buffer, or reuses one buffer      *)
(* across matrices, gets it rebuilt" (src/core/internal.hpp): at the       *)
(* moment a solve returns, the buffer holds its own matrix's offsets.      *)
RebuiltWhenReused ==
  [][\A s \in Streams : Len(queue'[s]) > Len(queue[s]) =>
       Satisfied(queue'[s][Len(queue'[s])], mem')]_matVars
=============================================================================
