-------------------------------- MODULE SpSM --------------------------------
(***************************************************************************)
(* The triangular solve with several right-hand sides                      *)
(* (src/ops/spsm.cpp): its descriptor, its calls and the buffer analysis   *)
(* and solves share.  The buffer holds, one after the other, the work      *)
(* array, the done flags, the diagonal and, for a COO matrix, the row      *)
(* offsets; where each begins depends on the number of rows and on the     *)
(* number of right-hand sides.  A buffer is the set of the regions written *)
(* to it that nothing has been written over since.                         *)
(*                                                                         *)
(* A solve launches the copy of its right-hand sides, then clears the done *)
(* flags on the device's default stream, and so waits for the streams      *)
(* before it launches the polling kernel and the copy back.  What one      *)
(* launch of that kernel computes is the subject of PollingSolve.          *)
(*                                                                         *)
(* The callers keep the contract of cuSPARSE: they size a buffer by        *)
(* bufferSize, each SpSM descriptor has a buffer of its own, they solve    *)
(* what their last analysis with the descriptor succeeded for and has not  *)
(* changed since, and they wait for a stream before they leave it.  All    *)
(* streams are blocking.  What the analysis of a COO matrix records in the *)
(* matrix (max_row_nnz, coo_offsets_buffer) is SpMat's subject: no step    *)
(* here reads it.  Calls that fail before changing anything are            *)
(* stuttering steps.  A definition whose comment begins "Slip" is a        *)
(* mistake the code could have made; nothing uses it.                      *)
(***************************************************************************)
EXTENDS Integers, Sequences

CONSTANTS
  Matrices,     \* addresses of sparse-matrix descriptors
  SolveDescrs,  \* addresses of SpSM descriptors
  Streams,      \* device streams
  Patterns,     \* contents a matrix's index arrays may have
  RowCount,     \* RowCount[p]: number of rows
  RowSorted,    \* RowSorted[p]: entries sorted by row
  Widths,       \* numbers of right-hand sides callers ask for
  Elem,         \* bytes of an element
  Widening,     \* callers may solve with any width, whatever they analysed
  MaxPending,   \* bound: launches a stream may have outstanding
  NULL

Formats == {"CSR", "COO"}

ASSUME SpSMAssumption ==
  /\ RowCount \in [Patterns -> Nat]
  /\ RowSorted \in [Patterns -> BOOLEAN]
  /\ Widths \subseteq Nat \ {0}
  /\ Elem \in Nat \ {0}
  /\ Widening \in BOOLEAN
  /\ MaxPending \in Nat
  /\ NULL \notin Matrices \cup SolveDescrs \cup Patterns

VARIABLES
  mat,     \* mat[m]: the matrix descriptor at address m, or NULL
  sp,      \* sp[d]: the SpSM descriptor at address d, or NULL
  room,    \* room[d]: bytes of the buffer the caller keeps for d
  mem,     \* mem[d]: the intact regions of that buffer
  agreed,  \* agreed[d]: what the caller's last analysis with d was for
  queue,   \* queue[s]: the launches stream s has yet to run
  busy,    \* busy[s]: stream s is running the polling kernel at its head
  stream,  \* the handle's stream
  call     \* the solve that waits for its clear, or NULL

caller == <<mat, sp, room, agreed, stream>>
vars == <<caller, mem, queue, busy, call>>

----------------------------------------------------------------------------
(* plan_scratch *)

(* Slip: a section starts where the one before it begins its last page.    *)
AlignDown(v) == (v \div 256) * 256

AlignUp(v) == ((v + 255) \div 256) * 256

kMaxRhsTile == 1024
PowersOfTwo == {1, 2, 4, 8, 16, 32, 64, 128, 256, 512, 1024}

(* rhs_tile_for: the power of two that holds n, up to the largest tile.    *)
RhsTile(n) ==
  IF n >= kMaxRhsTile THEN kMaxRhsTile
  ELSE CHOOSE v \in PowersOfTwo :
         v >= n /\ \A w \in PowersOfTwo : w >= n => v <= w

TilesOf(n) == (n + RhsTile(n) - 1) \div RhsTile(n)

WorkBytes(p, n) == RowCount[p] * n * Elem

(* Slip: one tile's flags are counted.                                     *)
OneTileBytes(p, n) == RowCount[p] * 4

(* plan_scratch counts one tile at least, which a width of 1 or more has.  *)
DoneBytes(p, n) == TilesOf(n) * RowCount[p] * 4
DiagBytes(p) == RowCount[p] * Elem
OffsetBytes(p) == (RowCount[p] + 1) * 4

DoneOff(p, n) == AlignUp(WorkBytes(p, n))
DiagOff(p, n) == AlignUp(DoneOff(p, n) + DoneBytes(p, n))
Total(p, n) == AlignUp(DiagOff(p, n) + DiagBytes(p))

(* Slip: the offsets of a COO matrix are not counted.                      *)
WithoutOffsets(f, p, n) == Total(p, n)

(* flagsparseSpSM_bufferSize.                                              *)
BufferSize(f, p, n) ==
  Total(p, n) + (IF f = "COO" THEN OffsetBytes(p) ELSE 0)

----------------------------------------------------------------------------
(* What a buffer holds *)

Diag(p)     == <<"diag", p>>
Ones        == <<"ones", NULL>>
Offsets(p)  == <<"offsets", p>>
Rhs(m)      == <<"rhs", m>>
Solution(m) == <<"solution", m>>
Cleared     == <<"cleared", NULL>>
InUse       == <<"in_use", NULL>>

Region(at, size, holds) == [at |-> at, size |-> size, holds |-> holds]

Apart(x, at, size) == x.at + x.size <= at \/ at + size <= x.at

(* Bytes written at a place end every region they touch.                   *)
Untouched(regions, at, size) == {x \in regions : Apart(x, at, size)}
Written(regions, x) == Untouched(regions, x.at, x.size) \cup {x}

----------------------------------------------------------------------------
NoDescr == [buffer |-> NULL, analysed_matrix |-> NULL, analysed |-> FALSE]
Analysed(m, b) == [buffer |-> b, analysed_matrix |-> m, analysed |-> TRUE]

Init ==
  /\ mat = [m \in Matrices |-> NULL]
  /\ sp = [d \in SolveDescrs |-> NULL]
  /\ room = [d \in SolveDescrs |-> 0]
  /\ mem = [d \in SolveDescrs |-> {}]
  /\ agreed = [d \in SolveDescrs |-> NULL]
  /\ queue = [s \in Streams |-> <<>>]
  /\ busy = [s \in Streams |-> FALSE]
  /\ stream \in Streams
  /\ call = NULL

Idle == call = NULL
Pending == UNION {{queue[s][i] : i \in 1..Len(queue[s])} : s \in Streams}

(* A copy or a clear on the default stream runs once the streams have run  *)
(* what they were given.                                                   *)
BlockingIdle == \A s \in Streams : queue[s] = <<>>

(* Slip: the clear waits for nothing.                                      *)
WaitsForNothing == TRUE

ClearMayRun == BlockingIdle

----------------------------------------------------------------------------
(* The matrix: changing it ends what was agreed about it.                  *)

Forget(m) ==
  agreed' = [d \in SolveDescrs |->
               IF agreed[d] # NULL /\ agreed[d].mat = m THEN NULL ELSE agreed[d]]

CreateMat(m, f, p, unit) ==
  /\ mat[m] = NULL
  /\ f = "CSR" => RowSorted[p]
  /\ mat' = [mat EXCEPT ![m] = [format |-> f, arrays |-> p, unit |-> unit]]
  /\ UNCHANGED agreed

DestroyMat(m) ==
  /\ mat[m] # NULL
  /\ \A op \in Pending : op.mat # m
  /\ mat' = [mat EXCEPT ![m] = NULL]
  /\ Forget(m)

(* The new arrays have as many rows as the old ones.                       *)
CsrSetPointers(m, p) ==
  /\ mat[m] # NULL /\ mat[m].format = "CSR"
  /\ RowSorted[p] /\ RowCount[p] = RowCount[mat[m].arrays]
  /\ mat' = [mat EXCEPT ![m].arrays = p]
  /\ Forget(m)

(* flagsparseSpMatSetAttribute(DIAG_TYPE).                                 *)
SetDiagType(m, unit) ==
  /\ mat[m] # NULL
  /\ mat' = [mat EXCEPT ![m].unit = unit]
  /\ Forget(m)

OnMatrix(m) ==
  /\ Idle
  /\ \/ \E f \in Formats, p \in Patterns, u \in BOOLEAN : CreateMat(m, f, p, u)
     \/ DestroyMat(m)
     \/ \E p \in Patterns : CsrSetPointers(m, p)
     \/ \E u \in BOOLEAN : SetDiagType(m, u)
  /\ UNCHANGED <<sp, room, stream, mem, queue, busy, call>>

----------------------------------------------------------------------------
(* The SpSM descriptor and its buffer *)

CreateDescr(d) ==
  /\ sp[d] = NULL
  /\ sp' = [sp EXCEPT ![d] = NoDescr]
  /\ UNCHANGED <<room, mem, agreed>>

DestroyDescr(d) ==
  /\ sp[d] # NULL
  /\ sp' = [sp EXCEPT ![d] = NULL]
  /\ agreed' = [agreed EXCEPT ![d] = NULL]
  /\ UNCHANGED <<room, mem>>

(* The caller allocates what bufferSize says, once nothing uses the buffer *)
(* it had.                                                                 *)
Allocate(d, m, n) ==
  /\ sp[d] # NULL /\ mat[m] # NULL
  /\ \A op \in Pending : op.at # d
  /\ room' = [room EXCEPT ![d] = BufferSize(mat[m].format, mat[m].arrays, n)]
  /\ mem' = [mem EXCEPT ![d] = {}]
  /\ agreed' = [agreed EXCEPT ![d] = NULL]
  /\ UNCHANGED sp

OnDescr(d) ==
  /\ Idle
  /\ \/ CreateDescr(d)
     \/ DestroyDescr(d)
     \/ \E m \in Matrices, n \in Widths : Allocate(d, m, n)
  /\ UNCHANGED <<mat, stream, queue, busy, call>>

(* The caller leaves a stream once it has run everything.                  *)
SetStream(s) ==
  /\ Idle
  /\ queue[stream] = <<>>
  /\ stream' = s
  /\ UNCHANGED <<mat, sp, room, agreed, mem, queue, busy, call>>

HasRoom(n) == Len(queue[stream]) + n <= MaxPending

Op(k, d, m, n) ==
  [kernel |-> k, at |-> d, mat |-> m, arrays |-> mat[m].arrays,
   coo |-> mat[m].format = "COO", unit |-> mat[m].unit, width |-> n]

(* The launches of a call, in order, up to the first that fails.           *)
LaunchInOrder(ops) ==
  \E k \in 0..Len(ops) :
    queue' = [queue EXCEPT ![stream] = @ \o SubSeq(ops, 1, k)]

----------------------------------------------------------------------------
(* Analysis *)

Agree(d, m, n) == agreed' = [agreed EXCEPT ![d] = [mat |-> m, width |-> n]]
Fail(d) == agreed' = [agreed EXCEPT ![d] = NULL]

(* A matrix without rows: the descriptor is all there is to it.            *)
AnalyseRowless(d, m, n) ==
  /\ RowCount[mat[m].arrays] = 0
  /\ sp' = [sp EXCEPT ![d] = Analysed(m, IF room[d] = 0 THEN NULL ELSE d)]
  /\ Agree(d, m, n)
  /\ UNCHANGED <<mem, queue>>

(* Slip: the diagonal goes where the flags of the solve will be.           *)
DiagBeforeFlags(p, n) == DoneOff(p, n)

DiagAt(p, n) == DiagOff(p, n)

(* The launch that extracts the diagonal goes out or fails; the descriptor *)
(* is written last.                                                        *)
ExtractDiag(d, m, n) ==
  /\ HasRoom(1)
  /\ \/ /\ queue' = [queue EXCEPT ![stream] = Append(@, Op("extract_diag", d, m, n))]
        /\ sp' = [sp EXCEPT ![d] = Analysed(m, d)]
        /\ Agree(d, m, n)
     \/ /\ Fail(d)
        /\ UNCHANGED <<queue, sp>>

AnalyseCsr(d, m, n) ==
  /\ mat[m].format = "CSR"
  /\ ExtractDiag(d, m, n)
  /\ UNCHANGED mem

(* build_coo_row_offsets fails before it uploads, or in the upload, or has *)
(* built the offsets behind the diagonal.                                  *)
AnalyseCoo(d, m, n) ==
  LET p  == mat[m].arrays
      at == Total(p, n)
  IN  /\ mat[m].format = "COO"
      /\ BlockingIdle
      /\ \/ /\ Fail(d)
            /\ \/ UNCHANGED mem
               \/ /\ RowSorted[p]
                  /\ mem' = [mem EXCEPT ![d] = Untouched(@, at, OffsetBytes(p))]
            /\ UNCHANGED <<queue, sp>>
         \/ /\ RowSorted[p]
            /\ mem' = [mem EXCEPT
                         ![d] = Written(@, Region(at, OffsetBytes(p), Offsets(p)))]
            /\ ExtractDiag(d, m, n)

(* The caller hands over a buffer of the size bufferSize gave.             *)
Analysis(d, m, n) ==
  /\ Idle
  /\ sp[d] # NULL /\ mat[m] # NULL
  /\ room[d] >= BufferSize(mat[m].format, mat[m].arrays, n)
  /\ \/ AnalyseRowless(d, m, n)
     \/ /\ RowCount[mat[m].arrays] > 0
        /\ AnalyseCsr(d, m, n) \/ AnalyseCoo(d, m, n)
  /\ UNCHANGED <<mat, room, stream, busy, call>>

----------------------------------------------------------------------------
(* Solve *)

(* The caller solves what it analysed, with room for it, and with a width  *)
(* that leaves the diagonal where the analysis put it.                     *)
MaySolve(d, m, n) ==
  /\ agreed[d] # NULL /\ agreed[d].mat = m
  /\ Widening \/ DiagOff(mat[m].arrays, agreed[d].width) = DiagOff(mat[m].arrays, n)
  /\ room[d] >= BufferSize(mat[m].format, mat[m].arrays, n)

(* The checks of the solve, then the copy of op(B) into the work array; a  *)
(* launch that fails ends the call.                                        *)
CopyIn(d, m, n) ==
  /\ Idle
  /\ sp[d] # NULL /\ mat[m] # NULL
  /\ MaySolve(d, m, n)
  /\ sp[d].analysed /\ sp[d].buffer # NULL
  /\ sp[d].analysed_matrix = m
  /\ RowCount[mat[m].arrays] > 0
  /\ HasRoom(1)
  /\ queue' = [queue EXCEPT ![stream] = Append(@, Op("copy_in", d, m, n))]
  /\ call' = [d |-> d, mat |-> m, width |-> n]
  /\ UNCHANGED <<caller, mem, busy>>

(* Slip: the flags are left as the last solve set them.                    *)
ClearNothing(d, p, n) == mem' = mem

ClearDone(d, p, n) ==
  mem' = [mem EXCEPT
            ![d] = Written(@, Region(DoneOff(p, n), DoneBytes(p, n), Cleared))]

(* Slip: the result is copied back before the kernel has run.              *)
CopyOutFirst(d, m, n) == <<Op("copy_out", d, m, n), Op("polling", d, m, n)>>

SolveLaunches(d, m, n) == <<Op("polling", d, m, n), Op("copy_out", d, m, n)>>

(* The clear ran or failed; behind it the kernel and the copy back.        *)
ClearAndLaunch ==
  /\ call # NULL
  /\ ClearMayRun
  /\ call' = NULL
  /\ \/ /\ ClearDone(call.d, mat[call.mat].arrays, call.width)
        /\ LaunchInOrder(SolveLaunches(call.d, call.mat, call.width))
     \/ UNCHANGED <<mem, queue>>
  /\ UNCHANGED <<caller, busy>>

----------------------------------------------------------------------------
(* The device.  A copy or an extraction runs in one step; the polling      *)
(* kernel owns its flags from its first step to its last.                  *)

(* The grid of the polling kernel is rows by tiles, with a flag each.      *)
GridFlags(op) == RowCount[op.arrays] * TilesOf(op.width)

WorkHolds(op, holds) == Region(0, WorkBytes(op.arrays, op.width), holds)
DoneHolds(op, holds) ==
  Region(DoneOff(op.arrays, op.width), GridFlags(op) * 4, holds)

Effect(op, regions) ==
  IF op.kernel = "extract_diag"
  THEN Written(regions, Region(DiagAt(op.arrays, op.width), DiagBytes(op.arrays),
                               IF op.unit THEN Ones ELSE Diag(op.arrays)))
  ELSE IF op.kernel = "copy_in" THEN Written(regions, WorkHolds(op, Rhs(op.mat)))
  ELSE regions  \* copy_out reads

RunKernel(s) ==
  /\ queue[s] # <<>> /\ Head(queue[s]).kernel # "polling"
  /\ mem' = [mem EXCEPT ![Head(queue[s]).at] = Effect(Head(queue[s]), @)]
  /\ queue' = [queue EXCEPT ![s] = Tail(@)]
  /\ UNCHANGED <<caller, busy, call>>

StartKernel(s) ==
  /\ queue[s] # <<>> /\ Head(queue[s]).kernel = "polling"
  /\ ~busy[s]
  /\ busy' = [busy EXCEPT ![s] = TRUE]
  /\ mem' = [mem EXCEPT ![Head(queue[s]).at] = Written(@, DoneHolds(Head(queue[s]), InUse))]
  /\ UNCHANGED <<caller, queue, call>>

(* The values are in the work array, the flags are raised.                 *)
FinishKernel(s) ==
  /\ busy[s]
  /\ busy' = [busy EXCEPT ![s] = FALSE]
  /\ LET op == Head(queue[s])
     IN  mem' = [mem EXCEPT
                   ![op.at] = Written(
                     Untouched(@, DoneOff(op.arrays, op.width), GridFlags(op) * 4),
                     WorkHolds(op, Solution(op.mat)))]
  /\ queue' = [queue EXCEPT ![s] = Tail(@)]
  /\ UNCHANGED <<caller, call>>

Next ==
  \/ \E m \in Matrices : OnMatrix(m)
  \/ \E d \in SolveDescrs : OnDescr(d)
  \/ \E d \in SolveDescrs, m \in Matrices, n \in Widths :
       Analysis(d, m, n) \/ CopyIn(d, m, n)
  \/ ClearAndLaunch
  \/ \E s \in Streams : SetStream(s)
  \/ \E s \in Streams : RunKernel(s) \/ StartKernel(s) \/ FinishKernel(s)

Spec == Init /\ [][Next]_vars

----------------------------------------------------------------------------
MatDescr == [format : Formats, arrays : Patterns, unit : BOOLEAN]
SpSMDescr == [buffer : SolveDescrs \cup {NULL},
              analysed_matrix : Matrices \cup {NULL}, analysed : BOOLEAN]
Kernels == {"extract_diag", "copy_in", "polling", "copy_out"}
Launches == [kernel : Kernels, at : SolveDescrs, mat : Matrices, arrays : Patterns,
             coo : BOOLEAN, unit : BOOLEAN, width : Widths]
Contents ==
  {Ones, Cleared, InUse}
    \cup {Diag(p) : p \in Patterns} \cup {Offsets(p) : p \in Patterns}
    \cup {Rhs(m) : m \in Matrices} \cup {Solution(m) : m \in Matrices}

TypeOK ==
  /\ mat \in [Matrices -> MatDescr \cup {NULL}]
  /\ sp \in [SolveDescrs -> SpSMDescr \cup {NULL}]
  /\ room \in [SolveDescrs -> Nat]
  /\ mem \in [SolveDescrs -> SUBSET [at : Nat, size : Nat, holds : Contents]]
  /\ agreed \in [SolveDescrs -> [mat : Matrices, width : Widths] \cup {NULL}]
  /\ queue \in [Streams -> Seq(Launches)]
  /\ busy \in [Streams -> BOOLEAN]
  /\ stream \in Streams
  /\ call \in [d : SolveDescrs, mat : Matrices, width : Widths] \cup {NULL}

Polling(s) == queue[s] # <<>> /\ Head(queue[s]).kernel = "polling"

(* "extracting it here means a repeated solve with new right-hand sides    *)
(* does not pay for it again" (src/ops/spsm.cpp): the kernel, which looks  *)
(* for the diagonal where the width of the solve puts it, finds the one of *)
(* the arrays it solves.                                                   *)
DiagonalFound ==
  \A s \in Streams :
    LET op == Head(queue[s])
    IN  Polling(s) /\ ~op.unit =>
          Region(DiagOff(op.arrays, op.width), DiagBytes(op.arrays), Diag(op.arrays))
            \in mem[op.at]

(* "The done flags must start at zero; the kernel only ever sets them"     *)
(* (src/ops/spsm.cpp solve): the kernel starts on the flags its own solve  *)
(* cleared, and nothing writes to them while it runs.                      *)
FlagsOwned ==
  \A s \in Streams :
    Polling(s) => DoneHolds(Head(queue[s]), IF busy[s] THEN InUse ELSE Cleared)
                    \in mem[Head(queue[s]).at]

(* A COO solve finds the row offsets of its own arrays behind the          *)
(* diagonal: "the offsets live where _analysis put them" (src/ops/spsm.cpp *)
(* csr_view_of_coo).                                                       *)
OffsetsFound ==
  \A s \in Streams :
    LET op == Head(queue[s])
    IN  Polling(s) /\ op.coo =>
          Region(Total(op.arrays, op.width), OffsetBytes(op.arrays),
                 Offsets(op.arrays)) \in mem[op.at]

(* The work array carries one solve from its right-hand sides to its       *)
(* result: the kernel finds the ones copied in for it, and the copy back   *)
(* finds what the kernel made of them (src/ops/spsm.cpp solve).            *)
WorkIsOwn ==
  \A s \in Streams :
    LET op == Head(queue[s])
    IN  queue[s] # <<>> =>
          /\ op.kernel = "polling" => WorkHolds(op, Rhs(op.mat)) \in mem[op.at]
          /\ op.kernel = "copy_out" => WorkHolds(op, Solution(op.mat)) \in mem[op.at]

(* Nothing is written past the end of a buffer as large as                 *)
(* flagsparseSpSM_bufferSize asked for.                                    *)
WithinRoom ==
  \A d \in SolveDescrs : \A x \in mem[d] : x.at + x.size <= room[d]
=============================================================================
