-------------------------------- MODULE SpSV --------------------------------
(***************************************************************************)
(* The triangular solve's descriptor and its two calls (src/ops/spsv.cpp). *)
(* The solve takes no buffer: analysis stores the one it was given in the  *)
(* SpSV descriptor, with the address of the matrix it was called for.  The *)
(* buffer's first half holds the ready flags and the row counter, cleared  *)
(* by every solve; for a COO matrix its second half holds the row offsets  *)
(* analysis built.  What one launch computes is the subject of ChainWave.  *)
(*                                                                         *)
(* Memory is cleared and copied on the device's default stream, so that a  *)
(* clear waits for what every blocking stream has been given, and for      *)
(* nothing on a non-blocking one.  Calls that fail before changing         *)
(* anything are stuttering steps.  A definition whose comment begins       *)
(* "Slip" is a mistake the code could have made; nothing uses it.          *)
(***************************************************************************)
EXTENDS SpMat

CONSTANTS
  SolveDescrs,    \* addresses of SpSV descriptors
  Second,         \* Second[b]: the second half of the buffer at b
  Workspace,      \* Workspace[d][m]: buffers given to analysis of m with d
  ColsAscend,     \* ColsAscend[p]: columns ascend inside each row
  NonBlocking,    \* streams created not to wait for the default stream
  Careful         \* callers analyse again after a matrix changes or goes

Bases == DOMAIN Second

ASSUME SpSVAssumption ==
  /\ Bases \subseteq Addresses
  /\ Second \in [Bases -> Addresses \ Bases]
  /\ \A a, b \in Bases : Second[a] = Second[b] => a = b
  /\ Workspace \in [SolveDescrs -> [Matrices -> SUBSET Bases]]
  /\ ColsAscend \in [Patterns -> BOOLEAN]
  /\ NonBlocking \subseteq Streams
  /\ Careful \in BOOLEAN
  /\ NULL \notin SolveDescrs

VARIABLES
  sp,   \* sp[d]: the SpSV descriptor at address d, NULL when there is none
  busy  \* busy[s]: stream s is running the launch at its head

vars == <<desc, mem, queue, stream, sp, busy>>

SolveFormats == {"CSR", "COO", "SELL"}
KernelOf == [CSR |-> "spsv_csr", COO |-> "spsv_coo", SELL |-> "spsv_sell"]

NoDescr == [buffer |-> NULL, analysed_matrix |-> NULL, analysed |-> FALSE]
Analysed(m, b) == [buffer |-> b, analysed_matrix |-> m, analysed |-> TRUE]

SolveDescr == {NoDescr} \cup {Analysed(m, b) : m \in Matrices, b \in Bases}

Init ==
  /\ SpMatInit
  /\ sp = [d \in SolveDescrs |-> NULL]
  /\ busy = [s \in Streams |-> FALSE]

----------------------------------------------------------------------------
(* Calls *)

CreateDescr(d) ==
  /\ sp[d] = NULL
  /\ sp' = [sp EXCEPT ![d] = NoDescr]
  /\ UNCHANGED <<matVars, busy>>

DestroyDescr(d) ==
  /\ sp[d] # NULL
  /\ sp' = [sp EXCEPT ![d] = NULL]
  /\ UNCHANGED <<matVars, busy>>

(* Slip: the clear waits for nothing.                                      *)
WaitsForNothing == TRUE

(* A copy or a clear on the default stream runs once the blocking streams  *)
(* have run what they were given.                                          *)
BlockingIdle == \A s \in Streams \ NonBlocking : queue[s] = <<>>

(* Sliced-ELL: nothing to build and nothing to check.                      *)
AnalyseSell(d, m, b) ==
  /\ desc[m].format = "SELL"
  /\ sp' = [sp EXCEPT ![d] = Analysed(m, b)]
  /\ UNCHANGED <<desc, mem>>

(* Slip: the columns are not checked.                                      *)
AnalyseCsrUnchecked(d, m, b) ==
  /\ desc[m].format = "CSR"
  /\ sp' = [sp EXCEPT ![d] = Analysed(m, b)]
  /\ UNCHANGED <<desc, mem>>

AnalyseCsr(d, m, b) ==
  /\ desc[m].format = "CSR"
  /\ Nnz[desc[m].arrays] = 0 \/ BlockingIdle
  /\ ColsAscend[desc[m].arrays]
  /\ sp' = [sp EXCEPT ![d] = Analysed(m, b)]
  /\ UNCHANGED <<desc, mem>>

(* Slip: the descriptor is written whether or not the offsets were built.  *)
AnalyseCooRegardless(d, m, b) ==
  /\ desc[m].format = "COO"
  /\ BlockingIdle
  /\ \E r \in BuildCooRowOffsets(desc[m], mem, Second[b]) :
       /\ desc' = [desc EXCEPT ![m] = r.d]
       /\ mem' = r.mem
       /\ sp' = [sp EXCEPT ![d] = Analysed(m, b)]

(* The offsets are built, and the matrix descriptor told, before the       *)
(* columns are read back and checked; the SpSV descriptor is written last. *)
AnalyseCoo(d, m, b) ==
  /\ desc[m].format = "COO"
  /\ BlockingIdle
  /\ \E r \in BuildCooRowOffsets(desc[m], mem, Second[b]) :
       /\ desc' = [desc EXCEPT ![m] = r.d]
       /\ mem' = r.mem
       /\ \/ UNCHANGED sp
          \/ /\ r.ok /\ ColsAscend[desc[m].arrays]
             /\ sp' = [sp EXCEPT ![d] = Analysed(m, b)]

Analysis(d, m, b) ==
  /\ sp[d] # NULL
  /\ desc[m] # NULL
  /\ \/ AnalyseSell(d, m, b)
     \/ AnalyseCsr(d, m, b)
     \/ AnalyseCoo(d, m, b)
  /\ UNCHANGED <<queue, stream, busy>>

(* Slip: the flags are cleared by the analysis only, not by every solve.   *)
LeaveFlags(b) == BlockingIdle /\ UNCHANGED mem

ClearFlags(b) == BlockingIdle /\ mem' = [mem EXCEPT ![b] = Cleared]

(* The flags and the counter are cleared, then the kernel is launched on   *)
(* the handle's stream; the launch may fail.                               *)
Solve(d, m) ==
  /\ sp[d] # NULL
  /\ sp[d].analysed
  /\ sp[d].analysed_matrix = m
  /\ desc[m] # NULL
  /\ desc[m].format \in SolveFormats
  /\ ClearFlags(sp[d].buffer)
  /\ LaunchInOrder(<<[kernel |-> KernelOf[desc[m].format], mat |-> m,
                      arrays |-> desc[m].arrays, at |-> sp[d].buffer,
                      segments |-> 0]>>)
  /\ UNCHANGED <<desc, stream, sp, busy>>

(* A careful caller repoints or frees no matrix a descriptor remembers.    *)
MayChange(m) ==
  Careful => \A d \in SolveDescrs : sp[d] # NULL => sp[d].analysed_matrix # m

OnMatrix(m) ==
  \/ \E f \in SolveFormats, p \in Patterns : CreateMat(m, f, p)
  \/ MayChange(m) /\ DestroyMat(m)
  \/ MayChange(m) /\ \E p \in Patterns : CsrSetPointers(m, p)

----------------------------------------------------------------------------
(* The device: a kernel owns the flags from its first step to its last.    *)

StartKernel(s) ==
  /\ queue[s] # <<>> /\ ~busy[s]
  /\ busy' = [busy EXCEPT ![s] = TRUE]
  /\ mem' = [mem EXCEPT ![Head(queue[s]).at] = InUse(s)]
  /\ UNCHANGED <<desc, queue, stream, sp>>

FinishKernel(s) ==
  /\ busy[s]
  /\ busy' = [busy EXCEPT ![s] = FALSE]
  /\ queue' = [queue EXCEPT ![s] = Tail(@)]
  /\ mem' = [mem EXCEPT ![Head(queue[s]).at] = Garbage]
  /\ UNCHANGED <<desc, stream, sp>>

Next ==
  \/ \E d \in SolveDescrs : CreateDescr(d) \/ DestroyDescr(d)
  \/ \E d \in SolveDescrs, m \in Matrices :
       \/ \E b \in Workspace[d][m] : Analysis(d, m, b)
       \/ Solve(d, m)
  \/ \E m \in Matrices : OnMatrix(m) /\ UNCHANGED <<sp, busy>>
  \/ \E s \in Streams : SetStream(s) /\ UNCHANGED <<sp, busy>>
  \/ \E s \in Streams : StartKernel(s) \/ FinishKernel(s)

Spec == Init /\ [][Next]_vars

----------------------------------------------------------------------------
TypeOK ==
  /\ SpMatTypeOK
  /\ sp \in [SolveDescrs -> SolveDescr \cup {NULL}]
  /\ busy \in [Streams -> BOOLEAN]

(* "ready and row_counter must be ZERO at launch ... cleared by the solve" *)
(* (src/flagsparse_codegen/spsv.py): no kernel starts on flags another     *)
(* solve left behind.                                                      *)
StartsCleared ==
  [][\A s \in Streams : ~busy[s] /\ busy'[s] =>
       mem[Head(queue[s]).at] = Cleared]_vars

(* Nothing clears or overwrites the flags and the counter of a kernel that *)
(* is running: neither a later solve with the same descriptor, nor one on  *)
(* another stream, nor an analysis.                                        *)
FlagsUndisturbed ==
  \A s \in Streams : busy[s] => mem[Head(queue[s]).at] = InUse(s)

(* The second half of a running or waiting COO solve's buffer holds the    *)
(* offsets of the arrays it solves: "filled by _analysis and must survive" *)
(* (src/ops/spsv.cpp solve).                                               *)
SolvesOwnOffsets ==
  \A op \in Pending : op.kernel = "spsv_coo" =>
    mem[Second[op.at]] = Offsets(op.arrays)

(* "Column indices must be sorted ascending within a row ...               *)
(* flagsparseSpSV_analysis checks it" (src/flagsparse_codegen/spsv.py): no *)
(* solve is launched on columns the scan would stop early in.              *)
ColumnsCheckedAtLaunch ==
  \A op \in Pending : op.kernel \in {"spsv_csr", "spsv_coo"} =>
    ColsAscend[op.arrays]
=============================================================================
