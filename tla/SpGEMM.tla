------------------------------- MODULE SpGEMM -------------------------------
(***************************************************************************)
(* The sparse product C = A * B (src/ops/spgemm.cpp): workEstimation,      *)
(* compute and copy share an SpGEMM descriptor, C's descriptor and the     *)
(* buffer the estimate was written to, and between compute and copy the    *)
(* caller reads C's size and attaches arrays to C.                         *)
(*                                                                         *)
(* A pair is the addresses of A and B; what the library reads from the two *)
(* matrices is a function of operands[pair], the product they stand for.   *)
(* The calls that size a buffer, and those that fail before changing       *)
(* anything, are stuttering steps.  compute and copy wait for the device.  *)
(* The second buffer is left out: compute writes the row counts and        *)
(* overflow flags there and reads them back before it returns, and though  *)
(* the descriptor keeps the buffer and copy hands it to the fill kernel,   *)
(* what the kernel leaves there then is not read.  A definition whose      *)
(* comment begins "Slip" is a mistake the code could have made; nothing    *)
(* uses it.                                                                *)
(***************************************************************************)
EXTENDS Integers

CONSTANTS
  Pairs,       \* addresses of the operands A and B
  Results,     \* addresses of C's descriptor
  Descrs,      \* addresses of SpGEMM descriptors
  Buffers,     \* Buffers[d]: what is handed over as externalBuffer1 with d
  Addresses,   \* device addresses
  Products,    \* what the operands may hold
  Rowless,     \* the products in which A has no rows
  Work,        \* Work[p]: scalar products of the busiest row
  Total,       \* Total[p]: entries of C
  LongestRow,  \* LongestRow[p]: entries of C's longest row
  CountTables, \* the bounds of kBuckets
  FillTables,  \* the bounds of kFillBuckets
  MaxTotal,    \* INT32_MAX
  Orderly,     \* callers compute and copy with the A and B of the last
               \* estimate, which succeeded and found what they hold now,
               \* and copy to the C of the last compute
  AttachFirst, \* callers attach arrays to C between compute and copy
  NULL

Content == Products \cup {NULL}  \* NULL: nothing the library has written

ASSUME SpGEMMAssumption ==
  /\ Buffers \in [Descrs -> SUBSET Addresses]
  /\ Rowless \subseteq Products
  /\ Work \in [Products -> Nat]
  /\ Total \in [Products -> Nat]
  /\ LongestRow \in [Products -> Nat]
  /\ \A p \in Products : Total[p] = 0 => LongestRow[p] = 0
  /\ \A p \in Rowless : Total[p] = 0
  /\ CountTables \subseteq Nat /\ FillTables \subseteq Nat
  /\ MaxTotal \in Nat
  /\ Orderly \in BOOLEAN /\ AttachFirst \in BOOLEAN
  /\ NULL \notin Pairs \cup Results \cup Products \cup Addresses

(* SpGEMMDescr: what it remembers, host_indptr being a product's offsets.  *)
Descr == [estimated : BOOLEAN, computed : BOOLEAN, max_row_work : Nat,
          max_row_nnz : Nat, host_indptr : Content,
          buffer1 : Addresses \cup {NULL}]

(* Only an estimate lets a descriptor compute, and it brings a buffer.     *)
Established(g) ==
  (g.computed => g.estimated) /\ (g.estimated => g.buffer1 # NULL)

(* C: its size, the room in the arrays attached to it, what its offsets    *)
(* and its columns and values hold, how many entries the offsets called    *)
(* for when they were last filled, and the product a copy has reported.    *)
Result == [rowless : BOOLEAN, nnz : Nat, max_row_nnz : Nat \cup {-1},
           attached : BOOLEAN, room : Nat, offsets : Content,
           entries : Content, written : Nat, reported : Content]

ASSUME NullAssumption == NULL \notin Descr /\ NULL \notin Result

VARIABLES
  operands,  \* operands[o]: what the pair o holds
  mem,       \* mem[a]: the product the estimate at address a is for
  gd,        \* gd[d]: the SpGEMM descriptor at address d, or NULL
  cd,        \* cd[c]: the result descriptor at address c, or NULL
  flow       \* flow[d]: the pair and the result a caller uses d for

vars == <<operands, mem, gd, cd, flow>>

Idle == [pair |-> NULL, result |-> NULL]

Init ==
  /\ operands \in [Pairs -> Products]
  /\ mem = [a \in Addresses |-> NULL]
  /\ gd = [d \in Descrs |-> NULL]
  /\ cd = [c \in Results |-> NULL]
  /\ flow = [d \in Descrs |-> Idle]

----------------------------------------------------------------------------
(* Descriptors and arrays *)

NewDescr == [estimated |-> FALSE, computed |-> FALSE, max_row_work |-> 0,
             max_row_nnz |-> 0, host_indptr |-> NULL, buffer1 |-> NULL]

CreateDescr(d) ==
  /\ gd[d] = NULL
  /\ gd' = [gd EXCEPT ![d] = NewDescr]
  /\ UNCHANGED <<operands, mem, cd, flow>>

DestroyDescr(d) ==
  /\ gd[d] # NULL
  /\ gd' = [gd EXCEPT ![d] = NULL]
  /\ flow' = [flow EXCEPT ![d] = Idle]
  /\ UNCHANGED <<operands, mem, cd>>

(* C starts without entries, over an offsets array and nothing else.       *)
Empty(rowless) ==
  [rowless |-> rowless, nnz |-> 0, max_row_nnz |-> -1, attached |-> FALSE,
   room |-> 0, offsets |-> NULL, entries |-> NULL, written |-> 0,
   reported |-> NULL]

(* The flows a caller abandons when it does away with result c.            *)
Without(c) == [d \in Descrs |-> IF flow[d].result = c THEN Idle ELSE flow[d]]

CreateResult(c, rowless) ==
  /\ cd[c] = NULL
  /\ cd' = [cd EXCEPT ![c] = Empty(rowless)]
  /\ UNCHANGED <<operands, mem, gd, flow>>

DestroyResult(c) ==
  /\ cd[c] # NULL
  /\ cd' = [cd EXCEPT ![c] = NULL]
  /\ flow' = Without(c)
  /\ UNCHANGED <<operands, mem, gd>>

(* Slip: the longest row is remembered across a change of arrays.          *)
AttachOnly(c) ==
  /\ cd[c] # NULL
  /\ cd' = [cd EXCEPT ![c] = [Empty(cd[c].rowless) EXCEPT
              !.nnz = cd[c].nnz, !.room = cd[c].nnz, !.attached = TRUE,
              !.max_row_nnz = cd[c].max_row_nnz]]
  /\ UNCHANGED <<operands, mem, gd, flow>>

(* CsrSetPointers with new arrays of the size C reports.                   *)
Attach(c) ==
  /\ cd[c] # NULL
  /\ cd' = [cd EXCEPT ![c] = [Empty(cd[c].rowless) EXCEPT
              !.nnz = cd[c].nnz, !.room = cd[c].nnz, !.attached = TRUE]]
  /\ UNCHANGED <<operands, mem, gd, flow>>

(* A and B are given other contents.                                       *)
ChangeOperands(o, p) ==
  /\ Orderly => \A d \in Descrs : flow[d].pair # o
  /\ operands' = [operands EXCEPT ![o] = p]
  /\ UNCHANGED <<mem, gd, cd, flow>>

(* ensure_max_row_nnz, by any product of C.                                *)
Use(c) ==
  /\ cd[c] # NULL
  /\ cd[c].reported # NULL
  /\ cd[c].max_row_nnz = -1
  /\ cd[c].nnz = 0 \/ cd[c].offsets # NULL
  /\ cd' = [cd EXCEPT ![c].max_row_nnz =
              IF cd[c].nnz = 0 THEN 0 ELSE LongestRow[cd[c].offsets]]
  /\ UNCHANGED <<operands, mem, gd, flow>>

Shaped(o, c) == cd[c] # NULL /\ (cd[c].rowless <=> operands[o] \in Rowless)

----------------------------------------------------------------------------
(* workEstimation *)

(* Slip: the address of the buffer is not remembered.                      *)
EstimatedForgetful(g, p, b) ==
  [g EXCEPT !.estimated = TRUE, !.computed = FALSE, !.max_row_work = Work[p]]

(* Slip: what an earlier product computed still counts.                    *)
EstimatedOnly(g, p, b) ==
  [g EXCEPT !.estimated = TRUE, !.max_row_work = Work[p], !.buffer1 = b]

Estimated(g, p, b) ==
  [g EXCEPT !.estimated = TRUE, !.computed = FALSE, !.max_row_work = Work[p],
            !.buffer1 = b]

(* Two uploads, either of which may fail with part of the buffer written.  *)
Estimate(d, o, b) ==
  LET p == operands[o]
  IN  /\ gd[d] # NULL
      /\ \/ /\ p \in Rowless
            /\ gd' = [gd EXCEPT ![d].estimated = TRUE, ![d].buffer1 = b]
            /\ flow' = [flow EXCEPT ![d] = [Idle EXCEPT !.pair = o]]
            /\ UNCHANGED mem
         \/ /\ p \notin Rowless
            /\ gd' = [gd EXCEPT ![d] = Estimated(gd[d], p, b)]
            /\ flow' = [flow EXCEPT ![d] = [Idle EXCEPT !.pair = o]]
            /\ mem' = [mem EXCEPT ![b] = p]
         \/ /\ p \notin Rowless
            /\ flow' = [flow EXCEPT ![d] = Idle]
            /\ mem' \in {mem, [mem EXCEPT ![b] = NULL]}
            /\ UNCHANGED gd
      /\ UNCHANGED <<operands, cd>>

----------------------------------------------------------------------------
(* compute *)

(* What the kernel counts when no row overflows its table: anything, over  *)
(* an estimate for other matrices.                                         *)
Counted(d, p) == IF mem[gd[d].buffer1] = p THEN {p} ELSE Products \ Rowless

(* pick_bucket finds a table for rows of size w.                           *)
Serves(tables, w) == \E t \in tables : w <= t

(* The table it finds holds a row of size n.                               *)
Holds(tables, w, n) == \A t \in tables : w <= t => n <= t

(* Slip: a C that has a size keeps it.                                     *)
SizedOnce(r, q) ==
  [r EXCEPT !.nnz = IF r.nnz = 0 THEN Total[q] ELSE r.nnz,
            !.attached = FALSE, !.reported = NULL]

Sized(r, q) == [r EXCEPT !.nnz = Total[q], !.attached = FALSE, !.reported = NULL]

(* A result has the size its last compute gave it.                         *)
Takes(d, o, c) == [Without(c) EXCEPT ![d] = [pair |-> o, result |-> c]]

ComputeRowless(d, o, c) ==
  /\ operands[o] \in Rowless
  /\ cd' = [cd EXCEPT ![c].nnz = 0, ![c].attached = FALSE, ![c].reported = NULL]
  /\ gd' = [gd EXCEPT ![d].computed = TRUE]
  /\ flow' = Takes(d, o, c)

(* The counts were read back and summed on the host, in place; the sum may *)
(* be too large, the upload may fail.                                      *)
ComputeCounts(d, o, c) ==
  /\ operands[o] \notin Rowless
  /\ Serves(CountTables, gd[d].max_row_work)
  /\ \E q \in Counted(d, operands[o]) :
       \/ /\ Total[q] <= MaxTotal
          /\ gd' = [gd EXCEPT ![d].host_indptr = q, ![d].computed = TRUE,
                              ![d].max_row_nnz = LongestRow[q]]
          /\ cd' = [cd EXCEPT ![c] = Sized(cd[c], q)]
          /\ flow' = Takes(d, o, c)
       \/ /\ gd' = [gd EXCEPT ![d].host_indptr =
                      IF Total[q] <= MaxTotal THEN q ELSE NULL]
          /\ UNCHANGED <<cd, flow>>

Compute(d, o, c) ==
  /\ gd[d] # NULL
  /\ gd[d].estimated
  /\ Shaped(o, c)
  /\ Orderly => flow[d].pair = o
  /\ ComputeRowless(d, o, c) \/ ComputeCounts(d, o, c)
  /\ UNCHANGED <<operands, mem>>

----------------------------------------------------------------------------
(* copy *)

(* The kernel finds the estimate, the offsets and the table it needs.      *)
FillsRight(d, o, c) ==
  LET p == operands[o]
  IN  /\ mem[gd[d].buffer1] = p
      /\ gd[d].host_indptr = p
      /\ cd[c].nnz = Total[p]
      /\ Holds(FillTables, gd[d].max_row_nnz, LongestRow[p])

(* Nothing is written when C has no entries.                               *)
CopyNothing(d, o, c) ==
  /\ operands[o] \in Rowless \/ cd[c].nnz = 0
  /\ cd' = [cd EXCEPT ![c].reported = operands[o]]

(* The offsets go up, the kernel fills the rows if there is a table for    *)
(* them, and the host sorts each row and writes it back.  The call may     *)
(* stop within any of the three.                                           *)
CopyEntries(d, o, c) ==
  LET g       == gd[d]
      uploads == [cd[c] EXCEPT !.offsets = g.host_indptr, !.reported = NULL]
      fills   == [uploads EXCEPT !.entries = NULL, !.written = Total[g.host_indptr]]
      sorts   == [fills EXCEPT
                    !.entries = IF FillsRight(d, o, c) THEN operands[o] ELSE NULL,
                    !.reported = operands[o]]
  IN  /\ operands[o] \notin Rowless
      /\ cd[c].nnz > 0
      /\ g.host_indptr # NULL
      /\ \E r \in {[uploads EXCEPT !.offsets = NULL], uploads}
                 \cup (IF Serves(FillTables, g.max_row_nnz)
                      THEN {fills, sorts} ELSE {}) :
           cd' = [cd EXCEPT ![c] = r]

Copy(d, o, c) ==
  /\ gd[d] # NULL
  /\ gd[d].computed
  /\ Shaped(o, c)
  /\ Orderly => flow[d].pair = o /\ flow[d].result \in {c, NULL}
  /\ AttachFirst => cd[c].attached
  /\ CopyNothing(d, o, c) \/ CopyEntries(d, o, c)
  /\ UNCHANGED <<operands, mem, gd, flow>>

----------------------------------------------------------------------------
OnDescr(d) ==
  \/ CreateDescr(d)
  \/ DestroyDescr(d)
  \/ \E o \in Pairs, b \in Buffers[d] : Estimate(d, o, b)
  \/ \E o \in Pairs, c \in Results : Compute(d, o, c)
  \/ \E o \in Pairs, c \in Results : Copy(d, o, c)

OnResult(c) ==
  \/ \E rowless \in BOOLEAN : CreateResult(c, rowless)
  \/ DestroyResult(c)
  \/ Attach(c)
  \/ Use(c)

Next ==
  \/ \E d \in Descrs : OnDescr(d)
  \/ \E c \in Results : OnResult(c)
  \/ \E o \in Pairs, p \in Products : ChangeOperands(o, p)

Spec == Init /\ [][Next]_vars

----------------------------------------------------------------------------
TypeOK ==
  /\ operands \in [Pairs -> Products]
  /\ mem \in [Addresses -> Content]
  /\ gd \in [Descrs -> Descr \cup {NULL}]
  /\ \A d \in Descrs : gd[d] # NULL => Established(gd[d])
  /\ cd \in [Results -> Result \cup {NULL}]
  /\ flow \in [Descrs -> [pair : Pairs \cup {NULL}, result : Results \cup {NULL}]]

(* No two SpGEMM descriptors share a first buffer.                         *)
PrivateBuffers ==
  \A d, e \in Descrs : d # e => Buffers[d] \cap Buffers[e] = {}

(* A copy writes no more entries than the arrays attached to C have room   *)
(* for: the size compute reported is the size copy fills, and "C has no    *)
(* arrays yet" is an error (flagsparseSpGEMM_copy).                        *)
WithinRoom == \A c \in Results : cd[c] # NULL => cd[c].written <= cd[c].room

(* After a copy that succeeded C's arrays hold the product of the very     *)
(* operands it was called with, whatever calls were interleaved with other *)
(* descriptors or failed before (flagsparseSpGEMM_compute and _copy).      *)
CopyDelivers ==
  \A c \in Results : cd[c] # NULL =>
    LET p == cd[c].reported
    IN  p # NULL =>
          /\ cd[c].nnz = Total[p]
          /\ Total[p] > 0 => cd[c].offsets = p /\ cd[c].entries = p

(* The longest row C's descriptor remembers is the longest row of the      *)
(* product C holds, after any number of products into it                   *)
(* (ensure_max_row_nnz, flagsparseCsrSetPointers).                         *)
RowFactFollows ==
  \A c \in Results :
    (cd[c] # NULL /\ cd[c].reported # NULL /\ cd[c].max_row_nnz >= 0) =>
      cd[c].max_row_nnz = LongestRow[cd[c].reported]

(* "C's own offsets array gets the indptr compute derived"                 *)
(* (flagsparseSpGEMM_copy): after a copy that succeeded, they are there.   *)
OffsetsDelivered ==
  \A c \in Results : cd[c] # NULL =>
    LET p == cd[c].reported
    IN  p # NULL /\ p \notin Rowless => cd[c].offsets = p
=============================================================================
