------------------------------- MODULE SDDMM -------------------------------
(***************************************************************************)
(* The sampled dense-dense product (src/ops/sddmm.cpp): a CSR matrix and   *)
(* one row id for each of its entries, expanded into the caller's          *)
(* externalBuffer.  The row ids come from a kernel: unlike the COO offsets *)
(* they are not there when the call that asks for them returns, and the    *)
(* descriptor remembers the buffer from the launch on.                     *)
(*                                                                         *)
(* Calls that fail before launching anything, and every call on a matrix   *)
(* without entries, are stuttering steps.  A definition whose comment      *)
(* begins "Slip" is a mistake the code could have made; nothing uses it.   *)
(***************************************************************************)
EXTENDS SpMat

CONSTANTS
  Scratch,  \* Scratch[m]: the buffers the caller hands over with matrix m
  Synced    \* callers wait for the handle's stream before they change it

ASSUME SDDMMAssumption ==
  /\ Scratch \in [Matrices -> SUBSET Addresses]
  /\ Synced \in BOOLEAN

OnBuffer(k, m, a) ==
  [kernel |-> k, mat |-> m, arrays |-> desc[m].arrays, at |-> a, segments |-> 0]

Samples(m) == desc[m] # NULL /\ desc[m].format = "CSR" /\ Nnz[desc[m].arrays] > 0

----------------------------------------------------------------------------
(* Always expands the pattern; the buffer is remembered if the launch goes *)
(* out.                                                                    *)
Preprocess(m, a) ==
  /\ Samples(m)
  /\ HasRoom(1)
  /\ queue' = [queue EXCEPT ![stream] = Append(@, OnBuffer("row_ids", m, a))]
  /\ desc' = [desc EXCEPT ![m].sddmm_row_ids_buffer = a]
  /\ UNCHANGED <<mem, stream>>

Kept(m, a) == desc[m].sddmm_row_ids_buffer = a

(* Slip: the product goes out before the row ids it reads.                 *)
ProductFirst(m, a) ==
  IF Kept(m, a) THEN <<OnBuffer("sddmm", m, a)>>
  ELSE <<OnBuffer("sddmm", m, a), OnBuffer("row_ids", m, a)>>

(* The launches of one product: the expansion only when this very buffer   *)
(* is not remembered.                                                      *)
ProductLaunches(m, a) ==
  IF Kept(m, a) THEN <<OnBuffer("sddmm", m, a)>>
  ELSE <<OnBuffer("row_ids", m, a), OnBuffer("sddmm", m, a)>>

(* Either launch may fail; the first one's success is enough for the       *)
(* buffer to be remembered.                                                *)
Product(m, a) ==
  /\ Samples(m)
  /\ LET ops == ProductLaunches(m, a)
     IN  /\ HasRoom(Len(ops))
         /\ \E k \in 1..Len(ops) :
              queue' = [queue EXCEPT ![stream] = @ \o SubSeq(ops, 1, k)]
  /\ desc' = [desc EXCEPT ![m].sddmm_row_ids_buffer = a]
  /\ UNCHANGED <<mem, stream>>

ChangeStream(s) ==
  /\ Synced => queue[stream] = <<>>
  /\ SetStream(s)

OnMatrix(m) ==
  \/ \E p \in Patterns : CreateMat(m, "CSR", p)
  \/ DestroyMat(m)
  \/ \E p \in Patterns : CsrSetPointers(m, p)
  \/ \E a \in Scratch[m] : Preprocess(m, a) \/ Product(m, a)

Next ==
  \/ \E m \in Matrices : OnMatrix(m)
  \/ \E s \in Streams : ChangeStream(s)
  \/ \E s \in Streams : RunKernel(s)

Init == SpMatInit

Spec == Init /\ [][Next]_matVars

----------------------------------------------------------------------------
TypeOK == SpMatTypeOK

PrivateScratch ==
  \A m, n \in Matrices : m # n => Scratch[m] \cap Scratch[n] = {}

(* A product that starts finds the row ids of the very arrays it samples:  *)
(* "it survives every change of A, B, alpha, beta" (src/ops/sddmm.cpp      *)
(* preprocess), a change of buffer, of arrays and of stream included.      *)
ReadsOwnRowIds ==
  \A s \in Streams : queue[s] # <<>> => Satisfied(Head(queue[s]), mem)

Expands(op, a) == op.kernel = "row_ids" /\ op.at = a

(* A buffer a descriptor remembers holds the row ids of its arrays once    *)
(* the launches outstanding on it have run: a skipped expansion is never   *)
(* missed (src/ops/sddmm.cpp run).                                         *)
RememberedIdsArrive ==
  \A m \in Matrices : desc[m] # NULL /\ desc[m].sddmm_row_ids_buffer # NULL =>
    LET a == desc[m].sddmm_row_ids_buffer
    IN  \/ mem[a] = RowIds(desc[m].arrays)
        \/ \E op \in Pending : Expands(op, a) /\ op.arrays = desc[m].arrays
=============================================================================
