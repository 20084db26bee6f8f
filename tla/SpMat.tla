------------------------------- MODULE SpMat -------------------------------
(***************************************************************************)
(* The sparse-matrix descriptor (SpMatDescr, src/core/internal.hpp), the   *)
(* facts the library caches on it (src/core/csr_meta.cpp), the caller's    *)
(* scratch memory those facts point into, and the device streams that run  *)
(* the kernels the operators launch.  The operators' modules extend this   *)
(* one and add their calls.  A definition whose comment begins "Slip" is a *)
(* mistake the code could have made; nothing uses it.                      *)
(*                                                                         *)
(* The index arrays of a matrix are one element of Patterns; what the      *)
(* library computes from them (number of nonzeros, longest row, whether    *)
(* COO entries are sorted by row) are functions of the pattern.  A         *)
(* matrix is the address of its descriptor: destroying one and creating    *)
(* another may well reuse the address.                                     *)
(*                                                                         *)
(* A call of the C API is atomic (a handle belongs to one host thread),    *)
(* the copies between host and device it makes are synchronous, and a      *)
(* kernel launch appends to the handle's current stream.  The device runs  *)
(* each stream in order and orders nothing between two streams.            *)
(***************************************************************************)
EXTENDS Integers, Sequences

CONSTANTS
  Matrices,    \* addresses of sparse-matrix descriptors
  Addresses,   \* device addresses handed over as externalBuffer
  Streams,     \* device streams
  Patterns,    \* contents a matrix's index arrays may have
  Nnz,         \* Nnz[p]: number of stored entries
  LongestRow,  \* LongestRow[p]: longest run of the offsets array
  RowSorted,   \* RowSorted[p]: the COO entries are sorted by row, in range
  MaxPending,  \* bound: launches a stream may have outstanding
  NULL

OffsetFormats == {"CSR", "CSC", "BSR"}
Formats == OffsetFormats \cup {"COO", "SELL"}

(* SpMatDescr: the arrays, and the facts the library caches about them.    *)
Descr == [format : Formats, arrays : Patterns,
          max_row_nnz : Nat \cup {-1},
          coo_offsets_buffer : Addresses \cup {NULL},
          sddmm_row_ids_buffer : Addresses \cup {NULL}]

ASSUME SpMatAssumption ==
  /\ Nnz \in [Patterns -> Nat]
  /\ LongestRow \in [Patterns -> Nat]
  /\ \A p \in Patterns : Nnz[p] = 0 => LongestRow[p] = 0 /\ RowSorted[p]
  /\ RowSorted \in [Patterns -> BOOLEAN]
  /\ MaxPending \in Nat
  /\ NULL \notin Matrices \cup Addresses \cup Patterns \cup Descr

VARIABLES
  desc,    \* desc[m]: the descriptor at address m, NULL when there is none
  mem,     \* mem[a]: what the caller's memory at address a holds
  queue,   \* queue[s]: the launches stream s has yet to run
  stream   \* the handle's stream

matVars == <<desc, mem, queue, stream>>

(* Contents of scratch memory, named after what was written and for which  *)
(* arrays.                                                                 *)
Offsets(p) == <<"offsets", p>>
RowIds(p)  == <<"row_ids", p>>
InUse(s)   == <<"in_use", s>>  \* by the kernel stream s is running
Cleared    == <<"cleared", NULL>>
Garbage    == <<"garbage", NULL>>
Contents   == {Garbage, Cleared} \cup {Offsets(p) : p \in Patterns}
                                 \cup {RowIds(p) : p \in Patterns}
                                 \cup {InUse(s) : s \in Streams}

(* A launched kernel: the matrix and arrays it was given by value, the     *)
(* scratch it reads or writes, and the compile-time bound of its segment   *)
(* loop (0 when the kernel has none).                                      *)
Kernels == {"scale", "csr_rowpar", "coo_seg", "csc_trans", "csc_atomic",
            "bsr_atomic", "spmm_csr", "spmm_rowrun", "row_ids", "sddmm",
            "spsv_csr", "spsv_coo", "spsv_sell"}
Launches == [kernel : Kernels, mat : Matrices, arrays : Patterns,
             at : Addresses \cup {NULL}, segments : Nat]

SpMatTypeOK ==
  /\ desc \in [Matrices -> Descr \cup {NULL}]
  /\ mem \in [Addresses -> Contents]
  /\ queue \in [Streams -> Seq(Launches)]
  /\ stream \in Streams

SpMatInit ==
  /\ desc = [m \in Matrices |-> NULL]
  /\ mem = [a \in Addresses |-> Garbage]
  /\ queue = [s \in Streams |-> <<>>]
  /\ stream \in Streams

----------------------------------------------------------------------------
(* Descriptors *)

NewDescr(f, p) ==
  [format |-> f, arrays |-> p, max_row_nnz |-> -1,
   coo_offsets_buffer |-> NULL, sddmm_row_ids_buffer |-> NULL]

(* Arrays that come with an offsets array have their entries in row order; *)
(* only COO arrays can be out of it.                                       *)
Describes(f, p) == f # "COO" => RowSorted[p]

CreateMat(m, f, p) ==
  /\ desc[m] = NULL
  /\ Describes(f, p)
  /\ desc' = [desc EXCEPT ![m] = NewDescr(f, p)]
  /\ UNCHANGED <<mem, queue, stream>>

Pending == UNION {{queue[s][i] : i \in 1..Len(queue[s])} : s \in Streams}

(* The caller frees the arrays with the descriptor, so it has waited for   *)
(* the kernels that read them.                                             *)
DestroyMat(m) ==
  /\ desc[m] # NULL
  /\ \A op \in Pending : op.mat # m
  /\ desc' = [desc EXCEPT ![m] = NULL]
  /\ UNCHANGED <<mem, queue, stream>>

(* Slip: the cached facts outlive the arrays they were read from.          *)
CsrSetPointersOnly(m, p) ==
  /\ desc[m] # NULL /\ desc[m].format = "CSR" /\ Describes("CSR", p)
  /\ Nnz[p] = Nnz[desc[m].arrays]
  /\ desc' = [desc EXCEPT ![m].arrays = p]
  /\ UNCHANGED <<mem, queue, stream>>

(* nnz is not a parameter of the call: the new arrays have as many entries *)
(* as the old ones.                                                        *)
CsrSetPointers(m, p) ==
  /\ desc[m] # NULL
  /\ desc[m].format = "CSR"
  /\ Describes("CSR", p)
  /\ Nnz[p] = Nnz[desc[m].arrays]
  /\ desc' = [desc EXCEPT ![m] = NewDescr("CSR", p)]
  /\ UNCHANGED <<mem, queue, stream>>

SetStream(s) ==
  /\ stream' = s
  /\ UNCHANGED <<desc, mem, queue>>

----------------------------------------------------------------------------
(* Facts read back from the index arrays *)

(* The readback fails or succeeds; a failure changes nothing.              *)
EnsureMaxRowNnz(d) ==
  IF d.max_row_nnz >= 0 THEN d
                        ELSE [d EXCEPT !.max_row_nnz = LongestRow[d.arrays]]

(* A failed upload may have written some of the bytes.  Those are harmless *)
(* only over a copy of the same bytes.                                     *)
TornUpload(mm, a, c) == IF mm[a] = c THEN mm ELSE [mm EXCEPT ![a] = Garbage]

(* Slip: the rows are not scanned.                                         *)
PassesUnscanned(d) == TRUE

PassesScan(d) == RowSorted[d.arrays]

(* Slip: the address is recorded before the upload, which may fail.        *)
RecordedFirst(d, a, uploaded) ==
  [d EXCEPT !.max_row_nnz = LongestRow[d.arrays], !.coo_offsets_buffer = a]

(* The address is recorded only once the offsets are in the buffer.        *)
Recorded(d, a, uploaded) ==
  [d EXCEPT !.max_row_nnz = LongestRow[d.arrays],
            !.coo_offsets_buffer = IF uploaded THEN a ELSE @]

(* What build_coo_row_offsets may do to descriptor d and memory mm:        *)
BuildCooRowOffsets(d, mm, a) ==
  LET image   == Offsets(d.arrays)
      refused == [ok |-> FALSE, d |-> d, mem |-> mm]
      torn    == {[ok |-> FALSE, d |-> Recorded(d, a, FALSE), mem |-> w] :
                    w \in {mm, TornUpload(mm, a, image)}}
      done    == [ok |-> TRUE, d |-> Recorded(d, a, TRUE),
                  mem |-> [mm EXCEPT ![a] = image]]
  IN  (IF Nnz[d.arrays] > 0 THEN {refused} ELSE {})
        \cup (IF PassesScan(d) THEN {done} \cup torn ELSE {})

----------------------------------------------------------------------------
(* The device *)

HasRoom(n) == Len(queue[stream]) + n <= MaxPending

(* The launches of one call, in order.  The first that fails ends the      *)
(* call, so what reaches the stream is a prefix.                           *)
LaunchInOrder(ops) ==
  /\ HasRoom(Len(ops))
  /\ \E k \in 0..Len(ops) :
       queue' = [queue EXCEPT ![stream] = @ \o SubSeq(ops, 1, k)]

RunKernel(s) ==
  /\ queue[s] # <<>>
  /\ LET op == Head(queue[s])
     IN  mem' = IF op.kernel = "row_ids"
                THEN [mem EXCEPT ![op.at] = RowIds(op.arrays)]
                ELSE mem
  /\ queue' = [queue EXCEPT ![s] = Tail(@)]
  /\ UNCHANGED <<desc, stream>>

(* What a kernel must find at its scratch address to compute its product.  *)
ReadsOffsets(op) == /\ op.kernel \in {"csr_rowpar", "coo_seg", "spmm_rowrun"}
                    /\ op.at # NULL
Satisfied(op, mm) ==
  /\ ReadsOffsets(op) => mm[op.at] = Offsets(op.arrays)
  /\ op.kernel = "sddmm" => mm[op.at] = RowIds(op.arrays)
=============================================================================
