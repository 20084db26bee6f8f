--------------------------- MODULE SpMVSpMMProofs ---------------------------
(***************************************************************************)
(* What SpMVSpMM promises for any number of matrices, buffers and streams, *)
(* any index arrays and any segment width.  That a kernel finds its own    *)
(* offsets takes a caller that hands no buffer over with two matrices; how *)
(* far a kernel goes, and that unsorted entries never reach one, takes     *)
(* nothing.                                                                *)
(***************************************************************************)
EXTENDS SpMVSpMM, SequenceTheorems, TLAPS

(* Facts about builds, readbacks and queues *)

(* What a build may leave of descriptor d and memory mm: nothing but the   *)
(* buffer is written, a buffer already right stays right, and the address  *)
(* is recorded only on success.                                            *)
SoundBuild(d, mm, a, r) ==
  /\ r.ok \in BOOLEAN
  /\ r.d \in Descr
  /\ r.mem \in [Addresses -> Contents]
  /\ r.d.format = d.format
  /\ r.d.arrays = d.arrays
  /\ r.d.max_row_nnz \in {d.max_row_nnz, LongestRow[d.arrays]}
  /\ \A b \in Addresses : b # a => r.mem[b] = mm[b]
  /\ mm[a] = Offsets(d.arrays) => r.mem[a] = Offsets(d.arrays)
  /\ r.ok => /\ RowSorted[d.arrays]
             /\ r.mem[a] = Offsets(d.arrays)
             /\ r.d.coo_offsets_buffer = a
             /\ r.d.max_row_nnz = LongestRow[d.arrays]
  /\ ~r.ok => r.d.coo_offsets_buffer = d.coo_offsets_buffer

LEMMA BuildOutcome ==
  ASSUME NEW d \in Descr, NEW mm \in [Addresses -> Contents],
         NEW a \in Addresses, NEW r \in BuildCooRowOffsets(d, mm, a)
  PROVE  SoundBuild(d, mm, a, r)
<1> DEFINE image == Offsets(d.arrays)
<1>1. d.arrays \in Patterns /\ LongestRow[d.arrays] \in Nat
  BY SpMatAssumption DEF Descr
<1>2. image \in Contents /\ Garbage \in Contents
  BY <1>1 DEF Contents
<1> DEFINE counted == [d EXCEPT !.max_row_nnz = LongestRow[d.arrays]]
           recorded == [counted EXCEPT !.coo_offsets_buffer = a]
<1>3. /\ counted \in Descr
      /\ counted.format = d.format /\ counted.arrays = d.arrays
      /\ counted.max_row_nnz = LongestRow[d.arrays]
      /\ counted.coo_offsets_buffer = d.coo_offsets_buffer
  BY <1>1 DEF Descr
<1>4. /\ recorded \in Descr
      /\ recorded.format = d.format /\ recorded.arrays = d.arrays
      /\ recorded.max_row_nnz = LongestRow[d.arrays]
      /\ recorded.coo_offsets_buffer = a
  BY <1>1 DEF Descr
<1>5. \/ r = [ok |-> FALSE, d |-> d, mem |-> mm]
      \/ /\ RowSorted[d.arrays]
         /\ \/ r = [ok |-> TRUE, d |-> recorded,
                    mem |-> [mm EXCEPT ![a] = image]]
            \/ r = [ok |-> FALSE, d |-> counted, mem |-> mm]
            \/ r = [ok |-> FALSE, d |-> counted,
                    mem |-> TornUpload(mm, a, image)]
  BY DEF BuildCooRowOffsets, Recorded, PassesScan
<1>6. /\ TornUpload(mm, a, image) \in [Addresses -> Contents]
      /\ \A b \in Addresses : b # a => TornUpload(mm, a, image)[b] = mm[b]
      /\ mm[a] = image => TornUpload(mm, a, image)[a] = image
  BY <1>2 DEF TornUpload
<1>7. /\ [mm EXCEPT ![a] = image] \in [Addresses -> Contents]
      /\ [mm EXCEPT ![a] = image][a] = image
      /\ \A b \in Addresses : b # a => [mm EXCEPT ![a] = image][b] = mm[b]
  BY <1>2
<1> HIDE DEF image, counted, recorded
<1>8. CASE r = [ok |-> FALSE, d |-> d, mem |-> mm]
  BY <1>8 DEF SoundBuild
<1>9. CASE /\ RowSorted[d.arrays]
           /\ r = [ok |-> TRUE, d |-> recorded,
                   mem |-> [mm EXCEPT ![a] = image]]
  BY <1>4, <1>7, <1>9 DEF image, SoundBuild
<1>10. CASE r = [ok |-> FALSE, d |-> counted, mem |-> mm]
  BY <1>3, <1>10 DEF SoundBuild
<1>11. CASE r = [ok |-> FALSE, d |-> counted,
                 mem |-> TornUpload(mm, a, image)]
  BY <1>3, <1>6, <1>11 DEF image, SoundBuild
<1> QED BY <1>5, <1>8, <1>9, <1>10, <1>11

(* The readback records the longest row and nothing else.                  *)
LEMMA EnsureOutcome ==
  ASSUME NEW d \in Descr
  PROVE  LET e == EnsureMaxRowNnz(d) IN
         /\ e \in Descr
         /\ e.format = d.format /\ e.arrays = d.arrays
         /\ e.coo_offsets_buffer = d.coo_offsets_buffer
         /\ e.max_row_nnz \in Nat
         /\ e.max_row_nnz = IF d.max_row_nnz >= 0 THEN d.max_row_nnz
                            ELSE LongestRow[d.arrays]
<1>1. d.arrays \in Patterns /\ LongestRow[d.arrays] \in Nat
  BY SpMatAssumption DEF Descr
<1>2. CASE d.max_row_nnz >= 0
  BY <1>2 DEF EnsureMaxRowNnz, Descr
<1>3. CASE ~(d.max_row_nnz >= 0)
  BY <1>1, <1>3 DEF EnsureMaxRowNnz, Descr
<1> QED BY <1>2, <1>3

LEMMA PendingTyped ==
  ASSUME SpMatTypeOK
  PROVE  Pending \subseteq Launches
<1>1. ASSUME NEW s \in Streams, NEW i \in 1..Len(queue[s])
      PROVE  queue[s][i] \in Launches
  <2>1. queue[s] \in Seq(Launches) BY DEF SpMatTypeOK
  <2> QED BY <2>1
<1> QED BY <1>1 DEF Pending

(* A call's launches join its own stream and no other.                     *)
LEMMA LaunchOutcome ==
  ASSUME SpMatTypeOK, NEW ops \in Seq(Launches), LaunchInOrder(ops)
  PROVE  /\ queue' \in [Streams -> Seq(Launches)]
         /\ Pending' \subseteq Pending \cup {ops[j] : j \in 1..Len(ops)}
<1>1. PICK k \in 0..Len(ops) :
        queue' = [queue EXCEPT ![stream] = @ \o SubSeq(ops, 1, k)]
  BY DEF LaunchInOrder
<1> DEFINE new == SubSeq(ops, 1, k)
<1>2. /\ new \in Seq(Launches) /\ Len(new) = k
      /\ \A j \in 1..k : new[j] = ops[j]
  BY SubSeqProperties
<1>3. queue \in [Streams -> Seq(Launches)] /\ stream \in Streams
  BY DEF SpMatTypeOK
<1> DEFINE all == queue[stream] \o new
<1>4. /\ all \in Seq(Launches)
      /\ \A i \in 1..Len(all) :
           \/ \E j \in 1..Len(queue[stream]) : all[i] = queue[stream][j]
           \/ \E j \in 1..k : all[i] = ops[j]
  BY <1>2, <1>3
<1> HIDE DEF new, all
<1>5. queue' = [queue EXCEPT ![stream] = all]
  BY <1>1 DEF all, new
<1>6. queue' \in [Streams -> Seq(Launches)]
  BY <1>3, <1>4, <1>5
<1>7. ASSUME NEW s \in Streams, NEW i \in 1..Len(queue'[s])
      PROVE  queue'[s][i] \in Pending \cup {ops[j] : j \in 1..Len(ops)}
  <2>1. CASE s # stream
    BY <1>3, <1>5, <1>7, <2>1 DEF Pending
  <2>2. CASE s = stream
    BY <1>3, <1>4, <1>5, <1>7, <2>2 DEF Pending
  <2> QED BY <2>1, <2>2
<1> QED BY <1>6, <1>7 DEF Pending

LEMMA RunOutcome ==
  ASSUME SpMatTypeOK, NEW s \in Streams, queue[s] # <<>>,
         queue' = [queue EXCEPT ![s] = Tail(@)]
  PROVE  /\ queue' \in [Streams -> Seq(Launches)]
         /\ Pending' \subseteq Pending
         /\ Head(queue[s]) \in Pending
<1>1. queue[s] \in Seq(Launches) BY DEF SpMatTypeOK
<1>2. /\ Tail(queue[s]) \in Seq(Launches)
      /\ Len(queue[s]) \in Nat \ {0}
      /\ Head(queue[s]) = queue[s][1]
      /\ \A i \in 1..Len(Tail(queue[s])) :
           /\ i + 1 \in 1..Len(queue[s])
           /\ Tail(queue[s])[i] = queue[s][i + 1]
  BY <1>1, HeadTailProperties, EmptySeq
<1>3. ASSUME NEW t \in Streams, NEW i \in 1..Len(queue'[t])
      PROVE  queue'[t][i] \in Pending
  <2>1. CASE t # s BY <2>1, <1>3 DEF SpMatTypeOK, Pending
  <2>2. CASE t = s BY <2>2, <1>2, <1>3 DEF SpMatTypeOK, Pending
  <2> QED BY <2>1, <2>2
<1> QED BY <1>1, <1>2, <1>3 DEF Pending, SpMatTypeOK

----------------------------------------------------------------------------
(* The inductive invariants *)

(* Asked of nobody: a descriptor's caches speak of its own arrays.         *)
FactsOK(d) ==
  /\ d.max_row_nnz >= 0 => d.max_row_nnz = LongestRow[d.arrays]
  /\ d.coo_offsets_buffer # NULL =>
       d.format = "COO" /\ d.max_row_nnz >= 0 /\ RowSorted[d.arrays]

(* A pending launch reaches the end of the longest row, and what reads     *)
(* offsets reads them of sorted entries.                                   *)
Counted(op) ==
  /\ op.kernel \notin {"row_ids", "sddmm"}
  /\ op.kernel \in Segmented =>
       op.segments * BlockNnz[op.kernel] >= LongestRow[op.arrays]
  /\ ReadsOffsets(op) => RowSorted[op.arrays]

CountedInv ==
  /\ TypeOK
  /\ \A m \in Matrices : desc[m] # NULL => FactsOK(desc[m])
  /\ \A op \in Pending : Counted(op)

(* With private buffers: the offsets a descriptor remembers are still in   *)
(* the buffer, one of its own.                                             *)
CacheOK(m) ==
  LET d == desc[m] IN
  /\ FactsOK(d)
  /\ d.coo_offsets_buffer # NULL =>
       /\ d.coo_offsets_buffer \in Scratch[m]
       /\ mem[d.coo_offsets_buffer] = Offsets(d.arrays)

(* A pending launch that reads offsets belongs to a living COO descriptor  *)
(* whose arrays have not been replaced, and its scratch holds them.        *)
LaunchOK(op) ==
  /\ Counted(op)
  /\ ReadsOffsets(op) =>
       /\ desc[op.mat] # NULL
       /\ desc[op.mat].format = "COO"
       /\ desc[op.mat].arrays = op.arrays
       /\ op.at \in Scratch[op.mat]
       /\ mem[op.at] = Offsets(op.arrays)

IInv ==
  /\ TypeOK
  /\ \A m \in Matrices : desc[m] # NULL => CacheOK(m)
  /\ \A op \in Pending : LaunchOK(op)

----------------------------------------------------------------------------
(* Facts about the operators *)

(* As many segments as the rounded-up quotient cover the row.              *)
LEMMA CeilingCovers ==
  ASSUME NEW L \in Nat, NEW B \in Nat \ {0}
  PROVE  /\ (L + B - 1) \div B \in Nat
         /\ ((L + B - 1) \div B) * B >= L
<1> DEFINE n == L + B - 1
           q == n \div B
           r == n % B
<1>1. n \in Nat OBVIOUS
<1>2. q \in Int /\ r \in 0..(B - 1) /\ n = B * q + r
  BY <1>1
<1>3. q \in Nat BY <1>1, <1>2
<1>4. B * q >= n - (B - 1) BY <1>1, <1>2
<1> HIDE DEF q, r
<1>5. q * B >= L BY <1>3, <1>4
<1> QED BY <1>3, <1>5 DEF q

LEMMA SegmentsCover ==
  ASSUME NEW k \in Segmented, NEW L \in Nat
  PROVE  /\ Segments(k, L) \in Nat
         /\ Segments(k, L) * BlockNnz[k] >= L
<1> DEFINE B == BlockNnz[k]
           n == (L + B - 1) \div B
<1>1. B \in Nat \ {0} BY SpMVAssumption
<1>2. n \in Nat /\ n * B >= L BY <1>1, CeilingCovers
<1>3. Segments(k, L) = IF n < 1 THEN 1 ELSE n BY DEF Segments
<1> HIDE DEF n, B
<1>4. CASE n < 1
  <2>1. n = 0 BY <1>2, <1>4
  <2>2. L = 0 BY <2>1, <1>1, <1>2
  <2> QED BY <1>1, <1>3, <1>4, <2>2 DEF B
<1>5. CASE ~(n < 1) BY <1>2, <1>3, <1>5 DEF B
<1> QED BY <1>4, <1>5

(* A launch is typed, and covers the longest row when the cache it is      *)
(* sized from says how long that is.                                       *)
LEMMA LaunchedOutcome ==
  ASSUME NEW k \in Kernels, NEW m \in Matrices, NEW d \in Descr,
         NEW a \in Addresses \cup {NULL},
         d.max_row_nnz = LongestRow[d.arrays]
  PROVE  LET op == Launched(k, m, d, a) IN
         /\ op \in Launches
         /\ op.kernel = k /\ op.mat = m /\ op.arrays = d.arrays /\ op.at = a
         /\ k \in Segmented =>
              op.segments * BlockNnz[k] >= LongestRow[op.arrays]
<1>1. d.arrays \in Patterns /\ LongestRow[d.arrays] \in Nat
  BY SpMatAssumption DEF Descr
<1>2. CASE k \in Segmented
  <2>1. /\ Segments(k, d.max_row_nnz) \in Nat
        /\ Segments(k, d.max_row_nnz) * BlockNnz[k] >= LongestRow[d.arrays]
    BY <1>1, <1>2, SegmentsCover
  <2> QED BY <1>1, <1>2, <2>1 DEF Launched, Launches
<1>3. CASE k \notin Segmented
  BY <1>1, <1>3 DEF Launched, Launches
<1> QED BY <1>2, <1>3

LEMMA MaxAfterEnsure ==
  ASSUME CountedInv, NEW m \in Matrices, desc[m] # NULL
  PROVE  LET e == EnsureMaxRowNnz(desc[m]) IN
         /\ desc[m] \in Descr
         /\ e \in Descr
         /\ e.format = desc[m].format /\ e.arrays = desc[m].arrays
         /\ e.coo_offsets_buffer = desc[m].coo_offsets_buffer
         /\ e.max_row_nnz = LongestRow[e.arrays]
<1>1. desc[m] \in Descr BY DEF CountedInv, TypeOK, SpMatTypeOK
<1>2. FactsOK(desc[m]) BY DEF CountedInv
<1> QED BY <1>1, <1>2, EnsureOutcome DEF FactsOK

(* Launches over arrays that come with their offsets read no scratch.      *)
ScratchFree(ops) ==
  /\ ops \in Seq(Launches)
  /\ \A j \in 1..Len(ops) : Counted(ops[j]) /\ ~ReadsOffsets(ops[j])

LEMMA RoutesAre ==
  ASSUME NEW m \in Matrices, NEW d \in Descr, d.format \in OffsetFormats,
         d.max_row_nnz = LongestRow[d.arrays],
         NEW ops \in OffsetRoutes(m, d) \cup {<<Launched("spmm_csr", m, d, NULL)>>}
  PROVE  ScratchFree(ops)
<1>1. ASSUME NEW k \in Kernels \ {"row_ids", "sddmm"}
      PROVE  LET op == Launched(k, m, d, NULL)
             IN  op \in Launches /\ Counted(op) /\ ~ReadsOffsets(op)
  BY LaunchedOutcome DEF Counted, ReadsOffsets
<1>2. PICK scale : scale = Launched("scale", m, d, NULL) OBVIOUS
<1>3. \E k \in Kernels \ {"row_ids", "sddmm"} :
        LET main == Launched(k, m, d, NULL)
        IN  ops \in {<<scale>>, <<main>>, <<scale, main>>}
  <2> DEFINE one(k) == Launched(k, m, d, NULL)
  <2>1. CASE ops = <<one("spmm_csr")>> BY <2>1 DEF Kernels
  <2>2. CASE d.format = "CSR" /\ ops \in OffsetRoutes(m, d)
    <3>1. ops = <<one("csr_rowpar")>> BY <2>2 DEF OffsetRoutes
    <3> QED BY <3>1 DEF Kernels
  <2>3. CASE d.format = "CSC" /\ ops \in OffsetRoutes(m, d)
    <3>1. \/ ops = <<one("csc_trans")>>
          \/ ops = <<one("scale"), one("csc_atomic")>>
      BY <2>3 DEF OffsetRoutes
    <3> QED BY <1>2, <3>1 DEF Kernels
  <2>4. CASE d.format = "BSR" /\ ops \in OffsetRoutes(m, d)
    <3>1. \/ ops = <<one("scale")>>
          \/ ops = <<one("scale"), one("bsr_atomic")>>
      BY <2>4 DEF OffsetRoutes
    <3> QED BY <1>2, <3>1 DEF Kernels
  <2> QED BY <2>1, <2>2, <2>3, <2>4 DEF OffsetFormats
<1>4. scale \in Launches /\ Counted(scale) /\ ~ReadsOffsets(scale)
  <2>1. "scale" \in Kernels \ {"row_ids", "sddmm"} BY DEF Kernels
  <2> QED BY <1>1, <1>2, <2>1
<1>5. PICK k \in Kernels \ {"row_ids", "sddmm"} :
        LET main == Launched(k, m, d, NULL)
        IN  ops \in {<<scale>>, <<main>>, <<scale, main>>}
  BY <1>3
<1> DEFINE main == Launched(k, m, d, NULL)
<1>6. main \in Launches /\ Counted(main) /\ ~ReadsOffsets(main) BY <1>1, <1>5
<1> HIDE DEF main
<1>7. CASE ops = <<scale>> BY <1>4, <1>7 DEF ScratchFree
<1>8. CASE ops = <<main>> BY <1>6, <1>8 DEF ScratchFree
<1>9. CASE ops = <<scale, main>>
  BY <1>4, <1>6, <1>9 DEF ScratchFree
<1> QED BY <1>5, <1>7, <1>8, <1>9 DEF main

LEMMA NewDescrTyped ==
  ASSUME NEW f \in Formats, NEW p \in Patterns
  PROVE  /\ NewDescr(f, p) \in Descr
         /\ NewDescr(f, p).max_row_nnz = -1
         /\ NewDescr(f, p).coo_offsets_buffer = NULL
BY DEF NewDescr, Descr

(* What the calls over an offsets array the matrix came with do.           *)
LEMMA OffsetCallsDo ==
  ASSUME CountedInv, NEW m \in Matrices, SpMVOffsets(m) \/ SpMMCsr(m)
  PROVE  /\ desc[m] # NULL /\ desc[m].format \in OffsetFormats
         /\ desc' = [desc EXCEPT ![m] = EnsureMaxRowNnz(desc[m])]
         /\ UNCHANGED <<mem, stream>>
         /\ \E ops : LaunchInOrder(ops) /\ ScratchFree(ops)
<1>1. PICK d : d = EnsureMaxRowNnz(desc[m]) OBVIOUS
<1>2. /\ desc[m] # NULL /\ desc[m].format \in OffsetFormats
      /\ desc' = [desc EXCEPT ![m] = d] /\ UNCHANGED <<mem, stream>>
  BY <1>1 DEF SpMVOffsets, SpMMCsr, OffsetFormats
<1>3. PICK ops \in OffsetRoutes(m, d) \cup {<<Launched("spmm_csr", m, d, NULL)>>} :
        LaunchInOrder(ops)
  BY <1>1 DEF SpMVOffsets, SpMMCsr
<1>4. /\ d \in Descr /\ d.format \in OffsetFormats
      /\ d.max_row_nnz = LongestRow[d.arrays]
  BY <1>1, <1>2, MaxAfterEnsure
<1>5. ScratchFree(ops) BY <1>3, <1>4, RoutesAre
<1> QED BY <1>1, <1>2, <1>3, <1>5

----------------------------------------------------------------------------
(* How the calls keep the part of the invariant asked of nobody *)

(* A step that replaces one descriptor by one whose caches are true, and   *)
(* launches what is sized from them.                                       *)
LEMMA StepCounted ==
  ASSUME CountedInv, NEW m \in Matrices, NEW d \in Descr \cup {NULL},
         desc' = [desc EXCEPT ![m] = d], d # NULL => FactsOK(d),
         mem' \in [Addresses -> Contents], stream' \in Streams,
         queue' \in [Streams -> Seq(Launches)],
         \A op \in Pending' : op \in Pending \/ Counted(op)
  PROVE  CountedInv'
<1>1. TypeOK' BY DEF CountedInv, TypeOK, SpMatTypeOK
<1>2. \A n \in Matrices : desc'[n] # NULL => FactsOK(desc'[n])
  BY DEF CountedInv, TypeOK, SpMatTypeOK
<1>3. \A op \in Pending' : Counted(op) BY DEF CountedInv
<1> QED BY <1>1, <1>2, <1>3 DEF CountedInv, FactsOK, Counted, ReadsOffsets

(* A step that leaves the descriptors alone and launches nothing.          *)
LEMMA QuietCounted ==
  ASSUME CountedInv, TypeOK', UNCHANGED desc, Pending' \subseteq Pending
  PROVE  CountedInv'
BY DEF CountedInv, FactsOK, Counted, ReadsOffsets

LEMMA LaunchesCounted ==
  ASSUME TypeOK, NEW ops \in Seq(Launches), LaunchInOrder(ops),
         \A j \in 1..Len(ops) : Counted(ops[j])
  PROVE  /\ queue' \in [Streams -> Seq(Launches)]
         /\ \A op \in Pending' : op \in Pending \/ Counted(op)
BY LaunchOutcome DEF TypeOK

(* A build that reports success leaves true caches, and so does one that   *)
(* fails.                                                                  *)
LEMMA BuildCounted ==
  ASSUME NEW d \in Descr, d.format = "COO", FactsOK(d),
         NEW mm \in [Addresses -> Contents], NEW a \in Addresses,
         NEW r \in BuildCooRowOffsets(d, mm, a)
  PROVE  /\ r.d \in Descr /\ r.mem \in [Addresses -> Contents] /\ FactsOK(r.d)
         /\ r.ok => r.d.max_row_nnz = LongestRow[r.d.arrays] /\ RowSorted[r.d.arrays]
<1>1. SoundBuild(d, mm, a, r) BY BuildOutcome
<1>2. LongestRow[d.arrays] \in Nat BY SpMatAssumption DEF Descr
<1> QED BY <1>1, <1>2 DEF SoundBuild, FactsOK

LEMMA OverCooOffsetsCounted ==
  ASSUME CountedInv, NEW m \in Matrices, NEW a \in Addresses,
         NEW k \in {"coo_seg", "csr_rowpar", "spmm_rowrun"},
         desc[m] # NULL, OverCooOffsets(m, a, k)
  PROVE  CountedInv'
<1> DEFINE skipped == [ok |-> TRUE, d |-> desc[m], mem |-> mem]
<1>1. /\ desc[m] \in Descr /\ mem \in [Addresses -> Contents]
      /\ stream \in Streams /\ UNCHANGED stream
      /\ desc[m].format = "COO" /\ FactsOK(desc[m])
  BY DEF CountedInv, TypeOK, SpMatTypeOK, OverCooOffsets
<1>2. PICK r \in IF desc[m].coo_offsets_buffer = a THEN {skipped}
                 ELSE BuildCooRowOffsets(desc[m], mem, a) :
        /\ desc' = [desc EXCEPT ![m] = r.d]
        /\ mem' = r.mem
        /\ IF r.ok THEN LaunchInOrder(<<Launched(k, m, r.d, a)>>)
                   ELSE UNCHANGED queue
  BY DEF OverCooOffsets, Remembers
<1>3. /\ r.d \in Descr /\ r.mem \in [Addresses -> Contents] /\ FactsOK(r.d)
      /\ r.ok => r.d.max_row_nnz = LongestRow[r.d.arrays] /\ RowSorted[r.d.arrays]
  <2>1. CASE desc[m].coo_offsets_buffer = a
    <3>1. r = skipped /\ a # NULL BY <1>2, <2>1, SpMatAssumption
    <3> QED BY <1>1, <2>1, <3>1 DEF FactsOK
  <2>2. CASE desc[m].coo_offsets_buffer # a
    BY <1>1, <1>2, <2>2, BuildCounted
  <2> QED BY <2>1, <2>2
<1>4. /\ queue' \in [Streams -> Seq(Launches)]
      /\ \A op \in Pending' : op \in Pending \/ Counted(op)
  <2>1. CASE ~r.ok
    <3>1. UNCHANGED queue BY <1>2, <2>1
    <3> QED BY <3>1 DEF Pending, CountedInv, TypeOK, SpMatTypeOK
  <2>2. CASE r.ok
    <3>1. PICK op : op = Launched(k, m, r.d, a) OBVIOUS
    <3>2. k \in Kernels BY DEF Kernels
    <3>3. /\ op \in Launches /\ op.kernel = k /\ op.arrays = r.d.arrays
          /\ k \in Segmented =>
               op.segments * BlockNnz[k] >= LongestRow[op.arrays]
      BY <1>3, <2>2, <3>1, <3>2, LaunchedOutcome
    <3>4. Counted(op) BY <1>3, <2>2, <3>3 DEF Counted
    <3>5. /\ <<op>> \in Seq(Launches) /\ LaunchInOrder(<<op>>)
          /\ \A j \in 1..Len(<<op>>) : Counted(<<op>>[j])
      BY <1>2, <2>2, <3>1, <3>3, <3>4
    <3> QED BY <3>5, LaunchesCounted DEF CountedInv
  <2> QED BY <2>1, <2>2
<1> QED BY <1>1, <1>2, <1>3, <1>4, StepCounted

LEMMA OnMatrixCounted ==
  ASSUME CountedInv, NEW m \in Matrices, OnMatrix(m)
  PROVE  CountedInv'
<1>1. /\ mem \in [Addresses -> Contents] /\ stream \in Streams
      /\ queue \in [Streams -> Seq(Launches)]
  BY DEF CountedInv, TypeOK, SpMatTypeOK
<1>2. ASSUME NEW d \in Descr \cup {NULL}, desc' = [desc EXCEPT ![m] = d],
             UNCHANGED <<mem, queue, stream>>,
             d # NULL => d.max_row_nnz = -1 /\ d.coo_offsets_buffer = NULL
      PROVE  CountedInv'
  <2>1. d # NULL => FactsOK(d) BY <1>2 DEF FactsOK
  <2>2. Pending' = Pending BY <1>2 DEF Pending
  <2> QED BY <1>1, <1>2, <2>1, <2>2, StepCounted
<1>3. CASE \E f \in Formats, p \in Patterns : CreateMat(m, f, p)
  BY <1>2, <1>3, NewDescrTyped DEF CreateMat
<1>4. CASE DestroyMat(m)
  BY <1>2, <1>4 DEF DestroyMat
<1>5. CASE \E p \in Patterns : CsrSetPointers(m, p)
  <2>1. "CSR" \in Formats BY DEF Formats, OffsetFormats
  <2> QED BY <1>2, <1>5, <2>1, NewDescrTyped DEF CsrSetPointers
<1>6. desc[m] # NULL =>
        /\ EnsureMaxRowNnz(desc[m]) \in Descr
        /\ FactsOK(EnsureMaxRowNnz(desc[m]))
  <2> SUFFICES ASSUME desc[m] # NULL
               PROVE  /\ EnsureMaxRowNnz(desc[m]) \in Descr
                      /\ FactsOK(EnsureMaxRowNnz(desc[m]))
    OBVIOUS
  <2>1. FactsOK(desc[m]) /\ desc[m] \in Descr
    BY DEF CountedInv, TypeOK, SpMatTypeOK
  <2>2. LongestRow[desc[m].arrays] \in Nat BY <2>1, SpMatAssumption DEF Descr
  <2> QED BY <2>1, <2>2, MaxAfterEnsure DEF FactsOK
<1>7. CASE SpMVOffsets(m) \/ SpMMCsr(m)
  <2>1. /\ desc[m] # NULL /\ UNCHANGED <<mem, stream>>
        /\ desc' = [desc EXCEPT ![m] = EnsureMaxRowNnz(desc[m])]
    BY <1>7, OffsetCallsDo
  <2>2. PICK ops : LaunchInOrder(ops) /\ ScratchFree(ops)
    BY <1>7, OffsetCallsDo
  <2>3. /\ queue' \in [Streams -> Seq(Launches)]
        /\ \A op \in Pending' : op \in Pending \/ Counted(op)
    BY <2>2, LaunchesCounted DEF ScratchFree, CountedInv
  <2> QED BY <1>1, <1>6, <2>1, <2>3, StepCounted
<1>8. ASSUME NEW a \in Scratch[m], WithScratch(m, a), desc[m] # NULL
      PROVE  CountedInv'
  <2>1. a \in Addresses BY SpMVAssumption
  <2>2. CASE PreprocessCoo(m, a)
    <3>1. /\ desc[m] \in Descr /\ desc[m].format = "COO" /\ FactsOK(desc[m])
          /\ UNCHANGED <<queue, stream>>
      BY <1>8, <2>2 DEF PreprocessCoo, CountedInv, TypeOK, SpMatTypeOK
    <3>2. PICK r \in BuildCooRowOffsets(desc[m], mem, a) :
            desc' = [desc EXCEPT ![m] = r.d] /\ mem' = r.mem
      BY <2>2 DEF PreprocessCoo
    <3>3. r.d \in Descr /\ r.mem \in [Addresses -> Contents] /\ FactsOK(r.d)
      BY <1>1, <2>1, <3>1, BuildCounted
    <3>4. Pending' = Pending BY <3>1 DEF Pending
    <3> QED BY <1>1, <3>1, <3>2, <3>3, <3>4, StepCounted
  <2>3. CASE PreprocessOffsets(m)
    <3>1. Pending' = Pending BY <2>3 DEF PreprocessOffsets, Pending
    <3> QED BY <1>1, <1>6, <1>8, <2>3, <3>1, StepCounted DEF PreprocessOffsets
  <2>4. CASE \E k \in {"coo_seg", "csr_rowpar", "spmm_rowrun"} :
               OverCooOffsets(m, a, k)
    BY <1>8, <2>1, <2>4, OverCooOffsetsCounted
  <2> QED BY <1>8, <2>2, <2>3, <2>4
          DEF WithScratch, SpMVPreprocess, SpMMPreprocess, SpMVCoo, SpMMCoo
<1>9. \A a \in Scratch[m] : WithScratch(m, a) => desc[m] # NULL
  BY DEF WithScratch, SpMVPreprocess, SpMMPreprocess, SpMVCoo, SpMMCoo
<1> QED BY <1>3, <1>4, <1>5, <1>7, <1>8, <1>9 DEF OnMatrix

LEMMA NextCounted ==
  ASSUME CountedInv, [Next]_matVars
  PROVE  CountedInv'
<1>1. CASE \E m \in Matrices : OnMatrix(m)
  BY <1>1, OnMatrixCounted
<1>2. CASE \E s \in Streams : SetStream(s)
  BY <1>2, QuietCounted
     DEF SetStream, CountedInv, TypeOK, SpMatTypeOK, Pending
<1>3. CASE \E s \in Streams : RunKernel(s)
  <2>1. PICK s \in Streams : RunKernel(s) BY <1>3
  <2>2. /\ queue' \in [Streams -> Seq(Launches)] /\ Pending' \subseteq Pending
        /\ Head(queue[s]) \in Pending
    BY <2>1, RunOutcome DEF CountedInv, TypeOK, RunKernel
  <2>3. Head(queue[s]).kernel # "row_ids" BY <2>2 DEF CountedInv, Counted
  <2>4. UNCHANGED <<desc, mem, stream>> BY <2>1, <2>3 DEF RunKernel
  <2>5. TypeOK' BY <2>2, <2>4 DEF CountedInv, TypeOK, SpMatTypeOK
  <2> QED BY <2>2, <2>4, <2>5, QuietCounted
<1>4. CASE UNCHANGED matVars
  BY <1>4, QuietCounted DEF matVars, CountedInv, TypeOK, SpMatTypeOK, Pending
<1> QED BY <1>1, <1>2, <1>3, <1>4 DEF Next

(* What holds however buffers are shared: cached facts speak of their own  *)
(* arrays, and pending launches were sized from them                       *)
(* (src/core/csr_meta.cpp).                                                *)
THEOREM FactsAreTrue == Spec => []CountedInv
<1>1. Init => CountedInv
  <2> SUFFICES ASSUME Init PROVE CountedInv OBVIOUS
  <2>1. TypeOK BY DEF Init, SpMatInit, TypeOK, SpMatTypeOK, Contents
  <2>2. Pending = {} BY DEF Init, SpMatInit, Pending
  <2> QED BY <2>1, <2>2 DEF CountedInv, Init, SpMatInit
<1>2. CountedInv /\ [Next]_matVars => CountedInv' BY NextCounted
<1> QED BY <1>1, <1>2, PTL DEF Spec

(* Every call keeps the descriptors, the scratch and the queues typed.     *)
THEOREM TypeCorrect == Spec => []TypeOK
<1>1. CountedInv => TypeOK BY DEF CountedInv
<1> QED BY <1>1, FactsAreTrue, PTL

(* No launch is sized from a longest row that is not its arrays' own,      *)
(* whatever buffers are shared (ensure_max_row_nnz).                       *)
THEOREM SegmentsAreEnough == Spec => []SegmentsCoverLongestRow
<1>1. CountedInv => SegmentsCoverLongestRow
  BY DEF CountedInv, Counted, SegmentsCoverLongestRow
<1> QED BY <1>1, FactsAreTrue, PTL

(* Unsorted COO entries are refused on every path to a kernel, whatever    *)
(* buffers are shared (build_coo_row_offsets, run_coo).                    *)
THEOREM UnsortedIsRefused == Spec => []UnsortedCooNeverLaunched
<1>1. CountedInv => UnsortedCooNeverLaunched
  BY DEF CountedInv, Counted, UnsortedCooNeverLaunched
<1> QED BY <1>1, FactsAreTrue, PTL

----------------------------------------------------------------------------
(* How the calls' parts keep private buffers right *)

(* A build, or a skipped one, for m in a buffer of m's own.                *)
LEMMA BuildKeeps ==
  ASSUME IInv, PrivateScratch, NEW m \in Matrices, NEW a \in Scratch[m],
         desc[m] # NULL, desc[m].format = "COO",
         NEW r, SoundBuild(desc[m], mem, a, r),
         desc' = [desc EXCEPT ![m] = r.d], mem' = r.mem
  PROVE  /\ desc' \in [Matrices -> Descr \cup {NULL}]
         /\ mem' \in [Addresses -> Contents]
         /\ \A n \in Matrices : desc'[n] # NULL => CacheOK(n)'
         /\ \A op \in Pending : LaunchOK(op)'
<1>1. desc \in [Matrices -> Descr \cup {NULL}] /\ desc[m] \in Descr
  BY DEF IInv, TypeOK, SpMatTypeOK
<1>2. a \in Addresses /\ a # NULL
  BY SpMVAssumption, SpMatAssumption
<1>3. desc' \in [Matrices -> Descr \cup {NULL}]
  BY <1>1 DEF SoundBuild
<1>4. mem' \in [Addresses -> Contents]
  BY DEF SoundBuild
<1>5. desc'[m] = r.d /\ \A n \in Matrices : n # m => desc'[n] = desc[n]
  BY <1>1
<1>6. ASSUME NEW n \in Matrices, desc'[n] # NULL PROVE CacheOK(n)'
  <2>1. CASE n # m
    <3>1. desc'[n] = desc[n] /\ CacheOK(n)
      BY <1>5, <1>6, <2>1 DEF IInv
    <3>2. ASSUME desc[n].coo_offsets_buffer # NULL
          PROVE  mem'[desc[n].coo_offsets_buffer]
                   = mem[desc[n].coo_offsets_buffer]
      <4>1. desc[n].coo_offsets_buffer \in Scratch[n]
        BY <3>1, <3>2 DEF CacheOK, FactsOK
      <4> QED BY <4>1, <2>1, SpMVAssumption DEF PrivateScratch, SoundBuild
    <3> QED BY <3>1, <3>2 DEF CacheOK, FactsOK
  <2>2. CASE n = m
    <3>1. CacheOK(m) BY DEF IInv
    <3>2. LongestRow[desc[m].arrays] \in Nat
      BY <1>1, SpMatAssumption DEF Descr
    <3>3. r.d.max_row_nnz >= 0 => r.d.max_row_nnz = LongestRow[r.d.arrays]
      BY <3>1 DEF CacheOK, FactsOK, SoundBuild
    <3>4. CASE r.ok
      BY <1>5, <2>2, <3>2, <3>3, <3>4 DEF CacheOK, FactsOK, SoundBuild
    <3>5. CASE ~r.ok
      <4> DEFINE b == desc[m].coo_offsets_buffer
      <4>1. r.d.coo_offsets_buffer = b BY <3>5 DEF SoundBuild
      <4>2. CASE b = NULL
        BY <1>5, <2>2, <3>3, <4>1, <4>2 DEF CacheOK, FactsOK
      <4>3. CASE b # NULL
        <5>1. /\ b \in Scratch[m] /\ b \in Addresses
              /\ desc[m].max_row_nnz >= 0
              /\ RowSorted[desc[m].arrays]
              /\ mem[b] = Offsets(desc[m].arrays)
          BY <3>1, <4>3, SpMVAssumption DEF CacheOK, FactsOK
        <5>2. r.mem[b] = Offsets(desc[m].arrays)
          BY <5>1 DEF SoundBuild
        <5>3. r.d.max_row_nnz >= 0
          BY <5>1, <3>2 DEF SoundBuild
        <5>4. r.d.format = "COO" /\ r.d.arrays = desc[m].arrays
          BY DEF SoundBuild
        <5> QED BY <1>5, <2>2, <3>3, <4>1, <5>1, <5>2, <5>3, <5>4
                DEF CacheOK, FactsOK
      <4> QED BY <4>2, <4>3
    <3> QED BY <3>4, <3>5
  <2> QED BY <2>1, <2>2
<1>7. ASSUME NEW op \in Pending PROVE LaunchOK(op)'
  <2>1. LaunchOK(op) BY DEF IInv
  <2>2. op.mat \in Matrices
    BY PendingTyped DEF IInv, TypeOK, Launches
  <2>3. ASSUME ReadsOffsets(op)
        PROVE  /\ desc'[op.mat] # NULL
               /\ desc'[op.mat].format = "COO"
               /\ desc'[op.mat].arrays = op.arrays
               /\ mem'[op.at] = Offsets(op.arrays)
    <3>1. /\ desc[op.mat] # NULL /\ desc[op.mat].format = "COO"
          /\ desc[op.mat].arrays = op.arrays
          /\ op.at \in Scratch[op.mat] /\ mem[op.at] = Offsets(op.arrays)
      BY <2>1, <2>3 DEF LaunchOK, Counted
    <3>2. op.at \in Addresses BY <2>2, <3>1, SpMVAssumption
    <3>3. CASE op.mat # m
      <4>1. op.at # a BY <2>2, <3>1, <3>3 DEF PrivateScratch
      <4> QED BY <1>5, <2>2, <3>1, <3>2, <3>3, <4>1 DEF SoundBuild
    <3>4. CASE op.mat = m
      <4>1. r.d # NULL
        BY SpMatAssumption DEF SoundBuild
      <4> QED BY <1>5, <3>1, <3>2, <3>4, <4>1 DEF SoundBuild
    <3> QED BY <3>3, <3>4
  <2> QED BY <2>1, <2>3 DEF LaunchOK, Counted, ReadsOffsets
<1> QED BY <1>3, <1>4, <1>6, <1>7

(* An update of one descriptor alone, when no pending launch reads offsets *)
(* on its behalf.                                                          *)
LEMMA DescrKeeps ==
  ASSUME IInv, NEW m \in Matrices, NEW d \in Descr \cup {NULL},
         desc' = [desc EXCEPT ![m] = d], UNCHANGED mem,
         d # NULL => /\ d.max_row_nnz >= 0 => d.max_row_nnz = LongestRow[d.arrays]
                     /\ d.coo_offsets_buffer = NULL,
         \A op \in Pending : ReadsOffsets(op) => op.mat # m
  PROVE  /\ desc' \in [Matrices -> Descr \cup {NULL}]
         /\ mem' \in [Addresses -> Contents]
         /\ \A n \in Matrices : desc'[n] # NULL => CacheOK(n)'
         /\ \A op \in Pending : LaunchOK(op)'
<1>1. desc \in [Matrices -> Descr \cup {NULL}] /\ mem \in [Addresses -> Contents]
  BY DEF IInv, TypeOK, SpMatTypeOK
<1>2. desc' \in [Matrices -> Descr \cup {NULL}] /\ mem' \in [Addresses -> Contents]
  BY <1>1
<1>3. desc'[m] = d /\ \A n \in Matrices : n # m => desc'[n] = desc[n]
  BY <1>1
<1>4. ASSUME NEW n \in Matrices, desc'[n] # NULL PROVE CacheOK(n)'
  <2>1. CASE n = m BY <1>3, <1>4, <2>1 DEF CacheOK, FactsOK
  <2>2. CASE n # m
    <3>1. desc'[n] = desc[n] /\ CacheOK(n) BY <1>3, <1>4, <2>2 DEF IInv
    <3> QED BY <3>1 DEF CacheOK, FactsOK
  <2> QED BY <2>1, <2>2
<1>5. ASSUME NEW op \in Pending PROVE LaunchOK(op)'
  <2>1. LaunchOK(op) BY DEF IInv
  <2>2. op.mat \in Matrices BY PendingTyped DEF IInv, TypeOK, Launches
  <2>3. ReadsOffsets(op) => desc'[op.mat] = desc[op.mat]
    BY <1>3, <2>2
  <2> QED BY <2>1, <2>3 DEF LaunchOK, Counted, ReadsOffsets
<1> QED BY <1>2, <1>4, <1>5

(* The launches of a call that keeps the caches join the pending ones.     *)
LEMMA LaunchKeeps ==
  ASSUME IInv, NEW ops \in Seq(Launches), LaunchInOrder(ops), stream' \in Streams,
         desc' \in [Matrices -> Descr \cup {NULL}],
         mem' \in [Addresses -> Contents],
         \A n \in Matrices : desc'[n] # NULL => CacheOK(n)',
         \A op \in Pending : LaunchOK(op)',
         \A j \in 1..Len(ops) : LaunchOK(ops[j])'
  PROVE  IInv'
<1>1. /\ queue' \in [Streams -> Seq(Launches)]
      /\ Pending' \subseteq Pending \cup {ops[j] : j \in 1..Len(ops)}
  BY LaunchOutcome DEF IInv, TypeOK
<1>2. \A op \in Pending' : LaunchOK(op)' BY <1>1
<1>3. TypeOK' BY <1>1 DEF TypeOK, SpMatTypeOK
<1> QED BY <1>2, <1>3 DEF IInv

(* A call that launches nothing.                                           *)
LEMMA QuietKeeps ==
  ASSUME IInv, UNCHANGED queue, stream' \in Streams,
         desc' \in [Matrices -> Descr \cup {NULL}],
         mem' \in [Addresses -> Contents],
         \A n \in Matrices : desc'[n] # NULL => CacheOK(n)',
         \A op \in Pending : LaunchOK(op)'
  PROVE  IInv'
<1>1. TypeOK' BY DEF IInv, TypeOK, SpMatTypeOK
<1>2. Pending' = Pending BY DEF Pending
<1> QED BY <1>1, <1>2 DEF IInv

LEMMA IInvCounts ==
  ASSUME IInv
  PROVE  CountedInv
BY DEF IInv, CountedInv, CacheOK, LaunchOK

(* A descriptor that is not COO has no buffer cached and no launch that    *)
(* reads offsets for it.                                                   *)
LEMMA OnlyCooHasOffsets ==
  ASSUME IInv, NEW m \in Matrices, desc[m] # NULL => desc[m].format # "COO"
  PROVE  /\ desc[m] # NULL => desc[m].coo_offsets_buffer = NULL
         /\ \A op \in Pending : ReadsOffsets(op) => op.mat # m
BY DEF IInv, CacheOK, FactsOK, LaunchOK, Counted

LEMMA PreprocessOffsetsKeeps ==
  ASSUME IInv, NEW m \in Matrices, desc[m] # NULL,
         desc[m].format \in OffsetFormats, PreprocessOffsets(m)
  PROVE  IInv'
<1> DEFINE e == EnsureMaxRowNnz(desc[m])
<1>1. e \in Descr /\ e.coo_offsets_buffer = desc[m].coo_offsets_buffer
      /\ e.max_row_nnz = LongestRow[e.arrays]
  BY IInvCounts, MaxAfterEnsure
<1>2. desc' = [desc EXCEPT ![m] = e] /\ UNCHANGED <<mem, queue, stream>>
  BY DEF PreprocessOffsets
<1>3. /\ desc[m].coo_offsets_buffer = NULL
      /\ \A op \in Pending : ReadsOffsets(op) => op.mat # m
  BY OnlyCooHasOffsets DEF OffsetFormats
<1> HIDE DEF e
<1>4. /\ desc' \in [Matrices -> Descr \cup {NULL}]
      /\ mem' \in [Addresses -> Contents]
      /\ \A n \in Matrices : desc'[n] # NULL => CacheOK(n)'
      /\ \A op \in Pending : LaunchOK(op)'
  BY <1>1, <1>2, <1>3, DescrKeeps
<1>5. stream' \in Streams BY <1>2 DEF IInv, TypeOK, SpMatTypeOK
<1> QED BY <1>2, <1>4, <1>5, QuietKeeps

LEMMA PreprocessCooKeeps ==
  ASSUME IInv, PrivateScratch, NEW m \in Matrices, NEW a \in Scratch[m],
         desc[m] # NULL, PreprocessCoo(m, a)
  PROVE  IInv'
<1>1. desc[m] \in Descr /\ mem \in [Addresses -> Contents] /\ stream \in Streams
      /\ a \in Addresses
  BY SpMVAssumption DEF IInv, TypeOK, SpMatTypeOK
<1>2. PICK r \in BuildCooRowOffsets(desc[m], mem, a) :
        desc' = [desc EXCEPT ![m] = r.d] /\ mem' = r.mem
  BY DEF PreprocessCoo
<1>3. SoundBuild(desc[m], mem, a, r) BY <1>1, BuildOutcome
<1>4. desc[m].format = "COO" /\ UNCHANGED <<queue, stream>>
  BY DEF PreprocessCoo
<1>5. /\ desc' \in [Matrices -> Descr \cup {NULL}]
      /\ mem' \in [Addresses -> Contents]
      /\ \A n \in Matrices : desc'[n] # NULL => CacheOK(n)'
      /\ \A op \in Pending : LaunchOK(op)'
  BY <1>2, <1>3, <1>4, BuildKeeps
<1> QED BY <1>1, <1>4, <1>5, QuietKeeps

LEMMA OverCooOffsetsKeeps ==
  ASSUME IInv, PrivateScratch, NEW m \in Matrices, NEW a \in Scratch[m],
         NEW k \in {"coo_seg", "csr_rowpar", "spmm_rowrun"},
         desc[m] # NULL, OverCooOffsets(m, a, k)
  PROVE  IInv'
<1> DEFINE skipped == [ok |-> TRUE, d |-> desc[m], mem |-> mem]
<1>1. desc[m] \in Descr /\ mem \in [Addresses -> Contents] /\ stream \in Streams
      /\ a \in Addresses
  BY SpMVAssumption DEF IInv, TypeOK, SpMatTypeOK
<1>2. PICK r \in IF desc[m].coo_offsets_buffer = a THEN {skipped}
                 ELSE BuildCooRowOffsets(desc[m], mem, a) :
        /\ desc' = [desc EXCEPT ![m] = r.d]
        /\ mem' = r.mem
        /\ IF r.ok THEN LaunchInOrder(<<Launched(k, m, r.d, a)>>)
                   ELSE UNCHANGED queue
  BY DEF OverCooOffsets, Remembers
<1>3. SoundBuild(desc[m], mem, a, r)
  <2>1. CASE desc[m].coo_offsets_buffer = a
    <3>1. r = skipped BY <1>2, <2>1
    <3>2. a # NULL BY <1>1, SpMatAssumption
    <3>3. CacheOK(m) BY DEF IInv
    <3> QED BY <1>1, <2>1, <3>1, <3>2, <3>3 DEF CacheOK, FactsOK, SoundBuild
  <2>2. CASE desc[m].coo_offsets_buffer # a
    BY <1>1, <1>2, <2>2, BuildOutcome
  <2> QED BY <2>1, <2>2
<1>4. desc[m].format = "COO" /\ UNCHANGED stream BY DEF OverCooOffsets
<1>5. /\ desc' \in [Matrices -> Descr \cup {NULL}]
      /\ mem' \in [Addresses -> Contents]
      /\ \A n \in Matrices : desc'[n] # NULL => CacheOK(n)'
      /\ \A op \in Pending : LaunchOK(op)'
  BY <1>2, <1>3, <1>4, BuildKeeps
<1>6. CASE ~r.ok
  BY <1>1, <1>2, <1>4, <1>5, <1>6, QuietKeeps
<1>7. CASE r.ok
  <2>0. PICK op : op = Launched(k, m, r.d, a) OBVIOUS
  <2>1. k \in Kernels BY DEF Kernels
  <2>2. /\ op \in Launches
        /\ op.kernel = k /\ op.mat = m /\ op.arrays = r.d.arrays /\ op.at = a
        /\ k \in Segmented => op.segments * BlockNnz[k] >= LongestRow[op.arrays]
    BY <1>1, <1>3, <1>7, <2>0, <2>1, LaunchedOutcome DEF SoundBuild
  <2>3. desc'[m] = r.d /\ r.d # NULL
    BY <1>1, <1>2, <1>3, SpMatAssumption
    DEF SoundBuild, IInv, TypeOK, SpMatTypeOK
  <2>4. LaunchOK(op)'
    BY <1>2, <1>3, <1>4, <1>7, <2>2, <2>3 DEF SoundBuild, LaunchOK, Counted, ReadsOffsets
  <2>5. <<op>> \in Seq(Launches) /\ LaunchInOrder(<<op>>)
    BY <1>2, <1>7, <2>0, <2>2
  <2>6. \A j \in 1..Len(<<op>>) : LaunchOK(<<op>>[j])'
    BY <2>4
  <2> QED BY <1>1, <1>4, <1>5, <2>5, <2>6, LaunchKeeps
<1> QED BY <1>6, <1>7

(* Launches over arrays that come with their offsets: no scratch is read,  *)
(* and the readback has just made sure of the longest row.                 *)
LEMMA OffsetLaunchesKeep ==
  ASSUME IInv, NEW m \in Matrices, desc[m] # NULL,
         desc[m].format \in OffsetFormats,
         desc' = [desc EXCEPT ![m] = EnsureMaxRowNnz(desc[m])],
         UNCHANGED <<mem, stream>>,
         NEW ops, LaunchInOrder(ops), ScratchFree(ops)
  PROVE  IInv'
<1>1. PICK d : d = EnsureMaxRowNnz(desc[m]) OBVIOUS
<1>2. /\ d \in Descr
      /\ d.coo_offsets_buffer = desc[m].coo_offsets_buffer
      /\ d.max_row_nnz = LongestRow[d.arrays]
  BY <1>1, IInvCounts, MaxAfterEnsure
<1>3. /\ desc[m].coo_offsets_buffer = NULL
      /\ \A op \in Pending : ReadsOffsets(op) => op.mat # m
  BY OnlyCooHasOffsets DEF OffsetFormats
<1>4. stream' \in Streams BY DEF IInv, TypeOK, SpMatTypeOK
<1>5. /\ desc' \in [Matrices -> Descr \cup {NULL}]
      /\ mem' \in [Addresses -> Contents]
      /\ \A n \in Matrices : desc'[n] # NULL => CacheOK(n)'
      /\ \A op \in Pending : LaunchOK(op)'
  BY <1>1, <1>2, <1>3, DescrKeeps
<1>6. \A j \in 1..Len(ops) : LaunchOK(ops[j])'
  BY DEF ScratchFree, LaunchOK, Counted, ReadsOffsets
<1>7. ops \in Seq(Launches) BY DEF ScratchFree
<1> QED BY <1>4, <1>5, <1>6, <1>7, LaunchKeeps

LEMMA RunKernelKeeps ==
  ASSUME IInv, NEW s \in Streams, RunKernel(s)
  PROVE  IInv'
<1>1. /\ queue' \in [Streams -> Seq(Launches)] /\ Pending' \subseteq Pending
      /\ Head(queue[s]) \in Pending
  BY RunOutcome DEF IInv, TypeOK, RunKernel
<1>2. Head(queue[s]).kernel # "row_ids" BY <1>1 DEF IInv, LaunchOK, Counted
<1>3. UNCHANGED <<desc, mem, stream>> BY <1>2 DEF RunKernel
<1>4. TypeOK' BY <1>1, <1>3 DEF IInv, TypeOK, SpMatTypeOK
<1> QED BY <1>1, <1>3, <1>4 DEF IInv, CacheOK, FactsOK, LaunchOK, Counted, ReadsOffsets

(* Creating, destroying and repointing replace a descriptor by a fresh one *)
(* or by none.                                                             *)
LEMMA ReplaceKeeps ==
  ASSUME IInv, NEW m \in Matrices, NEW d \in Descr \cup {NULL},
         desc' = [desc EXCEPT ![m] = d], UNCHANGED <<mem, queue, stream>>,
         d # NULL => d.max_row_nnz = -1 /\ d.coo_offsets_buffer = NULL,
         \A op \in Pending : ReadsOffsets(op) => op.mat # m
  PROVE  IInv'
<1>0. /\ d # NULL => /\ d.max_row_nnz >= 0 =>
                           d.max_row_nnz = LongestRow[d.arrays]
                     /\ d.coo_offsets_buffer = NULL
      /\ UNCHANGED mem
  OBVIOUS
<1>1. /\ desc' \in [Matrices -> Descr \cup {NULL}]
      /\ mem' \in [Addresses -> Contents]
      /\ \A n \in Matrices : desc'[n] # NULL => CacheOK(n)'
      /\ \A op \in Pending : LaunchOK(op)'
  BY <1>0, DescrKeeps
<1>2. stream' \in Streams BY DEF IInv, TypeOK, SpMatTypeOK
<1> QED BY <1>1, <1>2, QuietKeeps

----------------------------------------------------------------------------
LEMMA InitIInv == Init => IInv
<1> SUFFICES ASSUME Init PROVE IInv OBVIOUS
<1>1. TypeOK
  BY DEF Init, SpMatInit, TypeOK, SpMatTypeOK, Contents
<1>2. Pending = {} BY DEF Init, SpMatInit, Pending
<1> QED BY <1>1, <1>2 DEF IInv, Init, SpMatInit

LEMMA OnMatrixKeeps ==
  ASSUME IInv, PrivateScratch, NEW m \in Matrices, OnMatrix(m)
  PROVE  IInv'
<1>1. CASE \E f \in Formats, p \in Patterns : CreateMat(m, f, p)
  <2>1. PICK f \in Formats, p \in Patterns : CreateMat(m, f, p) BY <1>1
  <2>2. \A op \in Pending : ReadsOffsets(op) => op.mat # m
    BY <2>1, OnlyCooHasOffsets DEF CreateMat
  <2> QED BY <2>1, <2>2, NewDescrTyped, ReplaceKeeps DEF CreateMat
<1>2. CASE DestroyMat(m)
  BY <1>2, ReplaceKeeps DEF DestroyMat
<1>3. CASE \E p \in Patterns : CsrSetPointers(m, p)
  <2>1. PICK p \in Patterns : CsrSetPointers(m, p) BY <1>3
  <2>2. \A op \in Pending : ReadsOffsets(op) => op.mat # m
    BY <2>1, OnlyCooHasOffsets DEF CsrSetPointers
  <2>3. "CSR" \in Formats BY DEF Formats, OffsetFormats
  <2> QED BY <2>1, <2>2, <2>3, NewDescrTyped, ReplaceKeeps
          DEF CsrSetPointers
<1>4. CASE SpMVOffsets(m) \/ SpMMCsr(m)
  BY <1>4, IInvCounts, OffsetCallsDo, OffsetLaunchesKeep
<1>5. CASE \E a \in Scratch[m] : WithScratch(m, a)
  <2>1. PICK a \in Scratch[m] : WithScratch(m, a) BY <1>5
  <2>2. CASE PreprocessCoo(m, a) /\ desc[m] # NULL
    BY <2>2, PreprocessCooKeeps
  <2>3. CASE desc[m].format \in OffsetFormats /\ PreprocessOffsets(m) /\ desc[m] # NULL
    BY <2>3, PreprocessOffsetsKeeps
  <2>4. CASE desc[m] # NULL /\ \E k \in {"coo_seg", "csr_rowpar", "spmm_rowrun"} :
               OverCooOffsets(m, a, k)
    BY <2>4, OverCooOffsetsKeeps
  <2> QED BY <2>1, <2>2, <2>3, <2>4
          DEF WithScratch, SpMVPreprocess, SpMMPreprocess, SpMVCoo, SpMMCoo,
              OffsetFormats
<1> QED BY <1>1, <1>2, <1>3, <1>4, <1>5 DEF OnMatrix

LEMMA NextIInv ==
  ASSUME IInv, PrivateScratch, [Next]_matVars
  PROVE  IInv'
<1>1. CASE \E m \in Matrices : OnMatrix(m)
  BY <1>1, OnMatrixKeeps
<1>2. CASE \E s \in Streams : SetStream(s)
  <2>1. PICK s \in Streams : SetStream(s) BY <1>2
  <2> QED BY <2>1 DEF SetStream, IInv, TypeOK, SpMatTypeOK, CacheOK, FactsOK,
                      LaunchOK, Counted, ReadsOffsets, Pending
<1>3. CASE \E s \in Streams : RunKernel(s)
  BY <1>3, RunKernelKeeps
<1>4. CASE UNCHANGED matVars
  <2>1. UNCHANGED <<desc, mem, queue, stream>> BY <1>4 DEF matVars
  <2>2. Pending' = Pending BY <2>1 DEF Pending
  <2>3. TypeOK' BY <2>1 DEF IInv, TypeOK, SpMatTypeOK
  <2>4. \A m \in Matrices : desc'[m] # NULL => CacheOK(m)'
    BY <2>1 DEF IInv, CacheOK
  <2>5. \A op \in Pending : LaunchOK(op)' BY <2>1 DEF IInv, LaunchOK
  <2> QED BY <2>2, <2>3, <2>4, <2>5 DEF IInv
<1> QED BY <1>1, <1>2, <1>3, <1>4 DEF Next

----------------------------------------------------------------------------
(* The inductive invariant: descriptors cache only what is true of their   *)
(* own arrays and their own buffer, and pending launches agree with the    *)
(* descriptor they came from (src/core/csr_meta.cpp, run_coo).             *)
THEOREM SpMVSpMMInvariant ==
  ASSUME PrivateScratch
  PROVE  Spec => []IInv
<1>1. Init => IInv BY InitIInv
<1>2. IInv /\ [Next]_matVars => IInv' BY NextIInv
<1> QED BY <1>1, <1>2, PTL DEF Spec

(* Whatever the calls, the streams and the failures, a kernel that starts  *)
(* finds the offsets of the arrays it multiplies, provided that no buffer  *)
(* serves two matrices (src/ops/spmv.cpp, src/ops/spmm.cpp run_coo).       *)
THEOREM OffsetsAreOwn ==
  ASSUME PrivateScratch
  PROVE  Spec => []ReadsOwnOffsets
<1>1. IInv => ReadsOwnOffsets
  <2> SUFFICES ASSUME IInv, NEW s \in Streams, queue[s] # <<>>
               PROVE  Satisfied(Head(queue[s]), mem)
    BY DEF ReadsOwnOffsets
  <2>1. queue[s] \in Seq(Launches) BY DEF IInv, TypeOK, SpMatTypeOK
  <2>2. Head(queue[s]) = queue[s][1] /\ 1 \in 1..Len(queue[s])
    BY <2>1, HeadTailProperties, EmptySeq
  <2>3. Head(queue[s]) \in Pending BY <2>2 DEF Pending
  <2> QED BY <2>3 DEF IInv, LaunchOK, Counted, Satisfied
<1> QED BY <1>1, SpMVSpMMInvariant, PTL

(* "a caller that hands over a different buffer ... gets it rebuilt"       *)
(* (src/core/internal.hpp): for callers that give each matrix buffers of   *)
(* its own, the launch a call ends with finds its offsets at once.         *)
THEOREM RebuildIsEnough ==
  ASSUME PrivateScratch
  PROVE  Spec => RebuiltWhenReused
<1>1. ASSUME IInv, [Next]_matVars, NEW s \in Streams,
             Len(queue'[s]) > Len(queue[s])
      PROVE  Satisfied(queue'[s][Len(queue'[s])], mem')
  <2>1. IInv' BY <1>1, NextIInv
  <2>2. queue[s] \in Seq(Launches) /\ queue'[s] \in Seq(Launches)
    BY <1>1, <2>1 DEF IInv, TypeOK, SpMatTypeOK
  <2>3. Len(queue'[s]) \in 1..Len(queue'[s]) BY <1>1, <2>2
  <2>4. queue'[s][Len(queue'[s])] \in Pending' BY <2>3 DEF Pending
  <2> QED BY <2>1, <2>4 DEF IInv, LaunchOK, Counted, Satisfied, ReadsOffsets
<1>2. IInv /\ [Next]_matVars =>
        [\A s \in Streams : Len(queue'[s]) > Len(queue[s]) =>
           Satisfied(queue'[s][Len(queue'[s])], mem')]_matVars
  BY <1>1
<1> QED BY <1>2, SpMVSpMMInvariant, PTL DEF Spec, RebuiltWhenReused
=============================================================================
