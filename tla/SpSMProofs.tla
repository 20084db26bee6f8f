----------------------------- MODULE SpSMProofs -----------------------------
(***************************************************************************)
(* What the calls of SpSM promise for any number of matrices, descriptors, *)
(* streams, rows and right-hand sides.  The flags and the work array of a  *)
(* solve are its own whatever widths callers mix; the diagonal and the     *)
(* offsets of the analysis are found when the widths callers mix leave the *)
(* diagonal of the matrix in one place (~Widening).                        *)
(***************************************************************************)
EXTENDS SpSM, SequenceTheorems, TLAPS

(* The launches outstanding: only the handle's stream has any.             *)
q == queue[stream]

(* Where a launch finds, or leaves, what the analysis prepared.            *)
DiagOf(op) ==
  Region(DiagOff(op.arrays, op.width), DiagBytes(op.arrays),
         IF op.unit THEN Ones ELSE Diag(op.arrays))
OffsetsOf(op) ==
  Region(Total(op.arrays, op.width), OffsetBytes(op.arrays), Offsets(op.arrays))

(* The extraction the last analysis with d asked for.                      *)
Wants(d) == Op("extract_diag", d, agreed[d].mat, agreed[d].width)

Same(op, w) ==
  op.arrays = w.arrays /\ op.width = w.width /\ op.unit = w.unit /\ op.coo = w.coo

(* They find what the analysis prepared in the same places.                *)
Alike(op, w) ==
  /\ op.arrays = w.arrays /\ op.unit = w.unit /\ op.coo = w.coo
  /\ DiagOff(op.arrays, op.width) = DiagOff(w.arrays, w.width)

(* From launch i on, or from now on for i = 0, the diagonal d was analysed *)
(* for is in place.                                                        *)
DiagFrom(d, i) ==
  /\ IF i = 0 THEN DiagOf(Wants(d)) \in mem[d] ELSE q[i] = Wants(d)
  /\ \A j \in (i + 1)..Len(q) : q[j].at = d => Alike(q[j], Wants(d))

OffsetsIn(d) ==
  /\ OffsetsOf(Wants(d)) \in mem[d]
  /\ \A j \in 1..Len(q) : q[j].at = d => Alike(q[j], Wants(d))

AgreedOK(d) ==
  agreed[d] # NULL =>
    /\ mat[agreed[d].mat] # NULL
    /\ ~Widening /\ RowCount[mat[agreed[d].mat].arrays] > 0 =>
         /\ \E i \in 0..Len(q) : DiagFrom(d, i)
         /\ Wants(d).coo => OffsetsIn(d)

OthersIdle ==
  \A s \in Streams : /\ s # stream => queue[s] = <<>>
                     /\ busy[s] => Polling(s)

(* Only the first launch can be the polling kernel, for its solve waited   *)
(* for those before; only its own copy back can follow it at once.         *)
LaunchOK(i) ==
  /\ RowCount[q[i].arrays] > 0
  /\ room[q[i].at] >= Total(q[i].arrays, q[i].width)
  /\ q[i].kernel = "polling" => i = 1
  /\ q[i].kernel = "copy_out" /\ i # 1 =>
       /\ i = 2
       /\ q[1].kernel = "polling"
       /\ q[1].at = q[2].at /\ q[1].mat = q[2].mat
       /\ Same(q[1], q[2])

HeadOK ==
  q # <<>> =>
    /\ q[1].kernel = "polling" =>
         /\ ~Widening =>
              /\ DiagOf(q[1]) \in mem[q[1].at]
              /\ q[1].coo => OffsetsOf(q[1]) \in mem[q[1].at]
         /\ WorkHolds(q[1], Rhs(q[1].mat)) \in mem[q[1].at]
         /\ DoneHolds(q[1], IF busy[stream] THEN InUse ELSE Cleared) \in mem[q[1].at]
    /\ q[1].kernel = "copy_out" =>
         WorkHolds(q[1], Solution(q[1].mat)) \in mem[q[1].at]

CallOK ==
  call # NULL =>
    /\ agreed[call.d] # NULL /\ agreed[call.d].mat = call.mat
    /\ ~Widening => DiagOff(mat[call.mat].arrays, agreed[call.d].width)
                     = DiagOff(mat[call.mat].arrays, call.width)
    /\ RowCount[mat[call.mat].arrays] > 0
    /\ room[call.d] >= Total(mat[call.mat].arrays, call.width)
    /\ LET op == Op("copy_in", call.d, call.mat, call.width)
       IN  IF q = <<>> THEN WorkHolds(op, Rhs(call.mat)) \in mem[call.d]
                       ELSE q[Len(q)] = op

IInv ==
  /\ TypeOK
  /\ OthersIdle
  /\ \A i \in 1..Len(q) : LaunchOK(i)
  /\ HeadOK
  /\ \A d \in SolveDescrs : AgreedOK(d)
  /\ CallOK
  /\ WithinRoom

----------------------------------------------------------------------------
(* The sections of a buffer follow one another.                            *)

LEMMA Alignment ==
  ASSUME NEW v \in Nat
  PROVE  AlignUp(v) \in Nat /\ AlignUp(v) >= v
BY DEF AlignUp

LEMMA Tiles ==
  ASSUME NEW n \in Nat \ {0}
  PROVE  RhsTile(n) \in Nat \ {0} /\ TilesOf(n) \in Nat
<1>1. RhsTile(n) \in Nat \ {0}
  <2>1. CASE n >= 1024 BY <2>1 DEF RhsTile, kMaxRhsTile
  <2>2. CASE n < 1024
    <3> DEFINE P(v) == v >= n /\ \A w \in PowersOfTwo : w >= n => v <= w
    <3>1. \E v \in PowersOfTwo : P(v) BY <2>2 DEF PowersOfTwo
    <3>2. RhsTile(n) = CHOOSE v \in PowersOfTwo : P(v)
      BY <2>2 DEF RhsTile, kMaxRhsTile
    <3> DEFINE c == CHOOSE v \in PowersOfTwo : P(v)
    <3>3. c \in PowersOfTwo BY <3>1
    <3> HIDE DEF c
    <3>4. c \in Nat \ {0} BY <3>3 DEF PowersOfTwo
    <3> QED BY <3>2, <3>4 DEF c
  <2> QED BY <2>1, <2>2
<1>2. TilesOf(n) \in Nat
  <2>1. n + RhsTile(n) - 1 \in Nat BY <1>1
  <2> QED BY <1>1, <2>1 DEF TilesOf
<1> QED BY <1>1, <1>2

LEMMA Product ==
  ASSUME NEW a \in Nat, NEW b \in Nat
  PROVE  a * b \in Nat /\ a * b = b * a
OBVIOUS

LEMMA Layout ==
  ASSUME NEW p \in Patterns, NEW n \in Widths
  PROVE  /\ WorkBytes(p, n) \in Nat /\ DoneOff(p, n) \in Nat
         /\ DoneBytes(p, n) \in Nat /\ DiagOff(p, n) \in Nat
         /\ DiagBytes(p) \in Nat /\ Total(p, n) \in Nat /\ OffsetBytes(p) \in Nat
         /\ WorkBytes(p, n) <= DoneOff(p, n)
         /\ DoneOff(p, n) + DoneBytes(p, n) <= DiagOff(p, n)
         /\ DiagOff(p, n) + DiagBytes(p) <= Total(p, n)
         /\ RowCount[p] * TilesOf(n) * 4 = DoneBytes(p, n)
<1> DEFINE rows == RowCount[p]
           tiles == TilesOf(n)
<1>1. rows \in Nat /\ Elem \in Nat /\ n \in Nat \ {0} BY SpSMAssumption
<1>2. tiles \in Nat BY <1>1, Tiles
<1> HIDE DEF rows, tiles
<1>3. rows * n \in Nat BY <1>1, Product
<1>4. rows * n * Elem \in Nat BY <1>1, <1>3, Product
<1>5. tiles * rows \in Nat /\ tiles * rows = rows * tiles BY <1>1, <1>2, Product
<1>6. tiles * rows * 4 \in Nat BY <1>5
<1>7. rows * Elem \in Nat BY <1>1, Product
<1>8. WorkBytes(p, n) \in Nat BY <1>4 DEF WorkBytes, rows
<1>9. DoneBytes(p, n) \in Nat /\ rows * tiles * 4 = DoneBytes(p, n)
  BY <1>5, <1>6 DEF DoneBytes, rows, tiles
<1>10. DiagBytes(p) \in Nat BY <1>7 DEF DiagBytes, rows
<1>11. OffsetBytes(p) \in Nat BY <1>1 DEF OffsetBytes, rows
<1>12. DoneOff(p, n) \in Nat /\ WorkBytes(p, n) <= DoneOff(p, n)
  BY <1>8, Alignment DEF DoneOff
<1>13. DiagOff(p, n) \in Nat /\ DoneOff(p, n) + DoneBytes(p, n) <= DiagOff(p, n)
  BY <1>9, <1>12, Alignment DEF DiagOff
<1>14. Total(p, n) \in Nat /\ DiagOff(p, n) + DiagBytes(p) <= Total(p, n)
  BY <1>10, <1>13, Alignment DEF Total
<1> QED BY <1>8, <1>9, <1>10, <1>11, <1>12, <1>13, <1>14 DEF rows, tiles

LEMMA RoomForAll ==
  ASSUME NEW f \in Formats, NEW p \in Patterns, NEW n \in Widths, NEW r \in Nat,
         r >= BufferSize(f, p, n)
  PROVE  /\ r >= Total(p, n)
         /\ f = "COO" => r >= Total(p, n) + OffsetBytes(p)
BY Layout DEF BufferSize

----------------------------------------------------------------------------
(* What a step does to a buffer.                                           *)

Regions == [at : Nat, size : Nat, holds : Contents]
EndBy(R, r) == \A x \in R : x.at + x.size <= r

LEMMA WrittenKeeps ==
  ASSUME NEW R, NEW x \in Regions
  PROVE  /\ x \in Written(R, x)
         /\ \A y \in R : Apart(y, x.at, x.size) => y \in Written(R, x)
         /\ R \subseteq Regions => Written(R, x) \subseteq Regions
         /\ \A r \in Nat : EndBy(R, r) /\ x.at + x.size <= r =>
              EndBy(Written(R, x), r)
BY DEF Written, Untouched, EndBy

LEMMA UntouchedKeeps ==
  ASSUME NEW R, NEW at, NEW size
  PROVE  /\ \A y \in R : Apart(y, at, size) => y \in Untouched(R, at, size)
         /\ R \subseteq Regions => Untouched(R, at, size) \subseteq Regions
         /\ \A r \in Nat : EndBy(R, r) => EndBy(Untouched(R, at, size), r)
BY DEF Untouched, EndBy

(* x is a region of op's buffer clear of what op prepared in it.           *)
Clear(op, x) ==
  /\ x \in Regions
  /\ x.at + x.size <= Total(op.arrays, op.width)
  /\ Apart(DiagOf(op), x.at, x.size)
  /\ Apart(OffsetsOf(op), x.at, x.size)

LEMMA Sections ==
  ASSUME NEW op \in Launches
  PROVE  /\ \A h \in Contents : Clear(op, WorkHolds(op, h)) /\ Clear(op, DoneHolds(op, h))
         /\ \A h, g : LET x == DoneHolds(op, g)
                      IN  Apart(WorkHolds(op, h), x.at, x.size)
         /\ DiagOf(op) \in Regions /\ OffsetsOf(op) \in Regions
         /\ LET x == DiagOf(op)
            IN  /\ x.at + x.size <= Total(op.arrays, op.width)
                /\ Apart(OffsetsOf(op), x.at, x.size)
<1>1. op.arrays \in Patterns /\ op.width \in Widths BY DEF Launches
<1>2. GridFlags(op) * 4 = DoneBytes(op.arrays, op.width)
  BY <1>1, Layout DEF GridFlags
<1>3. Ones \in Contents /\ Diag(op.arrays) \in Contents /\ Offsets(op.arrays) \in Contents
  BY <1>1 DEF Contents
<1>4. /\ DiagOf(op) \in Regions
      /\ DiagOf(op).at = DiagOff(op.arrays, op.width)
      /\ DiagOf(op).size = DiagBytes(op.arrays)
  BY <1>1, <1>3, Layout DEF DiagOf, Region, Regions
<1>5. /\ OffsetsOf(op) \in Regions
      /\ OffsetsOf(op).at = Total(op.arrays, op.width)
  BY <1>1, <1>3, Layout DEF OffsetsOf, Region, Regions
<1>6. \A h : /\ WorkHolds(op, h).at = 0
             /\ WorkHolds(op, h).size = WorkBytes(op.arrays, op.width)
             /\ h \in Contents => WorkHolds(op, h) \in Regions
  BY <1>1, Layout DEF WorkHolds, Region, Regions
<1>7. \A h : /\ DoneHolds(op, h).at = DoneOff(op.arrays, op.width)
             /\ DoneHolds(op, h).size = DoneBytes(op.arrays, op.width)
             /\ h \in Contents => DoneHolds(op, h) \in Regions
  BY <1>1, <1>2, Layout DEF DoneHolds, Region, Regions
<1> QED BY <1>1, <1>4, <1>5, <1>6, <1>7, Layout DEF Clear, Apart

LEMMA ContentsTyped ==
  ASSUME NEW op \in Launches
  PROVE  /\ InUse \in Contents /\ Cleared \in Contents
         /\ Rhs(op.mat) \in Contents /\ Solution(op.mat) \in Contents
BY DEF Launches, Contents

(* R and S differ by what one step of op does to its buffer.               *)
Keeps(op, R, S) ==
  /\ DiagOf(op) \in R => DiagOf(op) \in S
  /\ OffsetsOf(op) \in R => OffsetsOf(op) \in S
  /\ R \subseteq Regions => S \subseteq Regions
  /\ \A r \in Nat : EndBy(R, r) /\ r >= Total(op.arrays, op.width) => EndBy(S, r)

LEMMA ClearKeeps ==
  ASSUME NEW op \in Launches, NEW R, NEW x, Clear(op, x)
  PROVE  Keeps(op, R, Written(R, x)) /\ x \in Written(R, x)
<1>1. x \in Regions BY DEF Clear
<1>2. x.at + x.size \in Nat /\ Total(op.arrays, op.width) \in Nat
  BY <1>1, Layout DEF Regions, Launches
<1>3. \A r \in Nat : EndBy(R, r) /\ r >= Total(op.arrays, op.width) =>
        EndBy(Written(R, x), r)
  <2> SUFFICES ASSUME NEW r \in Nat, EndBy(R, r), r >= Total(op.arrays, op.width)
               PROVE  EndBy(Written(R, x), r)
    OBVIOUS
  <2>1. x.at + x.size <= r BY <1>2 DEF Clear
  <2> QED BY <1>1, <2>1, WrittenKeeps
<1> QED BY <1>1, <1>3, WrittenKeeps DEF Keeps, Clear

(* A launch that runs in one step.                                         *)
LEMMA EffectKeeps ==
  ASSUME NEW op \in Launches, op.kernel # "polling", NEW R
  PROVE  /\ Keeps(op, R, Effect(op, R))
         /\ op.kernel = "extract_diag" => DiagOf(op) \in Effect(op, R)
         /\ op.kernel = "copy_in" => WorkHolds(op, Rhs(op.mat)) \in Effect(op, R)
<1>1. CASE op.kernel = "extract_diag"
  <2>1. Effect(op, R) = Written(R, DiagOf(op)) BY <1>1 DEF Effect, DiagOf, DiagAt
  <2>2. \A r \in Nat : EndBy(R, r) /\ r >= Total(op.arrays, op.width) =>
          EndBy(Effect(op, R), r)
    <3> SUFFICES ASSUME NEW r \in Nat, EndBy(R, r), r >= Total(op.arrays, op.width)
                 PROVE  EndBy(Effect(op, R), r)
      OBVIOUS
    <3>1. DiagOf(op) \in Regions /\ Total(op.arrays, op.width) \in Nat
      BY Sections, Layout DEF Launches
    <3>2. DiagOf(op).at + DiagOf(op).size \in Nat BY <3>1 DEF Regions
    <3>3. DiagOf(op).at + DiagOf(op).size <= Total(op.arrays, op.width) BY Sections
    <3>4. DiagOf(op).at + DiagOf(op).size <= r BY <3>1, <3>2, <3>3
    <3> QED BY <2>1, <3>1, <3>4, WrittenKeeps
  <2> QED BY <1>1, <2>1, <2>2, Sections, WrittenKeeps DEF Keeps
<1>2. CASE op.kernel = "copy_in"
  <2>1. Effect(op, R) = Written(R, WorkHolds(op, Rhs(op.mat))) BY <1>2 DEF Effect
  <2> QED BY <1>2, <2>1, Sections, ContentsTyped, ClearKeeps
<1>3. CASE op.kernel = "copy_out"
  <2>1. Effect(op, R) = R BY <1>3 DEF Effect
  <2> QED BY <1>3, <2>1 DEF Keeps
<1> QED BY <1>1, <1>2, <1>3 DEF Launches, Kernels

(* The polling kernel starts and ends.                                     *)
Started(op, R) == Written(R, DoneHolds(op, InUse))
Finished(op, R) ==
  Written(Untouched(R, DoneOff(op.arrays, op.width), GridFlags(op) * 4),
          WorkHolds(op, Solution(op.mat)))

LEMMA StartedKeeps ==
  ASSUME NEW op \in Launches, NEW R
  PROVE  /\ Keeps(op, R, Started(op, R))
         /\ DoneHolds(op, InUse) \in Started(op, R)
         /\ WorkHolds(op, Rhs(op.mat)) \in R =>
              WorkHolds(op, Rhs(op.mat)) \in Started(op, R)
<1>1. Clear(op, DoneHolds(op, InUse)) BY Sections, ContentsTyped
<1>2. Apart(WorkHolds(op, Rhs(op.mat)), DoneHolds(op, InUse).at,
            DoneHolds(op, InUse).size)
  BY Sections
<1>3. DoneHolds(op, InUse) \in Regions BY <1>1 DEF Clear
<1> QED BY <1>1, <1>2, <1>3, ClearKeeps, WrittenKeeps DEF Started

LEMMA FinishedKeeps ==
  ASSUME NEW op \in Launches, NEW R
  PROVE  /\ Keeps(op, R, Finished(op, R))
         /\ WorkHolds(op, Solution(op.mat)) \in Finished(op, R)
<1> DEFINE x == DoneHolds(op, InUse)
           y == WorkHolds(op, Solution(op.mat))
           U == Untouched(R, x.at, x.size)
<1>1. Finished(op, R) = Written(U, y) BY DEF Finished, DoneHolds, Region
<1>2. Clear(op, x) /\ Clear(op, y) BY Sections, ContentsTyped
<1>3. Keeps(op, R, U) BY <1>2, UntouchedKeeps DEF Keeps, Clear
<1>4. Keeps(op, U, Written(U, y)) /\ y \in Written(U, y) BY <1>2, ClearKeeps
<1> HIDE DEF U
<1> QED BY <1>1, <1>3, <1>4 DEF Keeps

----------------------------------------------------------------------------
(* How the parts of the invariant follow the queue and the buffers.        *)

LEMMA QueueTyped ==
  ASSUME TypeOK
  PROVE  /\ q \in Seq(Launches) /\ Len(q) \in Nat
         /\ \A i \in 1..Len(q) : q[i] \in Launches
BY DEF TypeOK, q

LEMMA AgreedExtends ==
  ASSUME IInv, NEW d \in SolveDescrs, agreed'[d] = agreed[d],
         agreed[d] # NULL => mat'[agreed[d].mat] = mat[agreed[d].mat],
         ~Widening =>
           /\ DiagOf(Wants(d)) \in mem[d] => DiagOf(Wants(d)) \in mem'[d]
           /\ OffsetsOf(Wants(d)) \in mem[d] => OffsetsOf(Wants(d)) \in mem'[d]
           /\ \A j \in (Len(q) + 1)..Len(q') :
                q'[j].at = d => Alike(q'[j], Wants(d)),
         Len(q') \in Nat, Len(q') >= Len(q),
         \A j \in 1..Len(q) : q'[j] = q[j]
  PROVE  AgreedOK(d)'
<1> SUFFICES ASSUME agreed'[d] # NULL PROVE AgreedOK(d)' BY DEF AgreedOK
<1>1. mat'[agreed'[d].mat] = mat[agreed[d].mat] /\ Wants(d)' = Wants(d)
  BY DEF Wants, Op
<1>2. AgreedOK(d) /\ Len(q) \in Nat BY QueueTyped DEF IInv
<1>3. ASSUME ~Widening, RowCount[mat[agreed[d].mat].arrays] > 0
      PROVE  (\E i \in 0..Len(q) : DiagFrom(d, i))'
  <2>1. PICK i \in 0..Len(q) : DiagFrom(d, i) BY <1>2, <1>3 DEF AgreedOK
  <2>2. i \in 0..Len(q') BY <1>2, <2>1
  <2>3. IF i = 0 THEN DiagOf(Wants(d)') \in mem'[d] ELSE q'[i] = Wants(d)'
    BY <1>1, <1>2, <1>3, <2>1 DEF DiagFrom
  <2>4. ASSUME NEW j \in (i + 1)..Len(q'), q'[j].at = d
        PROVE  Alike(q'[j], Wants(d)')
    <3>1. CASE j <= Len(q) BY <1>1, <1>2, <2>1, <2>4, <3>1 DEF DiagFrom
    <3>2. CASE j > Len(q) BY <1>1, <1>2, <1>3, <2>1, <2>4, <3>2
    <3> QED BY <1>2, <3>1, <3>2
  <2>5. DiagFrom(d, i)' BY <2>3, <2>4 DEF DiagFrom
  <2> QED BY <2>2, <2>5
<1>4. ASSUME ~Widening, RowCount[mat[agreed[d].mat].arrays] > 0, Wants(d).coo
      PROVE  OffsetsIn(d)'
  <2>1. OffsetsIn(d) BY <1>2, <1>4 DEF AgreedOK
  <2>2. ASSUME NEW j \in 1..Len(q'), q'[j].at = d
        PROVE  Alike(q'[j], Wants(d)')
    <3>1. CASE j <= Len(q) BY <1>1, <1>2, <2>1, <2>2, <3>1 DEF OffsetsIn
    <3>2. CASE j > Len(q) BY <1>1, <1>2, <1>4, <2>2, <3>2
    <3> QED BY <1>2, <3>1, <3>2
  <2> QED BY <1>1, <1>4, <2>1, <2>2 DEF OffsetsIn
<1> QED BY <1>1, <1>2, <1>3, <1>4 DEF AgreedOK

LEMMA SamePlaces ==
  ASSUME NEW x, NEW y, Alike(x, y)
  PROVE  DiagOf(x) = DiagOf(y) /\ OffsetsOf(x) = OffsetsOf(y)
BY DEF Alike, DiagOf, OffsetsOf, Total

(* The launch at the head has ended.                                       *)
LEMMA AgreedPops ==
  ASSUME IInv, q # <<>>, NEW d \in SolveDescrs, UNCHANGED <<agreed, mat>>,
         q' = Tail(q),
         q[1].at # d => mem'[d] = mem[d],
         q[1].at = d => Keeps(q[1], mem[d], mem'[d]),
         q[1].at = d /\ q[1].kernel = "extract_diag" => DiagOf(q[1]) \in mem'[d]
  PROVE  AgreedOK(d)'
<1> SUFFICES ASSUME agreed[d] # NULL PROVE AgreedOK(d)' BY DEF AgreedOK
<1>1. Wants(d)' = Wants(d) BY DEF Wants, Op
<1>2. AgreedOK(d) /\ Len(q) \in Nat \ {0} BY QueueTyped DEF IInv
<1>3. Len(q') = Len(q) - 1 /\ \A j \in 1..Len(q') : q'[j] = q[j + 1]
  BY QueueTyped DEF IInv
<1>4. ASSUME ~Widening, RowCount[mat[agreed[d].mat].arrays] > 0
      PROVE  (\E i \in 0..Len(q) : DiagFrom(d, i))'
  <2>1. PICK i \in 0..Len(q) : DiagFrom(d, i) BY <1>2, <1>4 DEF AgreedOK
  <2> DEFINE k == IF i = 0 THEN 0 ELSE i - 1
  <2>2. k \in 0..Len(q') BY <1>2, <1>3
  <2>3. \A j \in (k + 1)..Len(q') : q'[j].at = d => Alike(q'[j], Wants(d))
    <3> SUFFICES ASSUME NEW j \in (k + 1)..Len(q'), q'[j].at = d
                 PROVE  Alike(q'[j], Wants(d))
      OBVIOUS
    <3>1. j \in 1..Len(q') /\ j + 1 \in (i + 1)..Len(q) BY <1>2, <1>3
    <3> QED BY <1>3, <2>1, <3>1 DEF DiagFrom
  <2>4. IF k = 0 THEN DiagOf(Wants(d)) \in mem'[d] ELSE q'[k] = Wants(d)
    <3>1. CASE i = 0
      <4>1. DiagOf(Wants(d)) \in mem[d] BY <2>1, <3>1 DEF DiagFrom
      <4>2. q[1].at = d => Alike(q[1], Wants(d)) BY <1>2, <2>1, <3>1 DEF DiagFrom
      <4>3. q[1].at = d => DiagOf(Wants(d)) \in mem'[d]
        BY <4>1, <4>2, SamePlaces DEF Keeps
      <4> QED BY <3>1, <4>1, <4>3
    <3>2. CASE i = 1
      <4>1. q[1] = Wants(d) BY <2>1, <3>2 DEF DiagFrom
      <4> QED BY <3>2, <4>1 DEF Wants, Op
    <3>3. CASE i > 1
      <4>1. q[i] = Wants(d) BY <2>1, <3>3 DEF DiagFrom
      <4>2. k = i - 1 /\ k \in 1..Len(q') BY <1>2, <1>3, <3>3
      <4>3. q'[k] = q[k + 1] BY <1>3, <4>2
      <4>4. k + 1 = i BY <4>2
      <4> QED BY <4>1, <4>2, <4>3, <4>4
    <3> QED BY <3>1, <3>2, <3>3
  <2> HIDE DEF k
  <2>5. DiagFrom(d, k)' BY <1>1, <2>3, <2>4 DEF DiagFrom
  <2> QED BY <2>2, <2>5
<1>5. ASSUME ~Widening, RowCount[mat[agreed[d].mat].arrays] > 0, Wants(d).coo
      PROVE  OffsetsIn(d)'
  <2>1. OffsetsIn(d) BY <1>2, <1>5 DEF AgreedOK
  <2>2. q[1].at = d => Alike(q[1], Wants(d)) BY <1>2, <2>1 DEF OffsetsIn
  <2>3. OffsetsOf(Wants(d)) \in mem'[d]
    BY <2>1, <2>2, SamePlaces DEF OffsetsIn, Keeps
  <2>4. ASSUME NEW j \in 1..Len(q'), q'[j].at = d PROVE Alike(q'[j], Wants(d))
    <3>1. j + 1 \in 1..Len(q) BY <1>2, <1>3
    <3> QED BY <1>3, <2>1, <2>4, <3>1 DEF OffsetsIn
  <2> QED BY <1>1, <2>3, <2>4 DEF OffsetsIn
<1> QED BY <1>1, <1>2, <1>4, <1>5 DEF AgreedOK

----------------------------------------------------------------------------
(* One lemma for each action.                                              *)

LEMMA InitIInv == Init => IInv
<1> SUFFICES ASSUME Init PROVE IInv OBVIOUS
<1>1. TypeOK BY DEF Init, TypeOK
<1>2. q = <<>> /\ Len(q) = 0 BY DEF Init, q
<1> QED BY <1>1, <1>2
        DEF Init, IInv, OthersIdle, HeadOK, AgreedOK, CallOK, WithinRoom

LEMMA DeviceSame ==
  ASSUME IInv, UNCHANGED <<queue, stream, mem, busy, room>>
  PROVE  /\ OthersIdle' /\ HeadOK' /\ WithinRoom'
         /\ (\A i \in 1..Len(q) : LaunchOK(i))'
BY DEF IInv, OthersIdle, HeadOK, WithinRoom, LaunchOK, Polling, q

LEMMA OnMatrixKeeps ==
  ASSUME IInv, NEW m \in Matrices, OnMatrix(m)
  PROVE  IInv'
<1>1. PICK x \in MatDescr \cup {NULL} : mat' = [mat EXCEPT ![m] = x]
  <2>1. CASE \E f \in Formats, p \in Patterns, u \in BOOLEAN : CreateMat(m, f, p, u)
    BY <2>1 DEF CreateMat, MatDescr
  <2>2. CASE DestroyMat(m) BY <2>2 DEF DestroyMat
  <2>3. CASE \E p \in Patterns : CsrSetPointers(m, p)
    <3>1. PICK p \in Patterns : CsrSetPointers(m, p) BY <2>3
    <3>2. mat[m] \in MatDescr BY <3>1 DEF CsrSetPointers, IInv, TypeOK
    <3>3. [mat[m] EXCEPT !.arrays = p] \in MatDescr BY <3>2 DEF MatDescr
    <3> QED BY <3>1, <3>3 DEF CsrSetPointers
  <2>4. CASE \E u \in BOOLEAN : SetDiagType(m, u)
    <3>1. PICK u \in BOOLEAN : SetDiagType(m, u) BY <2>4
    <3>2. mat[m] \in MatDescr BY <3>1 DEF SetDiagType, IInv, TypeOK
    <3>3. [mat[m] EXCEPT !.unit = u] \in MatDescr BY <3>2 DEF MatDescr
    <3> QED BY <3>1, <3>3 DEF SetDiagType
  <2> QED BY <2>1, <2>2, <2>3, <2>4 DEF OnMatrix
<1>2. \A d \in SolveDescrs :
        agreed'[d] # NULL => agreed'[d] = agreed[d] /\ agreed[d].mat # m
  <2>1. CASE mat[m] = NULL /\ agreed' = agreed
    BY <2>1 DEF IInv, AgreedOK
  <2>2. CASE Forget(m) BY <2>2 DEF Forget
  <2> QED BY <2>1, <2>2 DEF OnMatrix, CreateMat, DestroyMat, CsrSetPointers, SetDiagType
<1>3. agreed' = agreed \/ Forget(m)
  BY DEF OnMatrix, CreateMat, DestroyMat, CsrSetPointers, SetDiagType
<1>4. UNCHANGED <<sp, room, stream, mem, queue, busy, call>> /\ call = NULL
  BY DEF OnMatrix, Idle
<1>5. TypeOK' BY <1>1, <1>3, <1>4 DEF IInv, TypeOK, Forget
<1>6. \A n \in Matrices : n # m => mat'[n] = mat[n] BY <1>1 DEF IInv, TypeOK
<1>7. ASSUME NEW d \in SolveDescrs PROVE AgreedOK(d)'
  <2>1. CASE agreed'[d] = NULL BY <2>1 DEF AgreedOK
  <2>2. CASE agreed'[d] # NULL
    <3>1. agreed'[d] = agreed[d] /\ agreed[d].mat \in Matrices /\ agreed[d].mat # m
      BY <1>2, <2>2 DEF IInv, TypeOK
    <3>2. q' = q /\ Len(q) \in Nat BY <1>4, QueueTyped DEF q, IInv
    <3> QED BY <1>4, <1>6, <3>1, <3>2, AgreedExtends
  <2> QED BY <2>1, <2>2
<1> QED BY <1>4, <1>5, <1>7, DeviceSame DEF IInv, CallOK

LEMMA OnDescrKeeps ==
  ASSUME IInv, NEW d \in SolveDescrs, OnDescr(d)
  PROVE  IInv'
<1>1. UNCHANGED <<mat, stream, queue, busy, call>> /\ call = NULL /\ q' = q
  BY DEF OnDescr, Idle, q
<1>2. /\ sp' \in [SolveDescrs -> SpSMDescr \cup {NULL}]
      /\ \A e \in SolveDescrs :
           agreed'[e] # NULL => agreed'[e] = agreed[e] /\ mem'[e] = mem[e]
  <2>1. CASE CreateDescr(d)
    BY <2>1 DEF CreateDescr, NoDescr, SpSMDescr, IInv, TypeOK
  <2>2. CASE DestroyDescr(d) BY <2>2 DEF DestroyDescr, IInv, TypeOK
  <2>3. CASE \E m \in Matrices, n \in Widths : Allocate(d, m, n)
    BY <2>3 DEF Allocate, IInv, TypeOK
  <2> QED BY <2>1, <2>2, <2>3 DEF OnDescr
<1>3. ASSUME NEW e \in SolveDescrs PROVE AgreedOK(e)'
  <2>1. CASE agreed'[e] = NULL BY <2>1 DEF AgreedOK
  <2>2. CASE agreed'[e] # NULL
    <3>1. agreed'[e] = agreed[e] /\ mem'[e] = mem[e] BY <1>2, <2>2
    <3>2. Len(q) \in Nat BY QueueTyped DEF IInv
    <3> QED BY <1>1, <3>1, <3>2, AgreedExtends
  <2> QED BY <2>1, <2>2
<1>4. CallOK' BY <1>1 DEF CallOK
<1>5. CASE CreateDescr(d) \/ DestroyDescr(d)
  <2>1. UNCHANGED <<room, mem>> BY <1>5 DEF CreateDescr, DestroyDescr
  <2>2. agreed' \in [SolveDescrs -> [mat : Matrices, width : Widths] \cup {NULL}]
    BY <1>5 DEF CreateDescr, DestroyDescr, IInv, TypeOK
  <2>3. TypeOK' BY <1>1, <1>2, <2>1, <2>2 DEF IInv, TypeOK
  <2> QED BY <1>1, <1>3, <1>4, <2>1, <2>3, DeviceSame DEF IInv
<1>6. CASE \E m \in Matrices, n \in Widths : Allocate(d, m, n)
  <2>1. PICK m \in Matrices, n \in Widths : Allocate(d, m, n) BY <1>6
  <2>2. mat[m] \in MatDescr /\ \A s \in Streams : \A i \in 1..Len(queue[s]) : queue[s][i].at # d
    BY <2>1 DEF Allocate, Pending, IInv, TypeOK
  <2>3. BufferSize(mat[m].format, mat[m].arrays, n) \in Nat
    <3>1. mat[m].arrays \in Patterns BY <2>2 DEF MatDescr
    <3>2. Total(mat[m].arrays, n) \in Nat /\ OffsetBytes(mat[m].arrays) \in Nat
      BY <3>1, Layout
    <3> QED BY <3>2 DEF BufferSize
  <2>4. /\ room' = [room EXCEPT ![d] = BufferSize(mat[m].format, mat[m].arrays, n)]
        /\ mem' = [mem EXCEPT ![d] = {}]
        /\ agreed' = [agreed EXCEPT ![d] = NULL]
    BY <2>1 DEF Allocate
  <2>5. TypeOK' BY <1>1, <1>2, <2>3, <2>4 DEF IInv, TypeOK
  <2>6. WithinRoom'
    <3> SUFFICES ASSUME NEW e \in SolveDescrs, NEW x \in mem'[e]
                 PROVE  x.at + x.size <= room'[e]
      BY DEF WithinRoom
    <3>1. e # d /\ mem'[e] = mem[e] /\ room'[e] = room[e]
      BY <2>4 DEF IInv, TypeOK
    <3> QED BY <3>1 DEF IInv, WithinRoom
  <2>7. \A i \in 1..Len(q) : /\ q[i].at \in SolveDescrs /\ q[i].at # d
                              /\ room'[q[i].at] = room[q[i].at]
                              /\ mem'[q[i].at] = mem[q[i].at]
    <3> SUFFICES ASSUME NEW i \in 1..Len(q)
                 PROVE  /\ q[i].at \in SolveDescrs /\ q[i].at # d
                        /\ room'[q[i].at] = room[q[i].at]
                        /\ mem'[q[i].at] = mem[q[i].at]
      OBVIOUS
    <3>1. q[i].at \in SolveDescrs BY QueueTyped DEF IInv, Launches
    <3>2. q[i].at # d BY <2>2 DEF q, IInv, TypeOK
    <3> QED BY <2>4, <3>1, <3>2 DEF IInv, TypeOK
  <2>8. (\A i \in 1..Len(q) : LaunchOK(i))' BY <1>1, <2>7 DEF IInv, LaunchOK
  <2>9. HeadOK'
    <3>1. CASE q = <<>> BY <1>1, <3>1 DEF HeadOK
    <3>2. CASE q # <<>>
      <4>1. 1 \in 1..Len(q) BY <3>2, QueueTyped DEF IInv
      <4> QED BY <1>1, <2>7, <4>1 DEF IInv, HeadOK
    <3> QED BY <3>1, <3>2
  <2>10. OthersIdle' BY <1>1 DEF IInv, OthersIdle, Polling
  <2> QED BY <1>3, <1>4, <2>5, <2>6, <2>8, <2>9, <2>10 DEF IInv
<1> QED BY <1>5, <1>6 DEF OnDescr

LEMMA SetStreamKeeps ==
  ASSUME IInv, NEW s \in Streams, SetStream(s)
  PROVE  IInv'
<1>1. /\ UNCHANGED <<mat, sp, room, agreed, mem, queue, busy, call>>
      /\ stream' = s /\ call = NULL
  BY DEF SetStream, Idle
<1>2. \A t \in Streams : queue[t] = <<>> /\ ~busy[t]
  BY DEF SetStream, IInv, OthersIdle, TypeOK, Polling
<1>3. q = <<>> /\ q' = <<>> BY <1>1, <1>2 DEF q, IInv, TypeOK
<1>4. Len(<<>>) = 0 OBVIOUS
<1>5. TypeOK' BY <1>1 DEF IInv, TypeOK
<1>6. OthersIdle' BY <1>1, <1>2 DEF OthersIdle
<1>7. ASSUME NEW d \in SolveDescrs PROVE AgreedOK(d)'
  BY <1>1, <1>3, <1>4, AgreedExtends
<1>8. (\A i \in 1..Len(q) : LaunchOK(i))' BY <1>3, <1>4
<1> QED BY <1>1, <1>3, <1>5, <1>6, <1>7, <1>8 DEF IInv, HeadOK, CallOK, WithinRoom

Appends(op) ==
  /\ queue' = [queue EXCEPT ![stream] = Append(queue[stream], op)]
  /\ UNCHANGED <<stream, busy, room>>

(* A launch of a call that waits for nothing goes out behind the others.   *)
LEMMA AppendKeeps ==
  ASSUME IInv, NEW op \in Launches, op.kernel \in {"extract_diag", "copy_in"},
         RowCount[op.arrays] > 0, room[op.at] >= Total(op.arrays, op.width),
         Appends(op), q # <<>> => mem' = mem
  PROVE  /\ q' = Append(q, op) /\ Len(q') = Len(q) + 1 /\ q'[Len(q')] = op
         /\ \A j \in 1..Len(q) : q'[j] = q[j]
         /\ queue' \in [Streams -> Seq(Launches)]
         /\ OthersIdle' /\ HeadOK' /\ (\A i \in 1..Len(q) : LaunchOK(i))'
<1>1. /\ queue \in [Streams -> Seq(Launches)] /\ stream \in Streams
      /\ q \in Seq(Launches) /\ Len(q) \in Nat
  BY QueueTyped DEF IInv, TypeOK
<1>2. q' = Append(q, op) /\ queue' \in [Streams -> Seq(Launches)]
  BY <1>1 DEF Appends, q
<1>3. /\ Len(q') = Len(q) + 1 /\ q'[Len(q')] = op
      /\ \A j \in 1..Len(q) : q'[j] = q[j]
  BY <1>1, <1>2
<1>4. OthersIdle'
  <2>1. \A s \in Streams : s # stream => queue'[s] = queue[s]
    BY <1>1 DEF Appends
  <2>2. busy[stream] => q # <<>> /\ q[1].kernel = "polling"
    BY <1>1 DEF IInv, OthersIdle, Polling, q
  <2>3. busy[stream] => q' # <<>> /\ q'[1].kernel = "polling"
    <3> SUFFICES ASSUME q # <<>> PROVE q' # <<>> /\ q'[1] = q[1] BY <2>2
    <3>1. Len(q) >= 1 BY <1>1
    <3>2. Len(q') # 0 /\ q'[1] = q[1] BY <1>1, <1>3, <3>1
    <3> QED BY <3>2
  <2>4. busy[stream] => Polling(stream)' BY <1>1, <1>2, <2>3 DEF Polling, q, Appends
  <2> QED BY <2>1, <2>4 DEF OthersIdle, IInv, Appends, Polling
<1>5. (\A i \in 1..Len(q) : LaunchOK(i))'
  <2> SUFFICES ASSUME NEW i \in 1..Len(q') PROVE LaunchOK(i)' OBVIOUS
  <2>1. CASE i = Len(q') BY <1>3, <2>1 DEF LaunchOK, Appends
  <2>2. CASE i # Len(q')
    <3>1. i \in 1..Len(q) /\ q'[i] = q[i] /\ LaunchOK(i) BY <1>1, <1>3, <2>2 DEF IInv
    <3>2. i >= 1 /\ q'[1] = q[1] BY <1>1, <1>3, <3>1
    <3>3. i >= 2 => q'[2] = q[2] BY <1>1, <1>3, <3>1
    <3> QED BY <3>1, <3>2, <3>3 DEF LaunchOK, Appends
  <2> QED BY <2>1, <2>2
<1>6. HeadOK'
  <2>1. CASE q = <<>>
    <3>1. q'[1] = op BY <1>2, <2>1
    <3> QED BY <3>1 DEF HeadOK
  <2>2. CASE q # <<>>
    <3>1. q'[1] = q[1] BY <1>1, <1>3, <2>2
    <3> QED BY <2>2, <3>1 DEF IInv, HeadOK, Appends
  <2> QED BY <2>1, <2>2
<1> QED BY <1>2, <1>3, <1>4, <1>5, <1>6

LEMMA OpTyped ==
  ASSUME IInv, NEW d \in SolveDescrs, NEW m \in Matrices, NEW n \in Widths,
         mat[m] # NULL, NEW k \in Kernels
  PROVE  /\ Op(k, d, m, n) \in Launches
         /\ mat[m].arrays \in Patterns /\ mat[m].format \in Formats
BY DEF IInv, TypeOK, MatDescr, Op, Launches

(* The calls that only append: the buffer of d may change while no launch  *)
(* is outstanding, other descriptors see nothing of it.                    *)
LEMMA OthersAgree ==
  ASSUME IInv, NEW d \in SolveDescrs, NEW op \in Launches, op.at = d,
         queue' = queue \/ Appends(op), stream' = stream, mat' = mat,
         NEW e \in SolveDescrs, e # d, agreed'[e] = agreed[e], mem'[e] = mem[e]
  PROVE  AgreedOK(e)'
<1>1. q \in Seq(Launches) /\ Len(q) \in Nat BY QueueTyped DEF IInv
<1>2. CASE queue' = queue
  <2>1. q' = q BY <1>2 DEF q
  <2> QED BY <1>1, <2>1, AgreedExtends
<1>3. CASE Appends(op)
  <2>1. q' = Append(q, op) BY <1>3 DEF Appends, q, IInv, TypeOK
  <2> QED BY <1>1, <2>1, AgreedExtends
<1> QED BY <1>2, <1>3

LEMMA AnalysisKeeps ==
  ASSUME IInv, NEW d \in SolveDescrs, NEW m \in Matrices, NEW n \in Widths,
         Analysis(d, m, n)
  PROVE  IInv'
<1> DEFINE op == Op("extract_diag", d, m, n)
           Granted == agreed' = [agreed EXCEPT ![d] = [mat |-> m, width |-> n]]
<1>1. /\ UNCHANGED <<mat, room, stream, busy, call>> /\ call = NULL
      /\ sp[d] # NULL /\ mat[m] # NULL
      /\ room[d] >= BufferSize(mat[m].format, mat[m].arrays, n)
  BY DEF Analysis, Idle
<1>2. /\ op \in Launches /\ mat[m].arrays \in Patterns /\ mat[m].format \in Formats
      /\ op.at = d /\ op.arrays = mat[m].arrays /\ op.width = n
      /\ op.kernel = "extract_diag" /\ op.coo = (mat[m].format = "COO")
  BY <1>1, OpTyped DEF Op, Kernels
<1>3. room[d] \in Nat /\ mem[d] \subseteq Regions /\ EndBy(mem[d], room[d])
  BY DEF IInv, TypeOK, Regions, WithinRoom, EndBy
<1>4. /\ room[d] >= Total(op.arrays, n)
      /\ mat[m].format = "COO" =>
           room[d] >= Total(op.arrays, n) + OffsetBytes(op.arrays)
  BY <1>1, <1>2, <1>3, RoomForAll
<1>5. BlockingIdle => q = <<>> BY DEF BlockingIdle, q, IInv, TypeOK
<1>6. \/ agreed' = [agreed EXCEPT ![d] = NULL] /\ queue' = queue
      \/ Granted /\ queue' = queue /\ RowCount[op.arrays] = 0
      \/ /\ Granted /\ Appends(op) /\ RowCount[op.arrays] > 0
         /\ op.coo => q = <<>> /\ OffsetsOf(op) \in mem'[d]
  <2>1. CASE AnalyseRowless(d, m, n)
    BY <1>2, <2>1 DEF AnalyseRowless, Agree
  <2>2. CASE RowCount[mat[m].arrays] > 0 /\ AnalyseCsr(d, m, n)
    BY <1>1, <1>2, <2>2 DEF AnalyseCsr, ExtractDiag, Agree, Fail, Appends
  <2>3. CASE RowCount[mat[m].arrays] > 0 /\ AnalyseCoo(d, m, n)
    <3>1. q = <<>> BY <1>5, <2>3 DEF AnalyseCoo
    <3>2. CASE Fail(d) /\ UNCHANGED <<queue, sp>> BY <3>2 DEF Fail
    <3>3. CASE /\ mem' = [mem EXCEPT ![d] = Written(mem[d], OffsetsOf(op))]
               /\ ExtractDiag(d, m, n)
      <4>1. OffsetsOf(op) \in mem'[d]
        BY <3>3, Sections, WrittenKeeps, <1>2 DEF IInv, TypeOK
      <4> QED BY <1>1, <1>2, <2>3, <3>1, <3>3, <4>1
              DEF ExtractDiag, Agree, Fail, Appends
    <3> QED BY <1>2, <2>3, <3>2, <3>3 DEF AnalyseCoo, OffsetsOf
  <2> QED BY <2>1, <2>2, <2>3 DEF Analysis
<1>7. sp' \in [SolveDescrs -> SpSMDescr \cup {NULL}]
  <2>1. PICK b \in SolveDescrs \cup {NULL} :
          sp' = sp \/ sp' = [sp EXCEPT ![d] = Analysed(m, b)]
    BY DEF Analysis, AnalyseRowless, AnalyseCsr, AnalyseCoo, ExtractDiag
  <2>2. Analysed(m, b) \in SpSMDescr BY DEF Analysed, SpSMDescr
  <2> QED BY <2>1, <2>2 DEF IInv, TypeOK
<1>8. /\ mem' = [mem EXCEPT ![d] = mem'[d]]
      /\ mem'[d] \subseteq Regions /\ EndBy(mem'[d], room[d])
      /\ q # <<>> => mem'[d] = mem[d]
  <2>1. CASE mem' = mem BY <1>3, <2>1 DEF IInv, TypeOK
  <2>2. ASSUME NEW R, mem' = [mem EXCEPT ![d] = R], q = <<>>,
               R \subseteq Regions, EndBy(R, room[d])
        PROVE  /\ mem' = [mem EXCEPT ![d] = mem'[d]]
               /\ mem'[d] \subseteq Regions /\ EndBy(mem'[d], room[d])
               /\ q # <<>> => mem'[d] = mem[d]
    <3>1. mem'[d] = R BY <2>2 DEF IInv, TypeOK
    <3> QED BY <2>2, <3>1
  <2>3. CASE AnalyseRowless(d, m, n) \/ AnalyseCsr(d, m, n)
    BY <2>1, <2>3 DEF AnalyseRowless, AnalyseCsr
  <2>4. CASE AnalyseCoo(d, m, n)
    <3> DEFINE U == Untouched(mem[d], Total(op.arrays, n), OffsetBytes(op.arrays))
               W == Written(mem[d], OffsetsOf(op))
    <3>1. q = <<>> /\ mat[m].format = "COO" BY <1>5, <2>4 DEF AnalyseCoo
    <3>2. U \subseteq Regions /\ EndBy(U, room[d]) BY <1>3, UntouchedKeeps
    <3>3. W \subseteq Regions /\ EndBy(W, room[d])
      <4>1. OffsetsOf(op) \in Regions BY <1>2, Sections
      <4>2. /\ OffsetsOf(op).at = Total(op.arrays, n)
            /\ OffsetsOf(op).size = OffsetBytes(op.arrays)
        BY <1>2 DEF OffsetsOf, Region
      <4>3. OffsetsOf(op).at + OffsetsOf(op).size <= room[d]
        BY <1>2, <1>3, <1>4, <3>1, <4>2, Layout
      <4> QED BY <1>3, <4>1, <4>3, WrittenKeeps
    <3>4. mem' = mem \/ mem' = [mem EXCEPT ![d] = U] \/ mem' = [mem EXCEPT ![d] = W]
      BY <1>2, <2>4 DEF AnalyseCoo, OffsetsOf
    <3> HIDE DEF U, W
    <3> QED BY <2>1, <2>2, <3>1, <3>2, <3>3, <3>4
  <2> QED BY <2>3, <2>4 DEF Analysis
<1>9. mem' \in [SolveDescrs -> SUBSET Regions] BY <1>8 DEF IInv, TypeOK, Regions
<1>10. WithinRoom'
  BY <1>1, <1>8 DEF IInv, TypeOK, WithinRoom, EndBy
<1>11. q # <<>> => mem' = mem BY <1>8 DEF IInv, TypeOK
<1>12. \A e \in SolveDescrs : e # d => agreed'[e] = agreed[e] /\ mem'[e] = mem[e]
  BY <1>6, <1>8 DEF IInv, TypeOK
<1>13. agreed' \in [SolveDescrs -> [mat : Matrices, width : Widths] \cup {NULL}]
  BY <1>6 DEF IInv, TypeOK
<1>14. /\ OthersIdle' /\ HeadOK' /\ (\A i \in 1..Len(q) : LaunchOK(i))'
       /\ queue' \in [Streams -> Seq(Launches)]
  <2>1. CASE queue' = queue
    <3>1. q' = q BY <1>1, <2>1 DEF q
    <3>2. HeadOK' BY <1>1, <1>11, <3>1 DEF HeadOK, IInv
    <3> QED BY <1>1, <2>1, <3>1, <3>2 DEF IInv, OthersIdle, Polling, LaunchOK, TypeOK
  <2>2. CASE Appends(op) /\ RowCount[op.arrays] > 0
    BY <1>2, <1>4, <1>11, <2>2, AppendKeeps
  <2> QED BY <1>6, <2>1, <2>2
<1>15. ASSUME NEW e \in SolveDescrs PROVE AgreedOK(e)'
  <2>1. CASE e # d
    <3>1. queue' = queue \/ Appends(op) BY <1>6
    <3> QED BY <1>1, <1>2, <1>12, <2>1, <3>1, OthersAgree
  <2>2. CASE e = d /\ agreed' = [agreed EXCEPT ![d] = NULL]
    BY <2>2 DEF AgreedOK, IInv, TypeOK
  <2>3. CASE e = d /\ Granted
    <3>1. agreed'[e] = [mat |-> m, width |-> n] BY <2>3 DEF IInv, TypeOK
    <3>2. Wants(e)' = op BY <1>1, <2>3, <3>1 DEF Wants, Op
    <3>3. CASE RowCount[op.arrays] = 0
      BY <1>1, <1>2, <2>3, <3>1, <3>3 DEF AgreedOK
    <3>4. CASE Appends(op) /\ RowCount[op.arrays] > 0
               /\ (op.coo => q = <<>> /\ OffsetsOf(op) \in mem'[d])
      <4>1. /\ q' = Append(q, op) /\ Len(q') = Len(q) + 1 /\ q'[Len(q')] = op
            /\ Len(q) \in Nat
        BY <1>2, <1>4, <1>11, <3>4, AppendKeeps, QueueTyped DEF IInv
      <4>2. PICK k \in 0..Len(q') : k = Len(q) + 1 BY <4>1
      <4>3. DiagFrom(e, k)' BY <3>2, <4>1, <4>2 DEF DiagFrom
      <4>4. op.coo => OffsetsIn(e)'
        <5> SUFFICES ASSUME op.coo PROVE OffsetsIn(e)' OBVIOUS
        <5>1. Len(q') = 1 /\ q'[1] = op BY <3>4, <4>1
        <5> QED BY <2>3, <3>2, <3>4, <5>1 DEF OffsetsIn, Alike
      <4> QED BY <1>1, <3>1, <3>2, <4>2, <4>3, <4>4 DEF AgreedOK
    <3> QED BY <1>6, <2>2, <2>3, <3>3, <3>4
  <2> QED BY <1>6, <2>1, <2>2, <2>3
<1>16. TypeOK' BY <1>1, <1>7, <1>9, <1>13, <1>14 DEF IInv, TypeOK, Regions
<1>17. CallOK' BY <1>1 DEF CallOK
<1> QED BY <1>10, <1>14, <1>15, <1>16, <1>17 DEF IInv

LEMMA CopyInKeeps ==
  ASSUME IInv, NEW d \in SolveDescrs, NEW m \in Matrices, NEW n \in Widths,
         CopyIn(d, m, n)
  PROVE  IInv'
<1> DEFINE op == Op("copy_in", d, m, n)
<1>1. /\ UNCHANGED <<mat, sp, room, agreed, stream, mem, busy>>
      /\ call' = [d |-> d, mat |-> m, width |-> n]
      /\ mat[m] # NULL /\ RowCount[mat[m].arrays] > 0
      /\ agreed[d] # NULL /\ agreed[d].mat = m
      /\ Widening \/ DiagOff(mat[m].arrays, agreed[d].width) = DiagOff(mat[m].arrays, n)
      /\ room[d] >= BufferSize(mat[m].format, mat[m].arrays, n)
      /\ Appends(op)
  BY DEF CopyIn, MaySolve, caller, Appends
<1>2. /\ op \in Launches /\ mat[m].arrays \in Patterns /\ mat[m].format \in Formats
      /\ op.at = d /\ op.arrays = mat[m].arrays /\ op.width = n
      /\ op.kernel = "copy_in"
  BY <1>1, OpTyped DEF Op, Kernels
<1>3. room[d] \in Nat /\ room[d] >= Total(op.arrays, n)
  BY <1>1, <1>2, RoomForAll DEF IInv, TypeOK
<1>4. /\ q' = Append(q, op) /\ Len(q') = Len(q) + 1 /\ q'[Len(q')] = op
      /\ \A j \in 1..Len(q) : q'[j] = q[j]
      /\ queue' \in [Streams -> Seq(Launches)]
      /\ OthersIdle' /\ HeadOK' /\ (\A i \in 1..Len(q) : LaunchOK(i))'
  BY <1>1, <1>2, <1>3, AppendKeeps
<1>5. q \in Seq(Launches) /\ Len(q) \in Nat BY QueueTyped DEF IInv
<1>6. ~Widening => Alike(op, Wants(d)) BY <1>1 DEF Alike, Wants, Op
<1>7. ASSUME NEW e \in SolveDescrs PROVE AgreedOK(e)'
  <2>1. ~Widening /\ q'[Len(q) + 1].at = e => Alike(q'[Len(q) + 1], Wants(e))
    BY <1>2, <1>4, <1>5, <1>6
  <2> QED BY <1>1, <1>4, <1>5, <2>1, AgreedExtends
<1>8. q' # <<>> BY <1>4, <1>5
<1>9. CallOK'
  <2>1. call'.d = d /\ call'.mat = m /\ call'.width = n BY <1>1
  <2>2. op' = op BY <1>1 DEF Op
  <2> QED BY <1>1, <1>2, <1>3, <1>4, <1>6, <1>8, <2>1, <2>2 DEF CallOK
<1>10. TypeOK' BY <1>1, <1>4 DEF IInv, TypeOK
<1>11. WithinRoom' BY <1>1 DEF IInv, WithinRoom
<1> QED BY <1>4, <1>7, <1>9, <1>10, <1>11 DEF IInv

LEMMA Prefixes ==
  ASSUME NEW a \in Launches, NEW b \in Launches, NEW k \in 0..2
  PROVE  LET s == <<>> \o SubSeq(<<a, b>>, 1, k)
         IN  /\ s \in Seq(Launches) /\ Len(s) = k
             /\ k >= 1 => s[1] = a
             /\ k = 2 => s[2] = b
<1> DEFINE ops == <<a, b>>
<1>1. ops \in Seq(Launches) /\ Len(ops) = 2 /\ ops[1] = a /\ ops[2] = b OBVIOUS
<1>2. /\ SubSeq(ops, 1, k) \in Seq(Launches)
      /\ Len(SubSeq(ops, 1, k)) = IF 1 <= k THEN k - 1 + 1 ELSE 0
      /\ \A i \in 1..k - 1 + 1 : SubSeq(ops, 1, k)[i] = ops[1 + i - 1]
  <2> HIDE DEF ops
  <2>1. 1 \in Int /\ k \in Int /\ \A i \in 1..k : ops[i] \in Launches BY <1>1
  <2> QED BY <2>1, SubSeqProperties
<1> HIDE DEF ops
<1>3. <<>> \o SubSeq(ops, 1, k) = SubSeq(ops, 1, k) BY <1>2, ConcatEmptySeq
<1> QED BY <1>1, <1>2, <1>3 DEF ops

LEMMA ClearAndLaunchKeeps ==
  ASSUME IInv, ClearAndLaunch
  PROVE  IInv'
<1>1. /\ UNCHANGED <<mat, sp, room, agreed, stream, busy>>
      /\ call # NULL /\ call' = NULL /\ BlockingIdle
  BY DEF ClearAndLaunch, caller, ClearMayRun
<1>2. q = <<>> /\ \A s \in Streams : queue[s] = <<>> /\ ~busy[s]
  BY <1>1 DEF BlockingIdle, q, IInv, TypeOK, OthersIdle, Polling
<1>3. CallOK' BY <1>1 DEF CallOK
<1>4. CASE UNCHANGED <<mem, queue>>
  <2>1. q' = q /\ Len(q) \in Nat BY <1>1, <1>4, QueueTyped DEF q, IInv
  <2>2. \A d \in SolveDescrs : AgreedOK(d)' BY <1>1, <1>4, <2>1, AgreedExtends
  <2>3. TypeOK' BY <1>1, <1>4 DEF IInv, TypeOK
  <2> QED BY <1>1, <1>3, <1>4, <2>2, <2>3, DeviceSame DEF IInv
<1>5. CASE /\ ClearDone(call.d, mat[call.mat].arrays, call.width)
           /\ LaunchInOrder(SolveLaunches(call.d, call.mat, call.width))
  <2>1. PICK d \in SolveDescrs, m \in Matrices, n \in Widths :
          call.d = d /\ call.mat = m /\ call.width = n
    BY <1>1 DEF IInv, TypeOK
  <2> DEFINE in == Op("copy_in", d, m, n)
             a == Op("polling", d, m, n)
             b == Op("copy_out", d, m, n)
             x == DoneHolds(a, Cleared)
  <2>2. /\ agreed[d] # NULL /\ agreed[d].mat = m
        /\ ~Widening => DiagOff(mat[m].arrays, agreed[d].width) = DiagOff(mat[m].arrays, n)
        /\ RowCount[mat[m].arrays] > 0
        /\ room[d] >= Total(mat[m].arrays, n)
        /\ WorkHolds(in, Rhs(m)) \in mem[d]
    BY <1>1, <1>2, <2>1 DEF IInv, CallOK
  <2>3. mat[m] # NULL BY <2>2 DEF IInv, AgreedOK
  <2>4. /\ a \in Launches /\ b \in Launches /\ mat[m].arrays \in Patterns
    BY <2>3, OpTyped DEF Kernels
  <2>5. /\ ~Widening => Alike(a, Wants(d)) /\ Alike(b, Wants(d))
        /\ Same(b, a) /\ Same(in, a)
        /\ a.kernel = "polling" /\ b.kernel = "copy_out"
        /\ a.at = d /\ b.at = d /\ a.mat = m /\ b.mat = m
        /\ a.arrays = mat[m].arrays /\ a.width = n
    BY <2>2 DEF Alike, Same, Wants, Op
  <2>6. mem' = [mem EXCEPT ![d] = Written(mem[d], x)]
    <3>1. GridFlags(a) * 4 = DoneBytes(a.arrays, a.width)
      BY <2>4, <2>5, Layout DEF GridFlags
    <3>2. x = Region(DoneOff(mat[m].arrays, n), DoneBytes(mat[m].arrays, n), Cleared)
      BY <2>5, <3>1 DEF DoneHolds
    <3> QED BY <1>5, <2>1, <3>2 DEF ClearDone
  <2>7. PICK k \in 0..2 :
          queue' = [queue EXCEPT ![stream] = @ \o SubSeq(<<a, b>>, 1, k)]
    BY <1>5, <2>1 DEF LaunchInOrder, SolveLaunches
  <2>8. q' = <<>> \o SubSeq(<<a, b>>, 1, k)
    BY <1>1, <1>2, <2>7 DEF q, IInv, TypeOK
  <2>9. /\ q' \in Seq(Launches) /\ Len(q') = k
        /\ k >= 1 => q'[1] = a
        /\ k = 2 => q'[2] = b
    <3> HIDE DEF a, b
    <3> QED BY <2>4, <2>8, Prefixes
  <2> HIDE DEF a, b, in, x
  <2>10. queue' = [queue EXCEPT ![stream] = q']
    BY <1>2, <2>7, <2>8 DEF q, IInv, TypeOK
  <2>11. Keeps(a, mem[d], mem'[d]) /\ x \in mem'[d] /\ mem'[d] = Written(mem[d], x)
    <3>1. Clear(a, x) BY <2>4, Sections DEF x, Contents
    <3> QED BY <2>4, <2>6, <3>1, ClearKeeps DEF IInv, TypeOK
  <2>12. ASSUME ~Widening
         PROVE  DiagOf(Wants(d)) \in mem[d] /\ (a.coo => OffsetsOf(Wants(d)) \in mem[d])
    <3>1. AgreedOK(d) /\ Len(q) = 0 BY <1>2 DEF IInv
    <3>2. PICK i \in 0..Len(q) : DiagFrom(d, i)
      BY <2>2, <2>12, <3>1 DEF AgreedOK
    <3>3. i = 0 BY <3>1, <3>2
    <3>4. DiagOf(Wants(d)) \in mem[d] BY <3>2, <3>3 DEF DiagFrom
    <3>5. a.coo => OffsetsIn(d) BY <2>2, <2>5, <2>12, <3>1 DEF AgreedOK, Alike
    <3> QED BY <3>4, <3>5 DEF OffsetsIn
  <2>13. ~Widening => DiagOf(a) = DiagOf(Wants(d)) /\ OffsetsOf(a) = OffsetsOf(Wants(d))
    BY <2>5, SamePlaces
  <2>14. ~Widening => DiagOf(a) \in mem'[d] /\ (a.coo => OffsetsOf(a) \in mem'[d])
    BY <2>11, <2>12, <2>13 DEF Keeps
  <2>15. WorkHolds(a, Rhs(m)) \in mem'[d]
    <3>1. WorkHolds(a, Rhs(m)) = WorkHolds(in, Rhs(m))
      BY <2>5 DEF WorkHolds, Same
    <3>2. Apart(WorkHolds(a, Rhs(m)), x.at, x.size) BY <2>4, Sections DEF x
    <3> QED BY <2>2, <2>11, <3>1, <3>2 DEF Written, Untouched
  <2>16. HeadOK'
    <3> SUFFICES ASSUME q' # <<>> PROVE HeadOK' BY DEF HeadOK
    <3>1. q'[1] = a BY <2>9
    <3> QED BY <1>1, <1>2, <2>5, <2>11, <2>14, <2>15, <3>1 DEF HeadOK, x, IInv, TypeOK
  <2>17. (\A i \in 1..Len(q) : LaunchOK(i))'
    <3> SUFFICES ASSUME NEW i \in 1..Len(q') PROVE LaunchOK(i)' OBVIOUS
    <3>1. i = 1 \/ (i = 2 /\ k = 2) BY <2>9
    <3>2. k >= 1 BY <2>9
    <3>3. b.arrays = a.arrays /\ b.width = a.width /\ Same(a, b) BY <2>5 DEF Same
    <3> QED BY <1>1, <2>2, <2>5, <2>9, <3>1, <3>2, <3>3 DEF LaunchOK
  <2>18. OthersIdle' BY <1>1, <1>2, <2>10 DEF OthersIdle, IInv, TypeOK
  <2>19. ASSUME NEW e \in SolveDescrs PROVE AgreedOK(e)'
    <3>1. ~Widening =>
            /\ DiagOf(Wants(e)) \in mem[e] => DiagOf(Wants(e)) \in mem'[e]
            /\ OffsetsOf(Wants(e)) \in mem[e] => OffsetsOf(Wants(e)) \in mem'[e]
      <4>1. CASE e = d BY <2>11, <2>13, <4>1 DEF Keeps
      <4>2. CASE e # d BY <2>6, <4>2 DEF IInv, TypeOK
      <4> QED BY <4>1, <4>2
    <3>2. ~Widening => \A j \in 1..Len(q') : q'[j].at = e => Alike(q'[j], Wants(e))
      <4> SUFFICES ASSUME ~Widening, NEW j \in 1..Len(q'), q'[j].at = e
                   PROVE  Alike(q'[j], Wants(e))
        OBVIOUS
      <4>1. q'[j] \in {a, b} BY <2>9
      <4> QED BY <2>5, <4>1
    <3>3. Len(q) = 0 /\ Len(q') \in Nat BY <1>2, <2>9
    <3> QED BY <1>1, <3>1, <3>2, <3>3, AgreedExtends
  <2>20. mem' \in [SolveDescrs -> SUBSET Regions]
    BY <2>6, <2>11 DEF Keeps, IInv, TypeOK, Regions
  <2>21. TypeOK' BY <1>1, <2>9, <2>10, <2>20 DEF IInv, TypeOK, Regions
  <2>22. WithinRoom'
    <3>1. EndBy(mem'[d], room[d])
      BY <2>2, <2>5, <2>11 DEF Keeps, IInv, TypeOK, WithinRoom, EndBy
    <3> QED BY <1>1, <2>6, <3>1 DEF IInv, TypeOK, WithinRoom, EndBy
  <2> QED BY <1>3, <2>16, <2>17, <2>18, <2>19, <2>21, <2>22 DEF IInv
<1> QED BY <1>4, <1>5 DEF ClearAndLaunch

(* The launch at the head ends and leaves its buffer as S.                 *)
LEMMA PopKeeps ==
  ASSUME IInv, q # <<>>, NEW op \in Launches, op = q[1], NEW S,
         UNCHANGED <<mat, sp, room, agreed, stream, call>>,
         queue' = [queue EXCEPT ![stream] = Tail(@)],
         mem' = [mem EXCEPT ![op.at] = S],
         busy' \in [Streams -> BOOLEAN], \A s \in Streams : ~busy'[s],
         Keeps(op, mem[op.at], S),
         op.kernel = "extract_diag" => DiagOf(op) \in S,
         op.kernel = "copy_in" => WorkHolds(op, Rhs(op.mat)) \in S,
         op.kernel = "polling" => WorkHolds(op, Solution(op.mat)) \in S
  PROVE  IInv'
<1>1. /\ q \in Seq(Launches) /\ Len(q) \in Nat \ {0}
      /\ queue \in [Streams -> Seq(Launches)] /\ stream \in Streams
      /\ op.at \in SolveDescrs
  <2>1. q \in Seq(Launches) /\ op.at \in SolveDescrs BY QueueTyped DEF IInv, Launches
  <2>2. Len(q) \in Nat \ {0} BY <2>1
  <2> QED BY <2>1, <2>2 DEF IInv, TypeOK
<1>2. q' = Tail(q) BY <1>1 DEF q
<1>3. /\ q' \in Seq(Launches) /\ Len(q') = Len(q) - 1
      /\ \A j \in 1..Len(q') : q'[j] = q[j + 1]
  <2>1. \A s \in Seq(Launches) : Len(s) > 0 =>
          /\ Tail(s) \in Seq(Launches) /\ Len(Tail(s)) = Len(s) - 1
          /\ \A j \in 1..Len(s) - 1 : Tail(s)[j] = s[j + 1]
    OBVIOUS
  <2> QED BY <1>1, <1>2, <2>1
<1>4. mem'[op.at] = S /\ \A e \in SolveDescrs : e # op.at => mem'[e] = mem[e]
  BY <1>1 DEF IInv, TypeOK
<1>5. \A d \in SolveDescrs : AgreedOK(d)'
  BY <1>2, <1>4, AgreedPops
<1>6. (\A i \in 1..Len(q) : LaunchOK(i))'
  <2> SUFFICES ASSUME NEW i \in 1..Len(q') PROVE LaunchOK(i)' OBVIOUS
  <2>1. i + 1 \in 1..Len(q) /\ i + 1 # 1 /\ (i # 1 => i + 1 # 2) /\ q'[i] = q[i + 1]
    BY <1>1, <1>3
  <2>2. LaunchOK(i + 1) BY <2>1 DEF IInv
  <2> QED BY <2>1, <2>2 DEF LaunchOK
<1>7. HeadOK'
  <2> SUFFICES ASSUME q' # <<>> PROVE HeadOK' BY DEF HeadOK
  <2>1. 1 \in 1..Len(q') /\ 2 \in 1..Len(q) /\ q'[1] = q[2] BY <1>1, <1>3
  <2>2. LaunchOK(2) BY <2>1 DEF IInv
  <2>3. q[2].kernel # "polling" BY <2>2 DEF LaunchOK
  <2>4. ASSUME q[2].kernel = "copy_out"
        PROVE  WorkHolds(q[2], Solution(q[2].mat)) \in mem'[q[2].at]
    <3>1. op.kernel = "polling" /\ op.at = q[2].at /\ op.mat = q[2].mat /\ Same(op, q[2])
      BY <2>2, <2>4 DEF LaunchOK
    <3>2. WorkHolds(q[2], Solution(q[2].mat)) = WorkHolds(op, Solution(op.mat))
      BY <3>1 DEF WorkHolds, Same
    <3> QED BY <1>4, <3>1, <3>2
  <2> QED BY <2>1, <2>3, <2>4 DEF HeadOK
<1>8. CallOK'
  <2> SUFFICES ASSUME call # NULL PROVE CallOK' BY DEF CallOK
  <2> DEFINE c == Op("copy_in", call.d, call.mat, call.width)
  <2>1. CallOK /\ q[Len(q)] = c BY DEF IInv, CallOK
  <2>2. CASE q' = <<>>
    <3> HIDE DEF c
    <3>0. Len(q) = 1 BY <1>1, <1>3, <2>2
    <3>1. op = c BY <2>1, <3>0
    <3>2. op.kernel = "copy_in" /\ op.at = call.d /\ op.mat = call.mat BY <3>1 DEF c, Op
    <3>3. WorkHolds(c, Rhs(call.mat)) \in mem'[call.d] BY <1>4, <3>1, <3>2
    <3>4. c' = c BY DEF c, Op
    <3> QED BY <2>1, <2>2, <3>3, <3>4 DEF CallOK, c
  <2>3. CASE q' # <<>>
    <3>1. Len(q') \in 1..Len(q') /\ Len(q') + 1 = Len(q) BY <1>1, <1>3, <2>3
    <3>2. q'[Len(q')] = c BY <1>3, <2>1, <3>1
    <3>3. c' = c BY DEF Op
    <3> QED BY <2>1, <2>3, <3>2, <3>3 DEF CallOK
  <2> QED BY <2>2, <2>3
<1>9. OthersIdle'
  <2>1. \A s \in Streams : s # stream => queue'[s] = queue[s] BY <1>1
  <2> QED BY <2>1 DEF IInv, OthersIdle
<1>10. mem[op.at] \subseteq Regions /\ EndBy(mem[op.at], room[op.at]) /\ room[op.at] \in Nat
  BY <1>1 DEF IInv, TypeOK, Regions, WithinRoom, EndBy
<1>11. room[op.at] >= Total(op.arrays, op.width) BY <1>1 DEF IInv, LaunchOK
<1>12. S \subseteq Regions /\ EndBy(S, room[op.at]) BY <1>10, <1>11 DEF Keeps
<1>13. WithinRoom' BY <1>4, <1>12 DEF IInv, WithinRoom, EndBy
<1>14. mem' \in [SolveDescrs -> SUBSET Regions] BY <1>12 DEF IInv, TypeOK, Regions
<1>15. queue' \in [Streams -> Seq(Launches)] BY <1>1, <1>2, <1>3 DEF q
<1>16. TypeOK' BY <1>14, <1>15 DEF IInv, TypeOK, Regions
<1> QED BY <1>5, <1>6, <1>7, <1>8, <1>9, <1>13, <1>16 DEF IInv

LEMMA OnlyTheStream ==
  ASSUME IInv, NEW s \in Streams, queue[s] # <<>>
  PROVE  /\ s = stream /\ queue[s] = q /\ Head(queue[s]) = q[1]
         /\ q[1] \in Launches /\ 1 \in 1..Len(q)
         /\ \A t \in Streams : t # s => ~busy[t]
<1>1. s = stream BY DEF IInv, OthersIdle
<1>2. q \in Seq(Launches) /\ q # <<>> BY <1>1, QueueTyped DEF IInv, q
<1>3. \A t \in Streams : t # s => ~busy[t]
  BY <1>1 DEF IInv, OthersIdle, Polling, TypeOK
<1> QED BY <1>1, <1>2, <1>3 DEF q

LEMMA RunKernelKeeps ==
  ASSUME IInv, NEW s \in Streams, RunKernel(s)
  PROVE  IInv'
<1>1. queue[s] # <<>> BY DEF RunKernel
<1>2. /\ s = stream /\ Head(queue[s]) = q[1] /\ q[1] \in Launches /\ q # <<>>
      /\ \A t \in Streams : t # s => ~busy[t]
  BY <1>1, OnlyTheStream
<1>3. PICK op \in Launches : op = q[1] BY <1>2
<1>4. /\ op.kernel # "polling"
      /\ mem' = [mem EXCEPT ![op.at] = Effect(op, mem[op.at])]
      /\ queue' = [queue EXCEPT ![stream] = Tail(@)]
      /\ UNCHANGED <<mat, sp, room, agreed, stream, busy, call>>
  BY <1>2, <1>3 DEF RunKernel, caller
<1>5. \A t \in Streams : ~busy[t]
  BY <1>2, <1>3, <1>4 DEF IInv, OthersIdle, Polling, q
<1>6. busy' \in [Streams -> BOOLEAN] /\ \A t \in Streams : ~busy'[t]
  BY <1>4, <1>5 DEF IInv, TypeOK
<1> QED BY <1>2, <1>3, <1>4, <1>6, EffectKeeps, PopKeeps

LEMMA FinishKernelKeeps ==
  ASSUME IInv, NEW s \in Streams, FinishKernel(s)
  PROVE  IInv'
<1>1. queue[s] # <<>> /\ Head(queue[s]).kernel = "polling"
  BY DEF FinishKernel, IInv, OthersIdle, Polling
<1>2. /\ s = stream /\ Head(queue[s]) = q[1] /\ q[1] \in Launches /\ q # <<>>
      /\ \A t \in Streams : t # s => ~busy[t]
  BY <1>1, OnlyTheStream
<1>3. PICK op \in Launches : op = q[1] BY <1>2
<1>4. op.at \in SolveDescrs BY <1>3 DEF Launches
<1>5. /\ mem' = [mem EXCEPT ![op.at] = Finished(op, mem[op.at])]
      /\ queue' = [queue EXCEPT ![stream] = Tail(@)]
      /\ busy' = [busy EXCEPT ![s] = FALSE]
      /\ UNCHANGED <<mat, sp, room, agreed, stream, call>>
  BY <1>2, <1>3, <1>4 DEF FinishKernel, Finished, caller
<1>6. busy' \in [Streams -> BOOLEAN] /\ \A t \in Streams : ~busy'[t]
  BY <1>2, <1>5 DEF IInv, TypeOK
<1>7. op.kernel = "polling" BY <1>1, <1>2, <1>3
<1> QED BY <1>2, <1>3, <1>5, <1>6, <1>7, FinishedKeeps, PopKeeps

LEMMA StartKernelKeeps ==
  ASSUME IInv, NEW s \in Streams, StartKernel(s)
  PROVE  IInv'
<1>1. queue[s] # <<>> /\ Head(queue[s]).kernel = "polling" BY DEF StartKernel
<1>2. /\ s = stream /\ Head(queue[s]) = q[1] /\ q[1] \in Launches /\ q # <<>>
      /\ 1 \in 1..Len(q) /\ \A t \in Streams : t # s => ~busy[t]
  BY <1>1, OnlyTheStream
<1>3. PICK op \in Launches : op = q[1] BY <1>2
<1>4. op.at \in SolveDescrs /\ op.kernel = "polling" BY <1>1, <1>2, <1>3 DEF Launches
<1>5. /\ mem' = [mem EXCEPT ![op.at] = Started(op, mem[op.at])]
      /\ busy' = [busy EXCEPT ![s] = TRUE]
      /\ UNCHANGED <<mat, sp, room, agreed, stream, queue, call>>
  BY <1>2, <1>3, <1>4 DEF StartKernel, Started, caller
<1>6. q' = q BY <1>5 DEF q
<1>7. /\ mem'[op.at] = Started(op, mem[op.at])
      /\ \A e \in SolveDescrs : e # op.at => mem'[e] = mem[e]
      /\ busy'[stream] = TRUE
  BY <1>2, <1>4, <1>5 DEF IInv, TypeOK
<1>8. Keeps(op, mem[op.at], mem'[op.at]) BY <1>7, StartedKeeps
<1>9. HeadOK'
  <2>1. ~Widening => /\ DiagOf(op) \in mem'[op.at]
                     /\ op.coo => OffsetsOf(op) \in mem'[op.at]
    BY <1>2, <1>3, <1>4, <1>8 DEF IInv, HeadOK, Keeps
  <2>2. /\ WorkHolds(op, Rhs(op.mat)) \in mem'[op.at]
        /\ DoneHolds(op, InUse) \in mem'[op.at]
    BY <1>2, <1>3, <1>4, <1>7, StartedKeeps DEF IInv, HeadOK
  <2> QED BY <1>3, <1>4, <1>5, <1>6, <1>7, <2>1, <2>2 DEF HeadOK
<1>10. ASSUME NEW d \in SolveDescrs PROVE AgreedOK(d)'
  <2>1. CASE d # op.at
    <3>1. mem'[d] = mem[d] /\ Len(q) \in Nat BY <1>7, <2>1, QueueTyped DEF IInv
    <3> QED BY <1>5, <1>6, <3>1, AgreedExtends
  <2>2. CASE d = op.at
    <3> SUFFICES ASSUME agreed[d] # NULL PROVE AgreedOK(d)' BY <1>5 DEF AgreedOK
    <3>1. AgreedOK(d) /\ Wants(d)' = Wants(d) BY <1>5 DEF IInv, Wants, Op
    <3>2. Alike(op, Wants(d)) /\ DiagOf(Wants(d)) \in mem[d] => DiagOf(Wants(d)) \in mem'[d]
      BY <1>8, <2>2, SamePlaces DEF Keeps
    <3>3. Alike(op, Wants(d)) /\ OffsetsOf(Wants(d)) \in mem[d] =>
            OffsetsOf(Wants(d)) \in mem'[d]
      BY <1>8, <2>2, SamePlaces DEF Keeps
    <3>4. ASSUME NEW i \in 0..Len(q), DiagFrom(d, i) PROVE DiagFrom(d, i)'
      <4>1. i = 0 => Alike(op, Wants(d)) BY <1>2, <1>3, <2>2, <3>4 DEF DiagFrom
      <4> QED BY <1>6, <3>1, <3>2, <3>4, <4>1 DEF DiagFrom
    <3>5. OffsetsIn(d) => OffsetsIn(d)'
      <4>1. OffsetsIn(d) => Alike(op, Wants(d)) BY <1>2, <1>3, <2>2 DEF OffsetsIn
      <4> QED BY <1>6, <3>1, <3>3, <4>1 DEF OffsetsIn
    <3>6. CASE ~Widening /\ RowCount[mat[agreed[d].mat].arrays] > 0
      <4>1. PICK i \in 0..Len(q) : DiagFrom(d, i) BY <3>1, <3>6 DEF AgreedOK
      <4>2. DiagFrom(d, i)' /\ i \in 0..Len(q') BY <1>6, <3>4, <4>1
      <4> QED BY <1>5, <3>1, <3>5, <3>6, <4>2 DEF AgreedOK
    <3>7. CASE ~(~Widening /\ RowCount[mat[agreed[d].mat].arrays] > 0)
      BY <1>5, <3>1, <3>7 DEF AgreedOK
    <3> QED BY <3>6, <3>7
  <2> QED BY <2>1, <2>2
<1>11. (\A i \in 1..Len(q) : LaunchOK(i))' BY <1>5, <1>6 DEF IInv, LaunchOK
<1>12. CallOK'
  <2> SUFFICES ASSUME call # NULL PROVE CallOK' BY <1>5 DEF CallOK
  <2>1. q[Len(q)] = Op("copy_in", call.d, call.mat, call.width)
    BY <1>2 DEF IInv, CallOK
  <2> QED BY <1>2, <1>5, <1>6, <2>1 DEF IInv, CallOK, Op
<1>13. OthersIdle'
  BY <1>1, <1>2, <1>5 DEF IInv, OthersIdle, Polling, TypeOK
<1>14. /\ mem[op.at] \subseteq Regions /\ EndBy(mem[op.at], room[op.at])
       /\ room[op.at] \in Nat /\ room[op.at] >= Total(op.arrays, op.width)
  BY <1>2, <1>3, <1>4 DEF IInv, TypeOK, Regions, WithinRoom, EndBy, LaunchOK
<1>15. mem'[op.at] \subseteq Regions /\ EndBy(mem'[op.at], room[op.at])
  BY <1>8, <1>14 DEF Keeps
<1>16. mem' \in [SolveDescrs -> SUBSET Regions]
  BY <1>5, <1>7, <1>15 DEF IInv, TypeOK, Regions
<1>17. TypeOK' BY <1>5, <1>16 DEF IInv, TypeOK, Regions
<1>18. WithinRoom' BY <1>5, <1>7, <1>15 DEF IInv, WithinRoom, EndBy
<1> QED BY <1>9, <1>10, <1>11, <1>12, <1>13, <1>17, <1>18 DEF IInv

LEMMA StutterKeeps ==
  ASSUME IInv, UNCHANGED vars
  PROVE  IInv'
<1>1. UNCHANGED <<mat, sp, room, agreed, stream, mem, queue, busy, call>> /\ q' = q
  BY DEF vars, caller, q
<1>2. ASSUME NEW d \in SolveDescrs PROVE AgreedOK(d)'
  <2>1. Len(q) \in Nat BY QueueTyped DEF IInv
  <2> QED BY <1>1, <2>1, AgreedExtends
<1>3. TypeOK' BY <1>1 DEF IInv, TypeOK
<1>4. CallOK' BY <1>1 DEF IInv, CallOK, Op
<1> QED BY <1>1, <1>2, <1>3, <1>4, DeviceSame DEF IInv

LEMMA NextIInv == IInv /\ [Next]_vars => IInv'
<1> SUFFICES ASSUME IInv, [Next]_vars PROVE IInv' OBVIOUS
<1>1. CASE \E m \in Matrices : OnMatrix(m) BY <1>1, OnMatrixKeeps
<1>2. CASE \E d \in SolveDescrs : OnDescr(d) BY <1>2, OnDescrKeeps
<1>3. CASE \E d \in SolveDescrs, m \in Matrices, n \in Widths :
             Analysis(d, m, n) \/ CopyIn(d, m, n)
  BY <1>3, AnalysisKeeps, CopyInKeeps
<1>4. CASE ClearAndLaunch BY <1>4, ClearAndLaunchKeeps
<1>5. CASE \E s \in Streams : SetStream(s) BY <1>5, SetStreamKeeps
<1>6. CASE \E s \in Streams : RunKernel(s) \/ StartKernel(s) \/ FinishKernel(s)
  BY <1>6, RunKernelKeeps, StartKernelKeeps, FinishKernelKeeps
<1>7. CASE UNCHANGED vars BY <1>7, StutterKeeps
<1> QED BY <1>1, <1>2, <1>3, <1>4, <1>5, <1>6, <1>7 DEF Next

----------------------------------------------------------------------------
(* The theorems.                                                           *)

(* Every state keeps the right-hand sides and the flags where the launches *)
(* in front of them put or will put them (src/ops/spsm.cpp), and for       *)
(* callers that do not move the diagonal, the diagonal and the offsets.    *)
THEOREM AnalysisInvariant == Spec => []IInv
<1>1. IInv /\ [Next]_vars => IInv' BY NextIInv
<1> QED BY InitIInv, <1>1, PTL DEF Spec

(* Descriptors, buffers, launches and the pending call keep their types.   *)
THEOREM TypeCorrect == Spec => []TypeOK
<1>1. IInv => TypeOK BY DEF IInv
<1> QED BY <1>1, AnalysisInvariant, PTL

LEMMA PollingHead ==
  ASSUME IInv, NEW s \in Streams, Polling(s)
  PROVE  /\ Head(queue[s]) = q[1] /\ s = stream /\ q # <<>> /\ HeadOK
         /\ q[1].kernel = "polling"
BY OnlyTheStream DEF Polling, IInv

(* A solve with the analysed width, or one that leaves the diagonal where  *)
(* that one put it, finds the diagonal of its own arrays (src/ops/spsm.cpp *)
(* solve and flagsparseSpSM_analysis).                                     *)
THEOREM FindsTheDiagonal ==
  ASSUME ~Widening
  PROVE  Spec => []DiagonalFound
<1>1. IInv => DiagonalFound
  <2> SUFFICES ASSUME IInv, NEW s \in Streams, Polling(s), ~Head(queue[s]).unit
               PROVE  Region(DiagOff(Head(queue[s]).arrays, Head(queue[s]).width),
                             DiagBytes(Head(queue[s]).arrays),
                             Diag(Head(queue[s]).arrays)) \in mem[Head(queue[s]).at]
    BY DEF DiagonalFound
  <2> QED BY PollingHead DEF HeadOK, DiagOf
<1> QED BY <1>1, AnalysisInvariant, PTL

(* The flags a kernel starts on are clear, and its own until it ends,      *)
(* whatever widths callers mix (src/ops/spsm.cpp solve).                   *)
THEOREM OwnsItsFlags == Spec => []FlagsOwned
<1>1. IInv => FlagsOwned
  <2> SUFFICES ASSUME IInv, NEW s \in Streams, Polling(s)
               PROVE  DoneHolds(Head(queue[s]), IF busy[s] THEN InUse ELSE Cleared)
                        \in mem[Head(queue[s]).at]
    BY DEF FlagsOwned
  <2> QED BY PollingHead DEF HeadOK
<1> QED BY <1>1, AnalysisInvariant, PTL

(* A COO solve finds the offsets of its own arrays, which lie right behind *)
(* the diagonal (src/ops/spsm.cpp csr_view_of_coo).                        *)
THEOREM FindsItsOffsets ==
  ASSUME ~Widening
  PROVE  Spec => []OffsetsFound
<1>1. IInv => OffsetsFound
  <2> SUFFICES ASSUME IInv, NEW s \in Streams, Polling(s), Head(queue[s]).coo
               PROVE  Region(Total(Head(queue[s]).arrays, Head(queue[s]).width),
                             OffsetBytes(Head(queue[s]).arrays),
                             Offsets(Head(queue[s]).arrays)) \in mem[Head(queue[s]).at]
    BY DEF OffsetsFound
  <2> QED BY PollingHead DEF HeadOK, OffsetsOf
<1> QED BY <1>1, AnalysisInvariant, PTL

(* The work array is one solve's from the copy in to the copy back,        *)
(* whatever widths callers mix (src/ops/spsm.cpp solve).                   *)
THEOREM WorksOnItsOwn == Spec => []WorkIsOwn
<1>1. IInv => WorkIsOwn
  <2> SUFFICES ASSUME IInv, NEW s \in Streams, queue[s] # <<>>
               PROVE  LET op == Head(queue[s])
                      IN  /\ op.kernel = "polling" =>
                               WorkHolds(op, Rhs(op.mat)) \in mem[op.at]
                          /\ op.kernel = "copy_out" =>
                               WorkHolds(op, Solution(op.mat)) \in mem[op.at]
    BY DEF WorkIsOwn
  <2>1. Head(queue[s]) = q[1] /\ q # <<>> /\ HeadOK BY OnlyTheStream DEF IInv
  <2> QED BY <2>1 DEF HeadOK
<1> QED BY <1>1, AnalysisInvariant, PTL

(* A buffer of the size flagsparseSpSM_bufferSize asks for holds all that  *)
(* is written to it.                                                       *)
THEOREM RoomIsEnough == Spec => []WithinRoom
<1>1. IInv => WithinRoom BY DEF IInv
<1> QED BY <1>1, AnalysisInvariant, PTL
=============================================================================
