---------------------------- MODULE SDDMMProofs ----------------------------
(***************************************************************************)
(* What SDDMM promises for any number of matrices, buffers and streams,    *)
(* when no two matrices share a buffer and callers wait for a stream       *)
(* before they leave it.                                                   *)
(***************************************************************************)
EXTENDS SDDMM, SequenceTheorems, TLAPS

Discipline == PrivateScratch /\ Synced

(* When the first i - 1 launches of q have run on memory mm, buffer a      *)
(* holds the row ids of p: the last of them to expand into a expands p,    *)
(* or none does and a holds them already.                                  *)
Provided(mm, q, i, a, p) ==
  \/ /\ mm[a] = RowIds(p)
     /\ \A k \in 1 .. i - 1 : ~Expands(q[k], a)
  \/ \E j \in 1 .. i - 1 :
       /\ Expands(q[j], a) /\ q[j].arrays = p
       /\ \A k \in j + 1 .. i - 1 : ~Expands(q[k], a)

OwnBuffer(op) == op.at \in Scratch[op.mat]

Ordered(mm, q) ==
  \A i \in 1..Len(q) :
    /\ OwnBuffer(q[i])
    /\ q[i].kernel \in {"row_ids", "sddmm"}
    /\ q[i].kernel = "sddmm" => Provided(mm, q, i, q[i].at, q[i].arrays)

Remembered(mm, D, q) ==
  \A m \in Matrices : D[m] # NULL /\ D[m].sddmm_row_ids_buffer # NULL =>
    /\ D[m].sddmm_row_ids_buffer \in Scratch[m]
    /\ Provided(mm, q, Len(q) + 1, D[m].sddmm_row_ids_buffer, D[m].arrays)

Fits(mm, D, q) ==
  /\ D \in [Matrices -> Descr \cup {NULL}]
  /\ q \in Seq(Launches)
  /\ Ordered(mm, q)
  /\ Remembered(mm, D, q)

IInv ==
  /\ TypeOK
  /\ \A s \in Streams : s # stream => queue[s] = <<>>
  /\ Fits(mem, desc, queue[stream])

----------------------------------------------------------------------------
LEMMA InitIInv == Init => IInv
<1> SUFFICES ASSUME Init PROVE IInv OBVIOUS
<1>1. TypeOK BY DEF Init, SpMatInit, TypeOK, SpMatTypeOK, Contents
<1>2. \A s \in Streams : queue[s] = <<>> BY DEF Init, SpMatInit
<1>3. stream \in Streams /\ \A m \in Matrices : desc[m] = NULL
  BY DEF Init, SpMatInit
<1>4. Fits(mem, desc, queue[stream])
  BY <1>1, <1>2, <1>3 DEF Fits, Ordered, Remembered, TypeOK, SpMatTypeOK
<1> QED BY <1>1, <1>2, <1>4 DEF IInv

LEMMA AppendOutcome ==
  ASSUME NEW q \in Seq(Launches), NEW op \in Launches
  PROVE  /\ Append(q, op) \in Seq(Launches)
         /\ Len(Append(q, op)) = Len(q) + 1
         /\ \A i \in 1..Len(q) : Append(q, op)[i] = q[i]
         /\ Append(q, op)[Len(q) + 1] = op
OBVIOUS

(* What has been launched already does not see what is launched next.      *)
LEMMA ProvidedBefore ==
  ASSUME NEW mm, NEW q \in Seq(Launches), NEW op \in Launches,
         NEW i \in 1 .. Len(q) + 1, NEW a, NEW p, Provided(mm, q, i, a, p)
  PROVE  Provided(mm, Append(q, op), i, a, p)
<1> DEFINE r == Append(q, op)
<1>1. \A k \in 1 .. i - 1 : r[k] = q[k] BY AppendOutcome
<1> HIDE DEF r
<1>2. CASE mm[a] = RowIds(p) /\ \A k \in 1 .. i - 1 : ~Expands(q[k], a)
  BY <1>1, <1>2 DEF Provided, r
<1>3. CASE \E j \in 1 .. i - 1 :
             /\ Expands(q[j], a) /\ q[j].arrays = p
             /\ \A k \in j + 1 .. i - 1 : ~Expands(q[k], a)
  <2>1. PICK j \in 1 .. i - 1 :
          /\ Expands(q[j], a) /\ q[j].arrays = p
          /\ \A k \in j + 1 .. i - 1 : ~Expands(q[k], a)
    BY <1>3
  <2>2. /\ Expands(r[j], a) /\ r[j].arrays = p
        /\ \A k \in j + 1 .. i - 1 : ~Expands(r[k], a)
    BY <1>1, <2>1
  <2> QED BY <2>2 DEF Provided, r
<1> QED BY <1>2, <1>3 DEF Provided

(* A launch that does not expand into a leaves what a will hold.           *)
LEMMA ProvidedAfter ==
  ASSUME NEW mm, NEW q \in Seq(Launches), NEW op \in Launches, NEW a, NEW p,
         ~Expands(op, a), Provided(mm, q, Len(q) + 1, a, p)
  PROVE  Provided(mm, Append(q, op), Len(Append(q, op)) + 1, a, p)
<1> DEFINE r == Append(q, op)
<1>1. /\ Len(q) \in Nat /\ Len(r) = Len(q) + 1 /\ r[Len(q) + 1] = op
      /\ \A k \in 1..Len(q) : r[k] = q[k]
  BY AppendOutcome
<1> HIDE DEF r
<1>2. CASE mm[a] = RowIds(p) /\ \A k \in 1..Len(q) : ~Expands(q[k], a)
  <2>1. \A k \in 1..Len(r) : ~Expands(r[k], a) BY <1>1, <1>2
  <2> QED BY <1>1, <1>2, <2>1 DEF Provided, r
<1>3. CASE \E j \in 1..Len(q) :
             /\ Expands(q[j], a) /\ q[j].arrays = p
             /\ \A k \in j + 1 .. Len(q) : ~Expands(q[k], a)
  <2>1. PICK j \in 1..Len(q) :
          /\ Expands(q[j], a) /\ q[j].arrays = p
          /\ \A k \in j + 1 .. Len(q) : ~Expands(q[k], a)
    BY <1>3
  <2>2. /\ j \in 1..Len(r) /\ Expands(r[j], a) /\ r[j].arrays = p
        /\ \A k \in j + 1 .. Len(r) : ~Expands(r[k], a)
    BY <1>1, <2>1
  <2> QED BY <1>1, <2>2 DEF Provided, r
<1> QED BY <1>1, <1>2, <1>3 DEF Provided

(* Launching the expansion, and remembering its buffer.                    *)
LEMMA ExpansionFits ==
  ASSUME Discipline, NEW mm, NEW D, NEW q, Fits(mm, D, q),
         NEW m \in Matrices, NEW a \in Scratch[m], D[m] # NULL,
         NEW op \in Launches, op.kernel = "row_ids", op.mat = m, op.at = a,
         op.arrays = D[m].arrays
  PROVE  Fits(mm, [D EXCEPT ![m].sddmm_row_ids_buffer = a], Append(q, op))
<1> DEFINE r == Append(q, op)
           E == [D EXCEPT ![m].sddmm_row_ids_buffer = a]
<1>1. /\ q \in Seq(Launches) /\ D \in [Matrices -> Descr \cup {NULL}]
      /\ a \in Addresses /\ D[m] \in Descr
  BY SDDMMAssumption DEF Fits
<1>2. /\ r \in Seq(Launches) /\ Len(r) = Len(q) + 1 /\ r[Len(q) + 1] = op
      /\ Len(q) \in Nat
      /\ \A k \in 1..Len(q) : r[k] = q[k]
  BY <1>1, AppendOutcome
<1>3. /\ E \in [Matrices -> Descr \cup {NULL}]
      /\ E[m].sddmm_row_ids_buffer = a /\ E[m].arrays = D[m].arrays
      /\ \A n \in Matrices : n # m => E[n] = D[n]
  BY <1>1 DEF Descr
<1>4. Ordered(mm, r)
  <2> SUFFICES ASSUME NEW i \in 1..Len(r)
               PROVE  /\ OwnBuffer(r[i])
                      /\ r[i].kernel \in {"row_ids", "sddmm"}
                      /\ r[i].kernel = "sddmm" =>
                           Provided(mm, r, i, r[i].at, r[i].arrays)
    BY DEF Ordered
  <2>1. CASE i \in 1..Len(q)
    <3>1. /\ r[i] = q[i] /\ OwnBuffer(q[i])
          /\ q[i].kernel \in {"row_ids", "sddmm"}
          /\ q[i].kernel = "sddmm" =>
               Provided(mm, q, i, q[i].at, q[i].arrays)
      BY <1>2, <2>1 DEF Fits, Ordered
    <3>2. i \in 1 .. Len(q) + 1 BY <1>2, <2>1
    <3> QED BY <1>1, <3>1, <3>2, ProvidedBefore
  <2>2. CASE i = Len(q) + 1 BY <1>2, <2>2 DEF OwnBuffer
  <2> QED BY <1>2, <2>1, <2>2
<1>5. Remembered(mm, E, r)
  <2> SUFFICES ASSUME NEW n \in Matrices, E[n] # NULL,
                      E[n].sddmm_row_ids_buffer # NULL
               PROVE  /\ E[n].sddmm_row_ids_buffer \in Scratch[n]
                      /\ Provided(mm, r, Len(r) + 1,
                                  E[n].sddmm_row_ids_buffer, E[n].arrays)
    BY DEF Remembered
  <2>1. CASE n = m
    <3>1. /\ Len(r) \in 1 .. Len(r) + 1 - 1
          /\ Expands(r[Len(r)], a) /\ r[Len(r)].arrays = D[m].arrays
          /\ \A k \in Len(r) + 1 .. Len(r) + 1 - 1 : ~Expands(r[k], a)
      BY <1>2 DEF Expands
    <3>2. Provided(mm, r, Len(r) + 1, a, D[m].arrays) BY <3>1 DEF Provided
    <3> QED BY <1>3, <2>1, <3>2
  <2>2. CASE n # m
    <3>1. /\ E[n] = D[n] /\ D[n].sddmm_row_ids_buffer \in Scratch[n]
          /\ Provided(mm, q, Len(q) + 1, D[n].sddmm_row_ids_buffer, D[n].arrays)
      BY <1>3, <2>2 DEF Fits, Remembered
    <3>2. ~Expands(op, D[n].sddmm_row_ids_buffer)
      BY <2>2, <3>1 DEF Discipline, PrivateScratch, Expands
    <3> QED BY <1>1, <3>1, <3>2, ProvidedAfter
  <2> QED BY <2>1, <2>2
<1> QED BY <1>2, <1>3, <1>4, <1>5 DEF Fits

(* Launching the product over a buffer that is remembered.                 *)
LEMMA ProductFits ==
  ASSUME NEW mm, NEW D, NEW q, Fits(mm, D, q),
         NEW m \in Matrices, D[m] # NULL,
         NEW op \in Launches, op.kernel = "sddmm", op.mat = m,
         op.at = D[m].sddmm_row_ids_buffer, op.at # NULL,
         op.arrays = D[m].arrays
  PROVE  Fits(mm, D, Append(q, op))
<1> DEFINE r == Append(q, op)
<1>1. q \in Seq(Launches) /\ D \in [Matrices -> Descr \cup {NULL}]
  BY DEF Fits
<1>2. /\ r \in Seq(Launches) /\ Len(r) = Len(q) + 1 /\ r[Len(q) + 1] = op
      /\ Len(q) \in Nat
      /\ \A k \in 1..Len(q) : r[k] = q[k]
  BY <1>1, AppendOutcome
<1>3. /\ OwnBuffer(op)
      /\ Provided(mm, q, Len(q) + 1, op.at, op.arrays)
  BY DEF Fits, Remembered, OwnBuffer
<1>4. Ordered(mm, r)
  <2> SUFFICES ASSUME NEW i \in 1..Len(r)
               PROVE  /\ OwnBuffer(r[i])
                      /\ r[i].kernel \in {"row_ids", "sddmm"}
                      /\ r[i].kernel = "sddmm" =>
                           Provided(mm, r, i, r[i].at, r[i].arrays)
    BY DEF Ordered
  <2>0. i \in 1 .. Len(q) + 1 BY <1>2
  <2>1. CASE i \in 1..Len(q)
    <3>1. /\ r[i] = q[i] /\ OwnBuffer(q[i])
          /\ q[i].kernel \in {"row_ids", "sddmm"}
          /\ q[i].kernel = "sddmm" =>
               Provided(mm, q, i, q[i].at, q[i].arrays)
      BY <1>2, <2>1 DEF Fits, Ordered
    <3> QED BY <1>1, <2>0, <3>1, ProvidedBefore
  <2>2. CASE i = Len(q) + 1
    <3>1. r[i] = op /\ Provided(mm, q, i, op.at, op.arrays) BY <1>2, <1>3, <2>2
    <3>2. Provided(mm, r, i, op.at, op.arrays) BY <1>1, <2>0, <3>1, ProvidedBefore
    <3> QED BY <1>3, <3>1, <3>2
  <2> QED BY <1>2, <2>1, <2>2
<1>5. Remembered(mm, D, r)
  <2> SUFFICES ASSUME NEW n \in Matrices, D[n] # NULL,
                      D[n].sddmm_row_ids_buffer # NULL
               PROVE  /\ D[n].sddmm_row_ids_buffer \in Scratch[n]
                      /\ Provided(mm, r, Len(r) + 1,
                                  D[n].sddmm_row_ids_buffer, D[n].arrays)
    BY DEF Remembered
  <2>1. /\ D[n].sddmm_row_ids_buffer \in Scratch[n]
        /\ Provided(mm, q, Len(q) + 1, D[n].sddmm_row_ids_buffer, D[n].arrays)
    BY DEF Fits, Remembered
  <2>2. ~Expands(op, D[n].sddmm_row_ids_buffer) BY DEF Expands
  <2> QED BY <1>1, <2>1, <2>2, ProvidedAfter
<1> QED BY <1>1, <1>2, <1>4, <1>5 DEF Fits

(* Running the head of a queue: what it expands is in memory from then on. *)
Ran(mm, op) == IF op.kernel = "row_ids"
               THEN [mm EXCEPT ![op.at] = RowIds(op.arrays)] ELSE mm

LEMMA TailOutcome ==
  ASSUME NEW q \in Seq(Launches), q # <<>>
  PROVE  /\ Tail(q) \in Seq(Launches) /\ Len(q) \in Nat \ {0}
         /\ Len(Tail(q)) = Len(q) - 1
         /\ \A k \in 1 .. Len(q) - 1 : Tail(q)[k] = q[k + 1]
         /\ Head(q) = q[1] /\ q[1] \in Launches
OBVIOUS

LEMMA ProvidedOnceRun ==
  ASSUME NEW mm \in [Addresses -> Contents], NEW q \in Seq(Launches), q # <<>>,
         NEW i \in 1..Len(q), NEW a \in Addresses, NEW p,
         Provided(mm, q, i + 1, a, p)
  PROVE  Provided(Ran(mm, q[1]), Tail(q), i, a, p)
<1> DEFINE r == Tail(q)
<1>1. /\ Len(q) \in Nat /\ \A k \in 1 .. Len(q) - 1 : r[k] = q[k + 1]
  BY TailOutcome
<1> HIDE DEF r
<1>2. /\ Expands(q[1], a) => Ran(mm, q[1])[a] = RowIds(q[1].arrays)
      /\ ~Expands(q[1], a) => Ran(mm, q[1])[a] = mm[a]
  BY DEF Ran, Expands
<1>3. CASE mm[a] = RowIds(p) /\ \A k \in 1 .. i : ~Expands(q[k], a)
  <2>1. Ran(mm, q[1])[a] = RowIds(p) BY <1>2, <1>3
  <2>2. \A k \in 1 .. i - 1 : ~Expands(r[k], a) BY <1>1, <1>3
  <2> QED BY <2>1, <2>2 DEF Provided, r
<1>4. CASE \E j \in 1 .. i :
             /\ Expands(q[j], a) /\ q[j].arrays = p
             /\ \A k \in j + 1 .. i : ~Expands(q[k], a)
  <2>1. PICK j \in 1 .. i :
          /\ Expands(q[j], a) /\ q[j].arrays = p
          /\ \A k \in j + 1 .. i : ~Expands(q[k], a)
    BY <1>4
  <2>2. CASE j = 1
    <3>1. Ran(mm, q[1])[a] = RowIds(p) BY <1>2, <2>1, <2>2
    <3>2. \A k \in 1 .. i - 1 : ~Expands(r[k], a) BY <1>1, <2>1, <2>2
    <3> QED BY <3>1, <3>2 DEF Provided, r
  <2>3. CASE j # 1
    <3>1. /\ j - 1 \in 1 .. i - 1
          /\ Expands(r[j - 1], a) /\ r[j - 1].arrays = p
      BY <1>1, <2>1, <2>3
    <3>2. \A k \in (j - 1) + 1 .. i - 1 : ~Expands(r[k], a)
      BY <1>1, <2>1, <2>3
    <3> QED BY <3>1, <3>2 DEF Provided, r
  <2> QED BY <2>2, <2>3
<1> QED BY <1>3, <1>4 DEF Provided

LEMMA RunFits ==
  ASSUME NEW mm \in [Addresses -> Contents], NEW D, NEW q, q # <<>>,
         Fits(mm, D, q)
  PROVE  Fits(Ran(mm, q[1]), D, Tail(q))
<1> DEFINE r == Tail(q)
           w == Ran(mm, q[1])
<1>0. q \in Seq(Launches) BY DEF Fits
<1>1. /\ r \in Seq(Launches) /\ Len(q) \in Nat /\ Len(r) = Len(q) - 1
      /\ \A k \in 1..Len(r) : r[k] = q[k + 1]
  BY <1>0, TailOutcome
<1>2. Ordered(w, r)
  <2> SUFFICES ASSUME NEW i \in 1..Len(r)
               PROVE  /\ OwnBuffer(r[i])
                      /\ r[i].kernel \in {"row_ids", "sddmm"}
                      /\ r[i].kernel = "sddmm" =>
                           Provided(w, r, i, r[i].at, r[i].arrays)
    BY DEF Ordered
  <2>1. i \in 1..Len(q) /\ i + 1 \in 1..Len(q) /\ r[i] = q[i + 1] BY <1>1
  <2>2. /\ OwnBuffer(q[i + 1]) /\ q[i + 1].kernel \in {"row_ids", "sddmm"}
        /\ q[i + 1].kernel = "sddmm" =>
             Provided(mm, q, i + 1, q[i + 1].at, q[i + 1].arrays)
    BY <2>1 DEF Fits, Ordered
  <2>3. q[i + 1].at \in Addresses
    <3>1. q[i + 1] \in Launches BY <1>0, <2>1
    <3> QED BY <2>2, <3>1, SDDMMAssumption DEF OwnBuffer, Launches
  <2> QED BY <1>0, <2>1, <2>2, <2>3, ProvidedOnceRun
<1>3. Remembered(w, D, r)
  <2> SUFFICES ASSUME NEW n \in Matrices, D[n] # NULL,
                      D[n].sddmm_row_ids_buffer # NULL
               PROVE  /\ D[n].sddmm_row_ids_buffer \in Scratch[n]
                      /\ Provided(w, r, Len(r) + 1,
                                  D[n].sddmm_row_ids_buffer, D[n].arrays)
    BY DEF Remembered
  <2>1. /\ D[n].sddmm_row_ids_buffer \in Scratch[n]
        /\ Provided(mm, q, Len(q) + 1, D[n].sddmm_row_ids_buffer, D[n].arrays)
    BY DEF Fits, Remembered
  <2>2. D[n].sddmm_row_ids_buffer \in Addresses BY <2>1, SDDMMAssumption
  <2>3. Len(q) \in 1..Len(q) /\ Len(r) + 1 = Len(q) BY <1>0, <1>1, TailOutcome
  <2>4. Provided(w, r, Len(q), D[n].sddmm_row_ids_buffer, D[n].arrays)
    BY <1>0, <2>1, <2>2, <2>3, ProvidedOnceRun
  <2> QED BY <2>1, <2>3, <2>4
<1> QED BY <1>1, <1>2, <1>3 DEF Fits

(* A descriptor that remembers no buffer promises nothing.                 *)
LEMMA ForgetFits ==
  ASSUME NEW mm, NEW D, NEW q, Fits(mm, D, q), NEW m \in Matrices,
         NEW x \in Descr \cup {NULL}, x # NULL => x.sddmm_row_ids_buffer = NULL
  PROVE  Fits(mm, [D EXCEPT ![m] = x], q)
<1> DEFINE E == [D EXCEPT ![m] = x]
<1>1. /\ E \in [Matrices -> Descr \cup {NULL}] /\ E[m] = x
      /\ \A n \in Matrices : n # m => E[n] = D[n]
  BY DEF Fits
<1>2. Remembered(mm, E, q) BY <1>1 DEF Fits, Remembered
<1> QED BY <1>1, <1>2 DEF Fits

----------------------------------------------------------------------------
(* Steps that leave the streams alone.                                     *)
LEMMA MatrixCallKeeps ==
  ASSUME IInv, NEW m \in Matrices, NEW x \in Descr \cup {NULL},
         x # NULL => x.sddmm_row_ids_buffer = NULL,
         desc' = [desc EXCEPT ![m] = x], UNCHANGED <<mem, queue, stream>>
  PROVE  IInv'
<1>1. TypeOK' BY DEF IInv, TypeOK, SpMatTypeOK
<1>2. Fits(mem, desc', queue[stream]) BY ForgetFits DEF IInv
<1> QED BY <1>1, <1>2 DEF IInv

LEMMA OnBufferTyped ==
  ASSUME TypeOK, NEW m \in Matrices, NEW a \in Scratch[m], desc[m] # NULL,
         NEW k \in {"row_ids", "sddmm"}
  PROVE  /\ OnBuffer(k, m, a) \in Launches
         /\ OnBuffer(k, m, a).kernel = k /\ OnBuffer(k, m, a).mat = m
         /\ OnBuffer(k, m, a).at = a
         /\ OnBuffer(k, m, a).arrays = desc[m].arrays
         /\ a \in Addresses /\ a # NULL
<1>1. desc[m].arrays \in Patterns /\ a \in Addresses
  BY SDDMMAssumption DEF TypeOK, SpMatTypeOK, Descr
<1> QED BY <1>1, SpMatAssumption DEF OnBuffer, Launches, Kernels

(* The handle's queue and descriptor m move on together.                   *)
LEMMA LaunchKeeps ==
  ASSUME IInv, NEW m \in Matrices, NEW a \in Addresses, NEW q,
         queue' = [queue EXCEPT ![stream] = q],
         desc' = [desc EXCEPT ![m].sddmm_row_ids_buffer = a],
         UNCHANGED <<mem, stream>>, Fits(mem, desc', q)
  PROVE  IInv'
<1>1. stream \in Streams /\ queue \in [Streams -> Seq(Launches)]
  BY DEF IInv, TypeOK, SpMatTypeOK
<1>2. q \in Seq(Launches) /\ desc' \in [Matrices -> Descr \cup {NULL}]
  BY DEF Fits
<1>3. queue'[stream] = q /\ \A s \in Streams : s # stream => queue'[s] = queue[s]
  BY <1>1
<1>4. TypeOK' BY <1>1, <1>2 DEF IInv, TypeOK, SpMatTypeOK
<1> QED BY <1>3, <1>4 DEF IInv

LEMMA PreprocessKeeps ==
  ASSUME IInv, Discipline, NEW m \in Matrices, NEW a \in Scratch[m],
         Preprocess(m, a)
  PROVE  IInv'
<1>1. PICK op : op = OnBuffer("row_ids", m, a) OBVIOUS
<1>2. desc[m] # NULL BY DEF Preprocess, Samples
<1>3. /\ op \in Launches /\ op.kernel = "row_ids" /\ op.mat = m /\ op.at = a
      /\ op.arrays = desc[m].arrays /\ a \in Addresses
  BY <1>1, <1>2, OnBufferTyped DEF IInv
<1>4. Fits(mem, desc', Append(queue[stream], op))
  BY <1>2, <1>3, ExpansionFits DEF IInv, Preprocess
<1>5. queue' = [queue EXCEPT ![stream] = Append(queue[stream], op)]
  BY <1>1 DEF Preprocess
<1> QED BY <1>3, <1>4, <1>5, LaunchKeeps DEF Preprocess

LEMMA PrefixOfTwo ==
  ASSUME NEW e \in Launches, NEW s \in Launches, NEW k \in 1..2
  PROVE  SubSeq(<<e, s>>, 1, k) = <<e>> \/ SubSeq(<<e, s>>, 1, k) = <<e, s>>
<1>1. <<e, s>> \in Seq(Launches) /\ Len(<<e, s>>) = 2 OBVIOUS
<1>2. CASE k = 2 BY <1>1, <1>2, SubSeqFull
<1>3. CASE k = 1
  <2>1. /\ SubSeq(<<e, s>>, 1, 1) \in Seq(Launches)
        /\ Len(SubSeq(<<e, s>>, 1, 1)) = 1
        /\ SubSeq(<<e, s>>, 1, 1)[1] = e
    BY <1>1, SubSeqProperties
  <2>2. <<e>> \in Seq(Launches) /\ Len(<<e>>) = 1 /\ <<e>>[1] = e OBVIOUS
  <2>3. \A i \in 1..1 : SubSeq(<<e, s>>, 1, 1)[i] = <<e>>[i] BY <2>1, <2>2
  <2>4. SubSeq(<<e, s>>, 1, 1) = <<e>> BY <2>1, <2>2, <2>3, SeqEqual
  <2> QED BY <1>3, <2>4
<1> QED BY <1>2, <1>3

LEMMA ProductKeeps ==
  ASSUME IInv, Discipline, NEW m \in Matrices, NEW a \in Scratch[m],
         Product(m, a)
  PROVE  IInv'
<1>1. PICK e, s : e = OnBuffer("row_ids", m, a) /\ s = OnBuffer("sddmm", m, a)
  OBVIOUS
<1>2. desc[m] # NULL BY DEF Product, Samples
<1>3. /\ e \in Launches /\ e.kernel = "row_ids" /\ e.mat = m /\ e.at = a
      /\ s \in Launches /\ s.kernel = "sddmm" /\ s.mat = m /\ s.at = a
      /\ e.arrays = desc[m].arrays /\ s.arrays = desc[m].arrays
      /\ a \in Addresses /\ a # NULL
  BY <1>1, <1>2, OnBufferTyped DEF IInv
<1>4. /\ queue[stream] \in Seq(Launches) /\ desc[m] \in Descr
      /\ desc \in [Matrices -> Descr \cup {NULL}]
  BY <1>2 DEF IInv, TypeOK, SpMatTypeOK
<1>5. /\ desc' = [desc EXCEPT ![m].sddmm_row_ids_buffer = a]
      /\ UNCHANGED <<mem, stream>>
  BY DEF Product
<1>6. desc'[m].arrays = desc[m].arrays /\ desc'[m].sddmm_row_ids_buffer = a
      /\ desc'[m] # NULL
  <2>1. desc'[m] = [desc[m] EXCEPT !.sddmm_row_ids_buffer = a] BY <1>4, <1>5
  <2>2. desc'[m] \in Descr BY <1>3, <1>4, <2>1 DEF Descr
  <2>3. desc'[m] # NULL BY <2>2, SpMatAssumption
  <2> QED BY <1>4, <2>1, <2>3 DEF Descr
<1>7. CASE Kept(m, a)
  <2>1. PICK k \in 1..1 :
          queue' = [queue EXCEPT ![stream] = @ \o SubSeq(<<s>>, 1, k)]
    BY <1>1, <1>7 DEF Product, ProductLaunches
  <2>2. SubSeq(<<s>>, 1, k) = <<s>>
    <3>1. <<s>> \in Seq(Launches) /\ Len(<<s>>) = 1 BY <1>3
    <3>2. k = 1 BY <2>1
    <3> QED BY <3>1, <3>2, SubSeqFull
  <2>3. queue[stream] \o <<s>> = Append(queue[stream], s) BY <1>3, <1>4
  <2>4. desc' = desc BY <1>4, <1>5, <1>7 DEF Kept, Descr
  <2>5. Fits(mem, desc, Append(queue[stream], s))
    BY <1>2, <1>3, <1>7, ProductFits DEF IInv, Kept
  <2>6. queue' = [queue EXCEPT ![stream] = Append(queue[stream], s)]
    BY <2>1, <2>2, <2>3
  <2> QED BY <1>3, <1>5, <2>4, <2>5, <2>6, LaunchKeeps
<1>8. CASE ~Kept(m, a)
  <2>1. PICK k \in 1..2 :
          queue' = [queue EXCEPT ![stream] = @ \o SubSeq(<<e, s>>, 1, k)]
    BY <1>1, <1>8 DEF Product, ProductLaunches
  <2>2. Fits(mem, desc', Append(queue[stream], e))
    BY <1>2, <1>3, <1>5, ExpansionFits DEF IInv
  <2>3. Fits(mem, desc', Append(Append(queue[stream], e), s))
    BY <1>3, <1>6, <2>2, ProductFits
  <2>4. CASE SubSeq(<<e, s>>, 1, k) = <<e>>
    <3>1. queue[stream] \o <<e>> = Append(queue[stream], e) BY <1>3, <1>4
    <3>2. queue' = [queue EXCEPT ![stream] = Append(queue[stream], e)]
      BY <2>1, <2>4, <3>1
    <3> QED BY <1>3, <1>5, <2>2, <3>2, LaunchKeeps
  <2>5. CASE SubSeq(<<e, s>>, 1, k) = <<e, s>>
    <3>1. queue[stream] \o <<e, s>> = Append(Append(queue[stream], e), s)
      BY <1>3, <1>4
    <3>2. queue' = [queue EXCEPT ![stream] = Append(Append(queue[stream], e), s)]
      BY <2>1, <2>5, <3>1
    <3> QED BY <1>3, <1>5, <2>3, <3>2, LaunchKeeps
  <2> QED BY <1>3, <2>4, <2>5, PrefixOfTwo
<1> QED BY <1>7, <1>8

LEMMA NewDescrForgets ==
  ASSUME NEW p \in Patterns
  PROVE  /\ NewDescr("CSR", p) \in Descr
         /\ NewDescr("CSR", p).sddmm_row_ids_buffer = NULL
BY DEF NewDescr, Descr, Formats, OffsetFormats

LEMMA OnMatrixKeeps ==
  ASSUME IInv, Discipline, NEW m \in Matrices, OnMatrix(m)
  PROVE  IInv'
<1>1. CASE \E p \in Patterns : CreateMat(m, "CSR", p)
  BY <1>1, NewDescrForgets, MatrixCallKeeps DEF CreateMat
<1>2. CASE DestroyMat(m) BY <1>2, MatrixCallKeeps DEF DestroyMat
<1>3. CASE \E p \in Patterns : CsrSetPointers(m, p)
  BY <1>3, NewDescrForgets, MatrixCallKeeps DEF CsrSetPointers
<1>4. CASE \E a \in Scratch[m] : Preprocess(m, a) \/ Product(m, a)
  BY <1>4, PreprocessKeeps, ProductKeeps
<1> QED BY <1>1, <1>2, <1>3, <1>4 DEF OnMatrix

(* No stream is left with launches outstanding.                            *)
LEMMA ChangeStreamKeeps ==
  ASSUME IInv, Discipline, NEW s \in Streams, ChangeStream(s)
  PROVE  IInv'
<1>1. /\ queue[stream] = <<>> /\ stream' = s /\ UNCHANGED <<desc, mem, queue>>
  BY DEF ChangeStream, SetStream, Discipline
<1>2. \A t \in Streams : queue[t] = <<>> BY <1>1 DEF IInv
<1>3. TypeOK' BY <1>1 DEF IInv, TypeOK, SpMatTypeOK
<1>4. Fits(mem, desc, queue[s]) BY <1>1, <1>2 DEF IInv
<1> QED BY <1>1, <1>2, <1>3, <1>4 DEF IInv

LEMMA RunKeeps ==
  ASSUME IInv, NEW s \in Streams, RunKernel(s)
  PROVE  IInv'
<1>1. /\ queue[s] # <<>> /\ UNCHANGED <<desc, stream>>
      /\ queue' = [queue EXCEPT ![s] = Tail(@)]
      /\ s = stream
  BY DEF RunKernel, IInv
<1>2. queue \in [Streams -> Seq(Launches)] /\ mem \in [Addresses -> Contents]
  BY DEF IInv, TypeOK, SpMatTypeOK
<1>3. Head(queue[s]) = queue[s][1] /\ queue[s][1] \in Launches
      /\ Tail(queue[s]) \in Seq(Launches)
  BY <1>1, <1>2, TailOutcome
<1>4. mem' = Ran(mem, queue[s][1]) BY <1>3 DEF RunKernel, Ran
<1>5. Fits(mem', desc, Tail(queue[s]))
  BY <1>1, <1>2, <1>4, RunFits DEF IInv
<1>6. mem' \in [Addresses -> Contents]
  BY <1>2, <1>3, <1>4 DEF Ran, Contents, Launches
<1>7. queue'[s] = Tail(queue[s]) /\ \A t \in Streams : t # s => queue'[t] = queue[t]
  BY <1>1, <1>2
<1>8. TypeOK' BY <1>1, <1>2, <1>3, <1>6 DEF IInv, TypeOK, SpMatTypeOK
<1> QED BY <1>1, <1>5, <1>7, <1>8 DEF IInv

LEMMA NextIInv ==
  ASSUME IInv, Discipline, [Next]_matVars
  PROVE  IInv'
<1>1. CASE \E m \in Matrices : OnMatrix(m) BY <1>1, OnMatrixKeeps
<1>2. CASE \E s \in Streams : ChangeStream(s) BY <1>2, ChangeStreamKeeps
<1>3. CASE \E s \in Streams : RunKernel(s) BY <1>3, RunKeeps
<1>4. CASE UNCHANGED matVars
  BY <1>4 DEF matVars, IInv, TypeOK, SpMatTypeOK
<1> QED BY <1>1, <1>2, <1>3, <1>4 DEF Next

----------------------------------------------------------------------------
(* The inductive invariant: only the handle's stream has work, and on it   *)
(* every product comes after the expansion it reads, with no expansion     *)
(* into the same buffer between the two (src/ops/sddmm.cpp run).           *)
THEOREM SDDMMInvariant ==
  ASSUME Discipline
  PROVE  Spec => []IInv
<1>1. IInv /\ [Next]_matVars => IInv' BY NextIInv
<1> QED BY InitIInv, <1>1, PTL DEF Spec

(* Every product finds its own row ids (src/ops/sddmm.cpp run).            *)
THEOREM ProductsReadOwnRowIds ==
  ASSUME Discipline
  PROVE  Spec => []ReadsOwnRowIds
<1>1. IInv => ReadsOwnRowIds
  <2> SUFFICES ASSUME IInv, NEW s \in Streams, queue[s] # <<>>
               PROVE  Satisfied(Head(queue[s]), mem)
    BY DEF ReadsOwnRowIds
  <2>1. s = stream /\ queue[s] \in Seq(Launches)
    BY DEF IInv, TypeOK, SpMatTypeOK
  <2>2. Head(queue[s]) = queue[s][1] /\ Len(queue[s]) \in Nat \ {0}
    BY <2>1, TailOutcome
  <2>3. PICK op : op = queue[s][1] OBVIOUS
  <2>4. /\ op.kernel \in {"row_ids", "sddmm"}
        /\ op.kernel = "sddmm" => Provided(mem, queue[s], 1, op.at, op.arrays)
    BY <2>1, <2>2, <2>3 DEF IInv, Fits, Ordered
  <2>5. op.kernel = "sddmm" => mem[op.at] = RowIds(op.arrays)
    BY <2>4 DEF Provided
  <2> QED BY <2>2, <2>3, <2>4, <2>5 DEF Satisfied, ReadsOffsets
<1> QED BY <1>1, SDDMMInvariant, PTL

(* A remembered buffer holds, or will hold, the row ids of the matrix that *)
(* remembers it (src/ops/sddmm.cpp preprocess and run).                    *)
THEOREM RememberedIdsComeTrue ==
  ASSUME Discipline
  PROVE  Spec => []RememberedIdsArrive
<1>1. IInv => RememberedIdsArrive
  <2> SUFFICES ASSUME IInv, NEW m \in Matrices, desc[m] # NULL,
                      desc[m].sddmm_row_ids_buffer # NULL,
                      NEW a, a = desc[m].sddmm_row_ids_buffer,
                      mem[a] # RowIds(desc[m].arrays)
               PROVE  \E op \in Pending :
                        Expands(op, a) /\ op.arrays = desc[m].arrays
    BY DEF RememberedIdsArrive
  <2>1. stream \in Streams /\ Len(queue[stream]) \in Nat
    BY DEF IInv, TypeOK, SpMatTypeOK
  <2>2. Provided(mem, queue[stream], Len(queue[stream]) + 1, a, desc[m].arrays)
    BY DEF IInv, Fits, Remembered
  <2>3. PICK j \in 1..Len(queue[stream]) :
          Expands(queue[stream][j], a) /\ queue[stream][j].arrays = desc[m].arrays
    BY <2>1, <2>2 DEF Provided
  <2>4. queue[stream][j] \in Pending BY <2>1, <2>3 DEF Pending
  <2> QED BY <2>3, <2>4
<1> QED BY <1>1, SDDMMInvariant, PTL
=============================================================================
