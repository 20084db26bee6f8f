----------------------------- MODULE SpSVProofs -----------------------------
(***************************************************************************)
(* What the solve's two calls promise for any number of matrices,          *)
(* descriptors, buffers and streams, and what each promise asks of the     *)
(* caller: the flags, that every stream waits for the default one; the     *)
(* columns, that a matrix is analysed again after it changes; the offsets, *)
(* that and a buffer of its own for each matrix.                           *)
(***************************************************************************)
EXTENDS SpSV, SequenceTheorems, TLAPS

PrivateWorkspaces ==
  \A d, e \in SolveDescrs, m, n \in Matrices :
    m # n => Workspace[d][m] \cap Workspace[e][n] = {}

Remembers(d, m) == sp[d] # NULL /\ sp[d].analysed /\ sp[d].analysed_matrix = m

(* Asked of nobody: a stream that runs a launch has one, and launches were *)
(* given the first half of a buffer.                                       *)
BaseInv ==
  /\ TypeOK
  /\ \A s \in Streams : busy[s] => queue[s] # <<>>
  /\ \A op \in Pending : op.at \in Bases

(* One launch at most is outstanding on the whole device: clearing the     *)
(* flags waits for the last one.                                           *)
OneLaunch(s) ==
  queue[s] # <<>> =>
    /\ Len(queue[s]) = 1
    /\ \A t \in Streams \ {s} : queue[t] = <<>>
    /\ mem[queue[s][1].at] = IF busy[s] THEN InUse(s) ELSE Cleared

FlagsInv == BaseInv /\ \A s \in Streams : OneLaunch(s)

(* A remembered matrix lives, and is as analysis found it.                 *)
Checked(m) ==
  /\ desc[m] # NULL
  /\ desc[m].format \in {"CSR", "COO"} => ColsAscend[desc[m].arrays]

LaunchChecked(op) ==
  op.kernel \in {"spsv_csr", "spsv_coo"} => ColsAscend[op.arrays]

CarefulInv ==
  /\ BaseInv
  /\ \A d \in SolveDescrs, m \in Matrices : Remembers(d, m) => Checked(m)
  /\ \A op \in Pending : LaunchChecked(op)

(* A COO matrix that a descriptor remembers has its offsets in the second  *)
(* half of the buffer that descriptor keeps.                               *)
OffsetsKept(d, m) ==
  /\ sp[d].buffer \in Workspace[d][m]
  /\ desc[m].format = "COO" =>
       mem[Second[sp[d].buffer]] = Offsets(desc[m].arrays)

(* A COO launch belongs to a living matrix, and its buffer to that matrix. *)
LaunchKept(op) ==
  op.kernel = "spsv_coo" =>
    /\ desc[op.mat] # NULL
    /\ desc[op.mat].format = "COO" /\ desc[op.mat].arrays = op.arrays
    /\ \E d \in SolveDescrs : op.at \in Workspace[d][op.mat]
    /\ mem[Second[op.at]] = Offsets(op.arrays)

OffsetsInv ==
  /\ CarefulInv
  /\ \A d \in SolveDescrs, m \in Matrices :
       Remembers(d, m) => OffsetsKept(d, m)
  /\ \A op \in Pending : LaunchKept(op)

----------------------------------------------------------------------------
(* Facts about buffers, builds and queues *)

LEMMA SecondIsApart ==
  ASSUME NEW a \in Bases
  PROVE  /\ a \in Addresses /\ Second[a] \in Addresses
         /\ \A b \in Bases : /\ Second[b] # a
                             /\ Second[a] = Second[b] => a = b
BY SpSVAssumption

LEMMA WorkspaceIsBases ==
  ASSUME NEW d \in SolveDescrs, NEW m \in Matrices
  PROVE  Workspace[d][m] \subseteq Bases
BY SpSVAssumption

(* A build leaves the arrays of the descriptor alone, writes nothing but   *)
(* its buffer, does not spoil a buffer already right, and fills it where   *)
(* it reports success.                                                     *)
BuildKeeps(d, mm, a, r) ==
  /\ r.d \in Descr /\ r.d.format = d.format /\ r.d.arrays = d.arrays
  /\ r.mem \in [Addresses -> Contents]
  /\ \A b \in Addresses : b # a => r.mem[b] = mm[b]
  /\ r.ok \/ mm[a] = Offsets(d.arrays) => r.mem[a] = Offsets(d.arrays)

LEMMA BuildIsLocal ==
  ASSUME NEW d \in Descr, NEW mm \in [Addresses -> Contents],
         NEW a \in Addresses, NEW r \in BuildCooRowOffsets(d, mm, a)
  PROVE  BuildKeeps(d, mm, a, r)
<1> DEFINE image == Offsets(d.arrays)
           full == [mm EXCEPT ![a] = image]
           torn == TornUpload(mm, a, image)
<1>1. d.arrays \in Patterns /\ LongestRow[d.arrays] \in Nat
  BY SpMatAssumption DEF Descr
<1>2. \A w \in {full, torn, mm} :
        /\ w \in [Addresses -> Contents]
        /\ \A b \in Addresses : b # a => w[b] = mm[b]
        /\ w = full \/ mm[a] = image => w[a] = image
  BY <1>1 DEF TornUpload, Contents
<1>3. \A uploaded \in BOOLEAN :
        /\ Recorded(d, a, uploaded) \in Descr
        /\ Recorded(d, a, uploaded).format = d.format
        /\ Recorded(d, a, uploaded).arrays = d.arrays
  BY <1>1 DEF Recorded, Descr
<1> HIDE DEF full, torn
<1>4. \/ r = [ok |-> FALSE, d |-> d, mem |-> mm]
      \/ r = [ok |-> TRUE, d |-> Recorded(d, a, TRUE), mem |-> full]
      \/ \E w \in {mm, torn} :
           r = [ok |-> FALSE, d |-> Recorded(d, a, FALSE), mem |-> w]
  BY DEF BuildCooRowOffsets, full, torn
<1>5. CASE r = [ok |-> FALSE, d |-> d, mem |-> mm]
  BY <1>2, <1>5 DEF BuildKeeps
<1>6. CASE r = [ok |-> TRUE, d |-> Recorded(d, a, TRUE), mem |-> full]
  <2>1. r.ok = TRUE /\ r.d = Recorded(d, a, TRUE) /\ r.mem = full BY <1>6
  <2> QED BY <1>2, <1>3, <2>1 DEF BuildKeeps
<1>7. ASSUME NEW w \in {mm, torn},
             r = [ok |-> FALSE, d |-> Recorded(d, a, FALSE), mem |-> w]
      PROVE  BuildKeeps(d, mm, a, r)
  <2>1. r.ok = FALSE /\ r.d = Recorded(d, a, FALSE) /\ r.mem = w BY <1>7
  <2> QED BY <1>2, <1>3, <2>1 DEF BuildKeeps
<1> QED BY <1>4, <1>5, <1>6, <1>7

LEMMA PendingIs ==
  ASSUME NEW op
  PROVE  op \in Pending <=>
           \E s \in Streams : \E i \in 1..Len(queue[s]) : op = queue[s][i]
BY DEF Pending

LEMMA PendingTyped ==
  ASSUME TypeOK
  PROVE  Pending \subseteq Launches
<1>1. ASSUME NEW s \in Streams, NEW i \in 1..Len(queue[s])
      PROVE  queue[s][i] \in Launches
  <2>1. queue[s] \in Seq(Launches) BY DEF TypeOK, SpMatTypeOK
  <2> QED BY <2>1
<1> QED BY <1>1 DEF Pending

LEMMA HeadIsPending ==
  ASSUME TypeOK, NEW s \in Streams, queue[s] # <<>>
  PROVE  /\ Head(queue[s]) = queue[s][1]
         /\ Head(queue[s]) \in Pending /\ Head(queue[s]) \in Launches
<1>1. queue[s] \in Seq(Launches) BY DEF TypeOK, SpMatTypeOK
<1>2. 1 \in 1..Len(queue[s]) /\ Head(queue[s]) = queue[s][1]
  BY <1>1, EmptySeq
<1>3. Head(queue[s]) \in Pending BY <1>2, PendingIs
<1> QED BY <1>2, <1>3, PendingTyped

(* A solve's launch joins the handle's stream, or fails.                   *)
LEMMA LaunchOne ==
  ASSUME TypeOK, NEW op \in Launches, LaunchInOrder(<<op>>)
  PROVE  /\ \/ queue' = queue
            \/ queue' = [queue EXCEPT ![stream] = Append(@, op)]
         /\ queue' \in [Streams -> Seq(Launches)]
         /\ Pending' \subseteq Pending \cup {op}
         /\ \A s \in Streams : queue[s] # <<>> => queue'[s] # <<>>
<1>1. PICK k \in 0..1 :
        queue' = [queue EXCEPT ![stream] = @ \o SubSeq(<<op>>, 1, k)]
  BY DEF LaunchInOrder
<1>2. /\ stream \in Streams /\ queue \in [Streams -> Seq(Launches)]
      /\ queue[stream] \in Seq(Launches)
  BY DEF TypeOK, SpMatTypeOK
<1>3. CASE k = 0
  <2>1. queue[stream] \o SubSeq(<<op>>, 1, k) = queue[stream] BY <1>2, <1>3
  <2>2. queue' = queue BY <1>1, <1>2, <2>1
  <2> QED BY <1>2, <2>2 DEF Pending
<1>4. CASE k = 1
  <2>1. SubSeq(<<op>>, 1, k) = <<op>>
    <3>1. <<op>> \in Seq({op}) /\ Len(<<op>>) = 1 OBVIOUS
    <3> QED BY <1>4, <3>1, SubSeqFull
  <2> DEFINE all == Append(queue[stream], op)
  <2>2. queue[stream] \o <<op>> = all BY <1>2
  <2>3. queue' = [queue EXCEPT ![stream] = all] BY <1>1, <2>1, <2>2
  <2>4. /\ all \in Seq(Launches) /\ all # <<>>
        /\ Len(all) = Len(queue[stream]) + 1
        /\ \A i \in 1..Len(all) :
             \/ all[i] = op
             \/ i \in 1..Len(queue[stream]) /\ all[i] = queue[stream][i]
    <3>1. all \in Seq(Launches) /\ Len(all) = Len(queue[stream]) + 1
      BY <1>2, AppendProperties
    <3>2. \A i \in 1..Len(queue[stream]) : all[i] = queue[stream][i]
      BY <1>2, AppendProperties
    <3>3. all[Len(queue[stream]) + 1] = op BY <1>2, AppendProperties
    <3>4. Len(queue[stream]) \in Nat BY <1>2
    <3> HIDE DEF all
    <3> QED BY <3>1, <3>2, <3>3, <3>4
  <2> HIDE DEF all
  <2>5. ASSUME NEW s \in Streams, NEW i \in 1..Len(queue'[s])
        PROVE  queue'[s][i] \in Pending \cup {op}
    <3>1. CASE s = stream BY <1>2, <2>3, <2>4, <2>5, <3>1 DEF Pending
    <3>2. CASE s # stream BY <1>2, <2>3, <2>5, <3>2 DEF Pending
    <3> QED BY <3>1, <3>2
  <2>6. Pending' \subseteq Pending \cup {op} BY <2>5 DEF Pending
  <2>7. queue' \in [Streams -> Seq(Launches)] BY <1>2, <2>3, <2>4
  <2>8. \A s \in Streams : queue[s] # <<>> => queue'[s] # <<>>
    BY <1>2, <2>3, <2>4
  <2>9. queue' = [queue EXCEPT ![stream] = Append(@, op)] BY <2>3 DEF all
  <2> QED BY <2>6, <2>7, <2>8, <2>9
<1> QED BY <1>3, <1>4

LEMMA DropHead ==
  ASSUME TypeOK, NEW s \in Streams, queue[s] # <<>>,
         queue' = [queue EXCEPT ![s] = Tail(@)]
  PROVE  /\ queue' \in [Streams -> Seq(Launches)]
         /\ Pending' \subseteq Pending
<1>1. /\ queue \in [Streams -> Seq(Launches)] /\ queue[s] \in Seq(Launches)
  BY DEF TypeOK, SpMatTypeOK
<1> DEFINE rest == Tail(queue[s])
<1>2. /\ rest \in Seq(Launches)
      /\ \A i \in 1..Len(rest) : /\ i + 1 \in 1..Len(queue[s])
                                 /\ rest[i] = queue[s][i + 1]
  BY <1>1, HeadTailProperties, EmptySeq
<1> HIDE DEF rest
<1>3. queue' = [queue EXCEPT ![s] = rest] BY DEF rest
<1>4. ASSUME NEW t \in Streams, NEW i \in 1..Len(queue'[t])
      PROVE  queue'[t][i] \in Pending
  <2>1. CASE t = s BY <1>1, <1>2, <1>3, <1>4, <2>1 DEF Pending
  <2>2. CASE t # s BY <1>1, <1>3, <1>4, <2>2 DEF Pending
  <2> QED BY <2>1, <2>2
<1> QED BY <1>1, <1>2, <1>3, <1>4 DEF Pending

(* The first halves are written by calls and kernels; nothing they write   *)
(* reaches a second half.                                                  *)
LEMMA FirstHalfOnly ==
  ASSUME TypeOK, NEW a \in Bases, NEW c \in Contents,
         mem' = [mem EXCEPT ![a] = c]
  PROVE  /\ mem' \in [Addresses -> Contents] /\ mem'[a] = c
         /\ \A b \in Bases : mem'[Second[b]] = mem[Second[b]]
BY SecondIsApart DEF TypeOK, SpMatTypeOK

LEMMA NewDescrTyped ==
  ASSUME NEW f \in Formats, NEW p \in Patterns
  PROVE  NewDescr(f, p) \in Descr
BY DEF NewDescr, Descr

----------------------------------------------------------------------------
(* What each call does to the state, as the invariants need it *)

LEMMA OnMatrixDoes ==
  ASSUME NEW m \in Matrices, OnMatrix(m)
  PROVE  /\ UNCHANGED <<mem, queue, stream>>
         /\ \E x \in Descr \cup {NULL} : desc' = [desc EXCEPT ![m] = x]
         /\ \/ desc[m] = NULL
            \/ MayChange(m) /\ desc[m].format = "CSR"
            \/ MayChange(m) /\ \A op \in Pending : op.mat # m
<1>1. ASSUME NEW f \in SolveFormats, NEW p \in Patterns, CreateMat(m, f, p)
      PROVE  /\ UNCHANGED <<mem, queue, stream>> /\ desc[m] = NULL
             /\ \E x \in Descr \cup {NULL} : desc' = [desc EXCEPT ![m] = x]
  <2>1. f \in Formats BY DEF SolveFormats, Formats, OffsetFormats
  <2> QED BY <1>1, <2>1, NewDescrTyped DEF CreateMat
<1>2. ASSUME DestroyMat(m)
      PROVE  /\ UNCHANGED <<mem, queue, stream>>
             /\ \A op \in Pending : op.mat # m
             /\ \E x \in Descr \cup {NULL} : desc' = [desc EXCEPT ![m] = x]
  BY <1>2 DEF DestroyMat
<1>3. ASSUME NEW p \in Patterns, CsrSetPointers(m, p)
      PROVE  /\ UNCHANGED <<mem, queue, stream>> /\ desc[m].format = "CSR"
             /\ \E x \in Descr \cup {NULL} : desc' = [desc EXCEPT ![m] = x]
  <2>1. "CSR" \in Formats BY DEF Formats, OffsetFormats
  <2> QED BY <1>3, <2>1, NewDescrTyped DEF CsrSetPointers
<1> QED BY <1>1, <1>2, <1>3 DEF OnMatrix

(* The calls that change nothing but SpSV descriptor d.                    *)
DescrStep(d, x) ==
  /\ x \in SolveDescr \cup {NULL}
  /\ sp' = [sp EXCEPT ![d] = x]
  /\ UNCHANGED <<desc, mem, queue, stream, busy>>

LEMMA DescrCallsDo ==
  ASSUME NEW d \in SolveDescrs, CreateDescr(d) \/ DestroyDescr(d)
  PROVE  \E x \in {NoDescr, NULL} : DescrStep(d, x)
BY DEF CreateDescr, DestroyDescr, DescrStep, SolveDescr, matVars

LEMMA AnalysisDoes ==
  ASSUME BaseInv, NEW d \in SolveDescrs, NEW m \in Matrices,
         NEW b \in Workspace[d][m], Analysis(d, m, b)
  PROVE  /\ desc[m] \in Descr /\ desc[m] # NULL
         /\ Analysed(m, b) \in SolveDescr
         /\ \/ /\ desc[m].format # "COO" /\ DescrStep(d, Analysed(m, b))
               /\ desc[m].format = "CSR" => ColsAscend[desc[m].arrays]
            \/ AnalyseCoo(d, m, b) /\ UNCHANGED <<queue, stream, busy>>
<1>1. b \in Bases BY WorkspaceIsBases
<1>2. desc[m] \in Descr /\ desc[m] # NULL
  BY DEF Analysis, BaseInv, TypeOK, SpMatTypeOK
<1>3. Analysed(m, b) \in SolveDescr BY <1>1 DEF SolveDescr
<1> QED BY <1>2, <1>3 DEF Analysis, AnalyseSell, AnalyseCsr, DescrStep

(* The upload and what follows it, with the descriptor it leaves.          *)
LEMMA AnalyseCooDoes ==
  ASSUME BaseInv, NEW d \in SolveDescrs, NEW m \in Matrices,
         NEW b \in Workspace[d][m], desc[m] # NULL, AnalyseCoo(d, m, b)
  PROVE  /\ BlockingIdle /\ b \in Bases /\ Second[b] \in Addresses
         /\ desc[m].format = "COO"
         /\ \E r : /\ BuildKeeps(desc[m], mem, Second[b], r)
                  /\ desc' = [desc EXCEPT ![m] = r.d] /\ mem' = r.mem
                  /\ \/ UNCHANGED sp
                     \/ /\ r.ok /\ ColsAscend[desc[m].arrays]
                        /\ sp' = [sp EXCEPT ![d] = Analysed(m, b)]
<1>1. b \in Bases /\ Second[b] \in Addresses
  BY WorkspaceIsBases, SecondIsApart
<1>2. desc[m] \in Descr /\ mem \in [Addresses -> Contents]
  BY DEF BaseInv, TypeOK, SpMatTypeOK
<1>3. PICK r \in BuildCooRowOffsets(desc[m], mem, Second[b]) :
        /\ desc' = [desc EXCEPT ![m] = r.d] /\ mem' = r.mem
        /\ \/ UNCHANGED sp
           \/ /\ r.ok /\ ColsAscend[desc[m].arrays]
              /\ sp' = [sp EXCEPT ![d] = Analysed(m, b)]
  BY DEF AnalyseCoo
<1>4. BuildKeeps(desc[m], mem, Second[b], r) BY <1>1, <1>2, BuildIsLocal
<1> QED BY <1>1, <1>3, <1>4 DEF AnalyseCoo

(* The launch a solve of m with d makes.                                   *)
LaunchOf(d, m) ==
  [kernel |-> KernelOf[desc[m].format], mat |-> m, arrays |-> desc[m].arrays,
   at |-> sp[d].buffer, segments |-> 0]

LEMMA SolveDoes ==
  ASSUME BaseInv, NEW d \in SolveDescrs, NEW m \in Matrices, Solve(d, m)
  PROVE  /\ Remembers(d, m) /\ sp[d].buffer \in Bases
         /\ desc[m] \in Descr /\ desc[m] # NULL
         /\ LaunchOf(d, m) \in Launches
         /\ LaunchOf(d, m).mat = m /\ LaunchOf(d, m).at = sp[d].buffer
         /\ LaunchOf(d, m).arrays = desc[m].arrays
         /\ LaunchOf(d, m).kernel = "spsv_coo" => desc[m].format = "COO"
         /\ LaunchOf(d, m).kernel = "spsv_csr" => desc[m].format = "CSR"
         /\ BlockingIdle /\ mem' = [mem EXCEPT ![sp[d].buffer] = Cleared]
         /\ LaunchInOrder(<<LaunchOf(d, m)>>)
         /\ UNCHANGED <<desc, stream, sp, busy>>
<1>1. Remembers(d, m) BY DEF Solve, Remembers
<1>2. sp[d].buffer \in Bases
  BY <1>1 DEF Remembers, BaseInv, TypeOK, SolveDescr, NoDescr, Analysed
<1>3. desc[m] \in Descr /\ desc[m] # NULL /\ desc[m].format \in SolveFormats
  BY DEF Solve, BaseInv, TypeOK, SpMatTypeOK
<1>4. /\ LaunchOf(d, m).mat = m /\ LaunchOf(d, m).at = sp[d].buffer
      /\ LaunchOf(d, m).arrays = desc[m].arrays
      /\ LaunchOf(d, m).kernel = KernelOf[desc[m].format]
  BY DEF LaunchOf
<1>5. /\ KernelOf[desc[m].format] \in Kernels
      /\ KernelOf[desc[m].format] = "spsv_coo" => desc[m].format = "COO"
      /\ KernelOf[desc[m].format] = "spsv_csr" => desc[m].format = "CSR"
  BY <1>3 DEF KernelOf, SolveFormats, Kernels
<1>6. LaunchOf(d, m) \in Launches
  BY <1>2, <1>3, <1>5, SecondIsApart DEF LaunchOf, Launches, Descr
<1> QED BY <1>1, <1>2, <1>3, <1>4, <1>5, <1>6
        DEF Solve, ClearFlags, LaunchOf

----------------------------------------------------------------------------
(* Asked of nobody *)

LEMMA InitBase == Init => BaseInv
<1> SUFFICES ASSUME Init PROVE BaseInv OBVIOUS
<1>1. TypeOK BY DEF Init, SpMatInit, TypeOK, SpMatTypeOK, Contents
<1>2. Pending = {} BY DEF Init, SpMatInit, Pending
<1>3. \A s \in Streams : ~busy[s] BY DEF Init
<1> QED BY <1>1, <1>2, <1>3 DEF BaseInv

LEMMA DescrStepBase ==
  ASSUME BaseInv, NEW d \in SolveDescrs, NEW x, DescrStep(d, x)
  PROVE  BaseInv'
<1>1. TypeOK' BY DEF DescrStep, BaseInv, TypeOK, SpMatTypeOK
<1>2. Pending' = Pending BY DEF DescrStep, Pending
<1> QED BY <1>1, <1>2 DEF DescrStep, BaseInv

LEMMA OnMatrixBase ==
  ASSUME BaseInv, NEW m \in Matrices, OnMatrix(m), UNCHANGED <<sp, busy>>
  PROVE  BaseInv'
<1>1. PICK x \in Descr \cup {NULL} : desc' = [desc EXCEPT ![m] = x]
  BY OnMatrixDoes
<1>2. UNCHANGED <<mem, queue, stream>> BY OnMatrixDoes
<1>3. TypeOK' BY <1>1, <1>2 DEF BaseInv, TypeOK, SpMatTypeOK
<1>4. Pending' = Pending BY <1>2 DEF Pending
<1> QED BY <1>2, <1>3, <1>4 DEF BaseInv

LEMMA AnalyseCooBase ==
  ASSUME BaseInv, NEW d \in SolveDescrs, NEW m \in Matrices,
         NEW b \in Workspace[d][m], desc[m] # NULL, AnalyseCoo(d, m, b),
         UNCHANGED <<queue, stream, busy>>
  PROVE  BaseInv'
<1>1. PICK r : /\ BuildKeeps(desc[m], mem, Second[b], r)
               /\ desc' = [desc EXCEPT ![m] = r.d] /\ mem' = r.mem
               /\ \/ UNCHANGED sp
                  \/ sp' = [sp EXCEPT ![d] = Analysed(m, b)]
  BY AnalyseCooDoes
<1>2. Analysed(m, b) \in SolveDescr BY WorkspaceIsBases DEF SolveDescr
<1>3. sp' \in [SolveDescrs -> SolveDescr \cup {NULL}]
  BY <1>1, <1>2 DEF BaseInv, TypeOK
<1>4. TypeOK'
  BY <1>1, <1>3 DEF BaseInv, TypeOK, SpMatTypeOK, BuildKeeps
<1>5. Pending' = Pending BY DEF Pending
<1> QED BY <1>4, <1>5 DEF BaseInv

LEMMA SolveBase ==
  ASSUME BaseInv, NEW d \in SolveDescrs, NEW m \in Matrices, Solve(d, m)
  PROVE  /\ BaseInv' /\ Pending' \subseteq Pending \cup {LaunchOf(d, m)}
         /\ \A b \in Bases : mem'[Second[b]] = mem[Second[b]]
<1>1. PICK op : op = LaunchOf(d, m) OBVIOUS
<1>2. /\ op \in Launches /\ LaunchInOrder(<<op>>) /\ op.at \in Bases
      /\ mem' = [mem EXCEPT ![sp[d].buffer] = Cleared]
      /\ sp[d].buffer \in Bases
      /\ UNCHANGED <<desc, stream, sp, busy>>
  BY <1>1, SolveDoes
<1>3. /\ queue' \in [Streams -> Seq(Launches)]
      /\ Pending' \subseteq Pending \cup {op}
      /\ \A s \in Streams : queue[s] # <<>> => queue'[s] # <<>>
  BY <1>2, LaunchOne DEF BaseInv
<1>4. Cleared \in Contents BY DEF Contents
<1>5. /\ mem' \in [Addresses -> Contents]
      /\ \A b \in Bases : mem'[Second[b]] = mem[Second[b]]
  BY <1>2, <1>4, FirstHalfOnly DEF BaseInv
<1>6. TypeOK' BY <1>2, <1>3, <1>5 DEF BaseInv, TypeOK, SpMatTypeOK
<1>7. BaseInv' BY <1>2, <1>3, <1>6 DEF BaseInv
<1> QED BY <1>1, <1>3, <1>5, <1>7

LEMMA StartBase ==
  ASSUME BaseInv, NEW s \in Streams, StartKernel(s)
  PROVE  /\ BaseInv' /\ Pending' = Pending
         /\ \A b \in Bases : mem'[Second[b]] = mem[Second[b]]
<1>1. PICK op : op = Head(queue[s]) OBVIOUS
<1>2. op \in Pending /\ op.at \in Bases
  BY <1>1, HeadIsPending DEF StartKernel, BaseInv
<1>3. mem' = [mem EXCEPT ![op.at] = InUse(s)] /\ InUse(s) \in Contents
  BY <1>1 DEF StartKernel, Contents
<1>4. /\ mem' \in [Addresses -> Contents]
      /\ \A b \in Bases : mem'[Second[b]] = mem[Second[b]]
  BY <1>2, <1>3, FirstHalfOnly DEF BaseInv
<1>5. Pending' = Pending BY DEF StartKernel, Pending
<1>6. TypeOK' BY <1>4 DEF StartKernel, BaseInv, TypeOK, SpMatTypeOK
<1>7. \A t \in Streams : busy'[t] => queue'[t] # <<>>
  BY DEF StartKernel, BaseInv, TypeOK
<1> QED BY <1>4, <1>5, <1>6, <1>7 DEF BaseInv

LEMMA FinishBase ==
  ASSUME BaseInv, NEW s \in Streams, FinishKernel(s)
  PROVE  /\ BaseInv' /\ Pending' \subseteq Pending
         /\ \A b \in Bases : mem'[Second[b]] = mem[Second[b]]
<1>1. PICK op : op = Head(queue[s]) OBVIOUS
<1>2. queue[s] # <<>> BY DEF FinishKernel, BaseInv
<1>3. op \in Pending /\ op.at \in Bases
  BY <1>1, <1>2, HeadIsPending DEF BaseInv
<1>4. mem' = [mem EXCEPT ![op.at] = Garbage] /\ Garbage \in Contents
  BY <1>1 DEF FinishKernel, Contents
<1>5. /\ mem' \in [Addresses -> Contents]
      /\ \A b \in Bases : mem'[Second[b]] = mem[Second[b]]
  BY <1>3, <1>4, FirstHalfOnly DEF BaseInv
<1>6. /\ queue' = [queue EXCEPT ![s] = Tail(@)]
      /\ busy' = [busy EXCEPT ![s] = FALSE] /\ UNCHANGED <<desc, stream, sp>>
  BY DEF FinishKernel
<1>7. queue' \in [Streams -> Seq(Launches)] /\ Pending' \subseteq Pending
  BY <1>2, <1>6, DropHead DEF BaseInv
<1>8. TypeOK' BY <1>5, <1>6, <1>7 DEF BaseInv, TypeOK, SpMatTypeOK
<1>9. \A t \in Streams : busy'[t] => queue'[t] # <<>>
  BY <1>6 DEF BaseInv, TypeOK, SpMatTypeOK
<1> QED BY <1>3, <1>5, <1>7, <1>8, <1>9 DEF BaseInv

LEMMA NextBase ==
  ASSUME BaseInv, [Next]_vars
  PROVE  BaseInv'
<1>1. CASE \E d \in SolveDescrs : CreateDescr(d) \/ DestroyDescr(d)
  BY <1>1, DescrCallsDo, DescrStepBase
<1>2. ASSUME NEW d \in SolveDescrs, NEW m \in Matrices,
             NEW b \in Workspace[d][m], Analysis(d, m, b)
      PROVE  BaseInv'
  BY <1>2, AnalysisDoes, DescrStepBase, AnalyseCooBase
<1>3. CASE \E d \in SolveDescrs, m \in Matrices : Solve(d, m)
  BY <1>3, SolveBase
<1>4. CASE \E m \in Matrices : OnMatrix(m) /\ UNCHANGED <<sp, busy>>
  BY <1>4, OnMatrixBase
<1>5. CASE \E s \in Streams : SetStream(s) /\ UNCHANGED <<sp, busy>>
  BY <1>5 DEF SetStream, BaseInv, TypeOK, SpMatTypeOK, Pending
<1>6. CASE \E s \in Streams : StartKernel(s) \/ FinishKernel(s)
  BY <1>6, StartBase, FinishBase
<1>7. CASE UNCHANGED vars
  BY <1>7 DEF vars, BaseInv, TypeOK, SpMatTypeOK, Pending
<1> QED BY <1>1, <1>2, <1>3, <1>4, <1>5, <1>6, <1>7 DEF Next

(* What holds whatever callers do: launches and buffers are typed, a       *)
(* running stream has a launch, and launches were given first halves       *)
(* (src/ops/spsv.cpp).                                                     *)
THEOREM Undisciplined == Spec => []BaseInv
<1>1. BaseInv /\ [Next]_vars => BaseInv' BY NextBase
<1> QED BY InitBase, <1>1, PTL DEF Spec

(* The calls and the kernels keep every part of the state typed, whatever  *)
(* buffers, streams and changes of the matrices callers choose.            *)
THEOREM TypeCorrect == Spec => []TypeOK
<1>1. BaseInv => TypeOK BY DEF BaseInv
<1> QED BY <1>1, Undisciplined, PTL

----------------------------------------------------------------------------
(* Where every stream waits for the default one *)

(* Steps that leave memory, launches and running kernels alone.            *)
LEMMA FlagsApart ==
  ASSUME FlagsInv, BaseInv', UNCHANGED <<mem, queue, busy>>
  PROVE  FlagsInv'
BY DEF FlagsInv, OneLaunch

(* The flags are cleared with nothing outstanding, so the one launch this  *)
(* call makes is the only one.                                             *)
LEMMA SolveFlags ==
  ASSUME FlagsInv, NonBlocking = {},
         NEW d \in SolveDescrs, NEW m \in Matrices, Solve(d, m)
  PROVE  FlagsInv'
<1>1. PICK op : op = LaunchOf(d, m) OBVIOUS
<1>2. BaseInv BY DEF FlagsInv
<1>3. /\ op \in Launches /\ LaunchInOrder(<<op>>)
      /\ op.at = sp[d].buffer /\ sp[d].buffer \in Bases
      /\ mem' = [mem EXCEPT ![sp[d].buffer] = Cleared]
      /\ BlockingIdle /\ UNCHANGED busy
  BY <1>1, <1>2, SolveDoes
<1>4. \A s \in Streams : queue[s] = <<>> /\ ~busy[s]
  BY <1>2, <1>3 DEF BlockingIdle, BaseInv
<1>5. \/ queue' = queue
      \/ queue' = [queue EXCEPT ![stream] = Append(@, op)]
  BY <1>2, <1>3, LaunchOne DEF BaseInv
<1>6. stream \in Streams /\ queue \in [Streams -> Seq(Launches)]
  BY <1>2 DEF BaseInv, TypeOK, SpMatTypeOK
<1>7. mem'[op.at] = Cleared
  <2>1. Cleared \in Contents BY DEF Contents
  <2> QED BY <1>2, <1>3, <2>1, FirstHalfOnly DEF BaseInv
<1>8. ASSUME NEW s \in Streams PROVE OneLaunch(s)'
  <2>1. CASE queue' = queue BY <1>4, <2>1 DEF OneLaunch
  <2>2. CASE queue' = [queue EXCEPT ![stream] = Append(@, op)]
    <3>1. /\ queue'[stream] = Append(<<>>, op)
          /\ \A t \in Streams \ {stream} : queue'[t] = <<>>
      BY <1>4, <1>6, <2>2
    <3>2. /\ Append(<<>>, op) = <<op>> /\ Len(<<op>>) = 1 /\ <<op>>[1] = op
      OBVIOUS
    <3>3. CASE s = stream
      BY <1>3, <1>4, <1>7, <3>1, <3>2, <3>3 DEF OneLaunch
    <3>4. CASE s # stream BY <3>1, <3>4 DEF OneLaunch
    <3> QED BY <3>3, <3>4
  <2> QED BY <1>5, <2>1, <2>2
<1>9. BaseInv' BY <1>2, SolveBase
<1> QED BY <1>8, <1>9 DEF FlagsInv

LEMMA StartFlags ==
  ASSUME FlagsInv, NEW s \in Streams, StartKernel(s)
  PROVE  FlagsInv' /\ mem[Head(queue[s]).at] = Cleared
<1>1. BaseInv BY DEF FlagsInv
<1>2. /\ queue[s] # <<>> /\ ~busy[s] /\ busy' = [busy EXCEPT ![s] = TRUE]
      /\ UNCHANGED queue
  BY DEF StartKernel
<1>3. PICK op : op = queue[s][1] OBVIOUS
<1>4. Head(queue[s]) = op /\ op \in Pending /\ op.at \in Bases
  BY <1>1, <1>2, <1>3, HeadIsPending DEF BaseInv
<1>5. /\ Len(queue[s]) = 1 /\ mem[op.at] = Cleared
      /\ \A t \in Streams \ {s} : queue[t] = <<>>
  BY <1>2, <1>3 DEF FlagsInv, OneLaunch
<1>6. mem' = [mem EXCEPT ![op.at] = InUse(s)] /\ InUse(s) \in Contents
  BY <1>4 DEF StartKernel, Contents
<1>7. mem'[op.at] = InUse(s) BY <1>1, <1>4, <1>6, FirstHalfOnly DEF BaseInv
<1>8. busy'[s] BY <1>1, <1>2 DEF BaseInv, TypeOK
<1>9. \A t \in Streams : OneLaunch(t)'
  BY <1>2, <1>3, <1>5, <1>7, <1>8 DEF OneLaunch
<1>10. BaseInv' BY <1>1, StartBase
<1> QED BY <1>4, <1>5, <1>9, <1>10 DEF FlagsInv

LEMMA FinishFlags ==
  ASSUME FlagsInv, NEW s \in Streams, FinishKernel(s)
  PROVE  FlagsInv'
<1>1. BaseInv BY DEF FlagsInv
<1>2. /\ queue[s] # <<>> /\ queue' = [queue EXCEPT ![s] = Tail(@)]
      /\ queue \in [Streams -> Seq(Launches)]
  BY <1>1 DEF FinishKernel, BaseInv, TypeOK, SpMatTypeOK
<1>3. Len(queue[s]) = 1 /\ \A t \in Streams \ {s} : queue[t] = <<>>
  BY <1>2 DEF FlagsInv, OneLaunch
<1>4. Tail(queue[s]) = <<>>
  <2>1. Tail(queue[s]) \in Seq(Launches) /\ Len(Tail(queue[s])) = 0
    BY <1>2, <1>3, HeadTailProperties
  <2> QED BY <2>1, EmptySeq
<1>5. \A t \in Streams : queue'[t] = <<>> BY <1>2, <1>3, <1>4
<1>6. BaseInv' BY <1>1, FinishBase
<1> QED BY <1>5, <1>6 DEF FlagsInv, OneLaunch

LEMMA NextFlags ==
  ASSUME FlagsInv, NonBlocking = {}, [Next]_vars
  PROVE  FlagsInv'
<1>1. BaseInv /\ BaseInv' BY NextBase DEF FlagsInv
<1>2. CASE \E d \in SolveDescrs : CreateDescr(d) \/ DestroyDescr(d)
  <2>1. UNCHANGED <<mem, queue, busy>> BY <1>2, DescrCallsDo DEF DescrStep
  <2> QED BY <1>1, <2>1, FlagsApart
<1>3. ASSUME NEW d \in SolveDescrs, NEW m \in Matrices,
             NEW b \in Workspace[d][m], Analysis(d, m, b)
      PROVE  FlagsInv'
  <2>1. CASE UNCHANGED <<mem, queue, busy>> BY <1>1, <2>1, FlagsApart
  <2>2. CASE AnalyseCoo(d, m, b) /\ UNCHANGED <<queue, stream, busy>>
    <3>1. \A s \in Streams : queue[s] = <<>>
      BY <2>2 DEF AnalyseCoo, BlockingIdle
    <3> QED BY <1>1, <2>2, <3>1 DEF FlagsInv, OneLaunch
  <2> QED BY <1>1, <1>3, <2>1, <2>2, AnalysisDoes DEF DescrStep
<1>4. CASE \E d \in SolveDescrs, m \in Matrices : Solve(d, m)
  BY <1>4, SolveFlags
<1>5. CASE \E m \in Matrices : OnMatrix(m) /\ UNCHANGED <<sp, busy>>
  BY <1>1, <1>5, OnMatrixDoes, FlagsApart
<1>6. CASE \E s \in Streams : SetStream(s) /\ UNCHANGED <<sp, busy>>
  BY <1>1, <1>6, FlagsApart DEF SetStream
<1>7. CASE \E s \in Streams : StartKernel(s) \/ FinishKernel(s)
  BY <1>7, StartFlags, FinishFlags
<1>8. CASE UNCHANGED vars BY <1>1, <1>8, FlagsApart DEF vars
<1> QED BY <1>2, <1>3, <1>4, <1>5, <1>6, <1>7, <1>8 DEF Next

(* At most one solve is outstanding, with its flags cleared or in use.     *)
THEOREM FlagsInvariant ==
  ASSUME NonBlocking = {}
  PROVE  Spec => []FlagsInv
<1>1. Init => FlagsInv
  BY InitBase DEF Init, SpMatInit, FlagsInv, OneLaunch
<1>2. FlagsInv /\ [Next]_vars => FlagsInv' BY NextFlags
<1> QED BY <1>1, <1>2, PTL DEF Spec

(* A running kernel keeps its flags and its counter to itself, even from   *)
(* solves of other matrices given the same buffer.                         *)
THEOREM FlagsStayOwned ==
  ASSUME NonBlocking = {}
  PROVE  Spec => []FlagsUndisturbed
<1>1. FlagsInv => FlagsUndisturbed
  <2> SUFFICES ASSUME FlagsInv, NEW s \in Streams, busy[s]
               PROVE  mem[Head(queue[s]).at] = InUse(s)
    BY DEF FlagsUndisturbed
  <2>1. queue[s] # <<>> BY DEF FlagsInv, BaseInv
  <2>2. Head(queue[s]) = queue[s][1]
    BY <2>1, HeadIsPending DEF FlagsInv, BaseInv
  <2> QED BY <2>1, <2>2 DEF FlagsInv, OneLaunch
<1> QED BY <1>1, FlagsInvariant, PTL

(* Kernels start on zeroed flags and a zeroed counter, and on nothing      *)
(* else: what ChainWave assumes of its initial state.                      *)
THEOREM AlwaysStartsCleared ==
  ASSUME NonBlocking = {}
  PROVE  Spec => StartsCleared
<1>1. ASSUME FlagsInv, [Next]_vars, NEW s \in Streams, ~busy[s], busy'[s]
      PROVE  mem[Head(queue[s]).at] = Cleared
  <2>1. StartKernel(s)
    <3>1. CASE \E t \in Streams : StartKernel(t) \/ FinishKernel(t)
      <4>1. PICK t \in Streams : StartKernel(t) \/ FinishKernel(t) BY <3>1
      <4> QED BY <1>1, <4>1
              DEF StartKernel, FinishKernel, FlagsInv, BaseInv, TypeOK
    <3>2. CASE UNCHANGED busy BY <1>1, <3>2
    <3> QED BY <1>1, <3>1, <3>2
            DEF Next, vars, CreateDescr, DestroyDescr, Analysis, Solve
  <2> QED BY <1>1, <2>1, StartFlags
<1>2. FlagsInv /\ [Next]_vars =>
        [\A s \in Streams : ~busy[s] /\ busy'[s] =>
           mem[Head(queue[s]).at] = Cleared]_vars
  BY <1>1
<1> QED BY <1>2, FlagsInvariant, PTL DEF Spec, StartsCleared

----------------------------------------------------------------------------
(* Where callers analyse again after a matrix changes *)

(* A call on another matrix than the remembered ones.                      *)
LEMMA RememberedStay ==
  ASSUME CarefulInv, Careful, NEW m \in Matrices, OnMatrix(m), UNCHANGED sp,
         NEW d \in SolveDescrs, NEW n \in Matrices, Remembers(d, n)'
  PROVE  Remembers(d, n) /\ n # m /\ desc'[n] = desc[n]
<1>1. Remembers(d, n) BY DEF Remembers
<1>2. desc[n] # NULL BY <1>1 DEF CarefulInv, Checked
<1>3. n # m
  BY <1>1, <1>2, OnMatrixDoes DEF MayChange, Remembers
<1>4. \E x \in Descr \cup {NULL} : desc' = [desc EXCEPT ![m] = x]
  BY OnMatrixDoes
<1> QED BY <1>1, <1>3, <1>4 DEF CarefulInv, BaseInv, TypeOK, SpMatTypeOK

(* After a call that wrote x to SpSV descriptor d, e remembers n because   *)
(* it did before, or because x says so.                                    *)
RememberedBy(e, n, d, x) ==
  \/ Remembers(e, n) /\ sp'[e] = sp[e]
  \/ e = d /\ sp'[e] = x /\ x # NULL /\ x.analysed /\ x.analysed_matrix = n

LEMMA RememberedAfter ==
  ASSUME TypeOK, NEW d \in SolveDescrs, NEW x \in SolveDescr \cup {NULL},
         sp' = [sp EXCEPT ![d] = x],
         NEW e \in SolveDescrs, NEW n \in Matrices, Remembers(e, n)'
  PROVE  RememberedBy(e, n, d, x)
BY DEF TypeOK, Remembers, RememberedBy

(* A build leaves the arrays of the one matrix it is for as they are.      *)
LEMMA BuildKeepsArrays ==
  ASSUME TypeOK, NEW m \in Matrices, NEW a, NEW r, desc[m] # NULL,
         BuildKeeps(desc[m], mem, a, r), desc' = [desc EXCEPT ![m] = r.d]
  PROVE  \A n \in Matrices :
           desc[n] # NULL => /\ desc'[n] # NULL
                             /\ desc'[n].format = desc[n].format
                             /\ desc'[n].arrays = desc[n].arrays
<1>1. r.d # NULL BY SpMatAssumption DEF BuildKeeps
<1> QED BY <1>1 DEF TypeOK, SpMatTypeOK, BuildKeeps

LEMMA NextCareful ==
  ASSUME CarefulInv, Careful, [Next]_vars
  PROVE  CarefulInv'
<1>1. BaseInv /\ BaseInv' BY NextBase DEF CarefulInv
<1>2. TypeOK BY <1>1 DEF BaseInv
<1>3. ASSUME UNCHANGED <<desc, sp>>, Pending' \subseteq Pending
      PROVE  CarefulInv'
  BY <1>1, <1>3 DEF CarefulInv, Checked, LaunchChecked, Remembers
<1>4. ASSUME NEW d \in SolveDescrs, NEW x, DescrStep(d, x),
             x # NULL /\ x.analysed => Checked(x.analysed_matrix)
      PROVE  CarefulInv'
  <2>1. x \in SolveDescr \cup {NULL} /\ sp' = [sp EXCEPT ![d] = x]
        /\ UNCHANGED <<desc, queue>>
    BY <1>4 DEF DescrStep
  <2>2. \A e \in SolveDescrs, n \in Matrices : Remembers(e, n)' => Checked(n)
    BY <1>2, <1>4, <2>1, RememberedAfter DEF CarefulInv, RememberedBy
  <2>3. Pending' = Pending BY <2>1 DEF Pending
  <2> QED BY <1>1, <2>1, <2>2, <2>3 DEF CarefulInv, Checked, LaunchChecked
<1>5. CASE \E d \in SolveDescrs : CreateDescr(d) \/ DestroyDescr(d)
  BY <1>4, <1>5, DescrCallsDo DEF NoDescr
<1>6. ASSUME NEW d \in SolveDescrs, NEW m \in Matrices,
             NEW b \in Workspace[d][m], Analysis(d, m, b)
      PROVE  CarefulInv'
  <2>1. desc[m] \in Descr /\ desc[m] # NULL BY <1>1, <1>6, AnalysisDoes
  <2>2. CASE /\ desc[m].format # "COO" /\ DescrStep(d, Analysed(m, b))
             /\ desc[m].format = "CSR" => ColsAscend[desc[m].arrays]
    BY <1>4, <2>1, <2>2 DEF Analysed, Checked
  <2>3. CASE AnalyseCoo(d, m, b) /\ UNCHANGED <<queue, stream, busy>>
    <3>1. PICK r : /\ BuildKeeps(desc[m], mem, Second[b], r)
                   /\ desc' = [desc EXCEPT ![m] = r.d]
                   /\ \/ UNCHANGED sp
                      \/ /\ ColsAscend[desc[m].arrays]
                         /\ sp' = [sp EXCEPT ![d] = Analysed(m, b)]
      BY <1>1, <2>1, <2>3, AnalyseCooDoes
    <3>2. \A n \in Matrices : Checked(n) => Checked(n)'
      BY <1>2, <2>1, <3>1, BuildKeepsArrays DEF Checked
    <3>3. Analysed(m, b) \in SolveDescr BY <1>1, <1>6, AnalysisDoes
    <3>4. ASSUME NEW e \in SolveDescrs, NEW n \in Matrices, Remembers(e, n)'
          PROVE  Checked(n)
      <4>1. CASE Remembers(e, n) BY <4>1 DEF CarefulInv
      <4>2. CASE ~Remembers(e, n)
        <5>1. ColsAscend[desc[m].arrays] /\ sp' = [sp EXCEPT ![d] = Analysed(m, b)]
          BY <3>1, <3>4, <4>2 DEF Remembers
        <5>2. n = m
          <6>1. RememberedBy(e, n, d, Analysed(m, b))
            BY <1>2, <3>3, <3>4, <5>1, RememberedAfter
          <6> QED BY <4>2, <6>1 DEF Analysed, RememberedBy
        <5> QED BY <2>1, <5>1, <5>2 DEF Checked
      <4> QED BY <4>1, <4>2
    <3>5. Pending' = Pending BY <2>3 DEF Pending
    <3> QED BY <1>1, <3>2, <3>4, <3>5 DEF CarefulInv, LaunchChecked
  <2> QED BY <1>1, <1>6, <2>2, <2>3, AnalysisDoes
<1>7. ASSUME NEW d \in SolveDescrs, NEW m \in Matrices, Solve(d, m)
      PROVE  CarefulInv'
  <2>1. Checked(m) BY <1>1, <1>7, SolveDoes DEF CarefulInv
  <2>2. LaunchChecked(LaunchOf(d, m))
    BY <1>1, <1>7, <2>1, SolveDoes DEF LaunchChecked, Checked
  <2>3. Pending' \subseteq Pending \cup {LaunchOf(d, m)} /\ UNCHANGED <<desc, sp>>
    BY <1>1, <1>7, SolveBase, SolveDoes
  <2>4. \A op \in Pending' : LaunchChecked(op)
    BY <2>2, <2>3 DEF CarefulInv
  <2> QED BY <1>1, <2>3, <2>4
          DEF CarefulInv, Checked, LaunchChecked, Remembers
<1>8. ASSUME NEW m \in Matrices, OnMatrix(m), UNCHANGED <<sp, busy>>
      PROVE  CarefulInv'
  <2>1. Pending' = Pending BY <1>8, OnMatrixDoes DEF Pending
  <2>2. \A d \in SolveDescrs, n \in Matrices : Remembers(d, n)' => Checked(n)'
    BY <1>8, RememberedStay DEF CarefulInv, Checked
  <2> QED BY <1>1, <2>1, <2>2 DEF CarefulInv, LaunchChecked
<1>9. CASE \E s \in Streams : SetStream(s) /\ UNCHANGED <<sp, busy>>
  BY <1>3, <1>9 DEF SetStream, Pending
<1>10. CASE \E s \in Streams : StartKernel(s) \/ FinishKernel(s)
  <2>1. PICK s \in Streams : StartKernel(s) \/ FinishKernel(s) BY <1>10
  <2>2. UNCHANGED <<desc, sp>> BY <2>1 DEF StartKernel, FinishKernel
  <2>3. Pending' \subseteq Pending BY <1>1, <2>1, StartBase, FinishBase
  <2> QED BY <1>3, <2>2, <2>3
<1>11. CASE UNCHANGED vars BY <1>3, <1>11 DEF vars, Pending
<1> QED BY <1>5, <1>6, <1>7, <1>8, <1>9, <1>10, <1>11 DEF Next

LEMMA InitCareful == Init => CarefulInv
<1> SUFFICES ASSUME Init PROVE CarefulInv OBVIOUS
<1>1. Pending = {} BY DEF Init, SpMatInit, Pending
<1>2. \A d \in SolveDescrs : sp[d] = NULL BY DEF Init
<1> QED BY <1>1, <1>2, InitBase DEF CarefulInv, Remembers

(* Columns were checked for every solve that is launched, whatever the     *)
(* streams and however the buffers are shared.                             *)
THEOREM OnlyCheckedColumns ==
  ASSUME Careful
  PROVE  Spec => []ColumnsCheckedAtLaunch
<1>1. CarefulInv => ColumnsCheckedAtLaunch
  BY DEF CarefulInv, ColumnsCheckedAtLaunch, LaunchChecked
<1>2. CarefulInv /\ [Next]_vars => CarefulInv' BY NextCareful
<1> QED BY InitCareful, <1>1, <1>2, PTL DEF Spec

----------------------------------------------------------------------------
(* Where, besides, no buffer serves two matrices *)

(* Steps that write first halves only, and move no matrix.                 *)
LEMMA OffsetsApart ==
  ASSUME OffsetsInv, CarefulInv', UNCHANGED <<desc, sp>>,
         Pending' \subseteq Pending,
         \A b \in Bases : mem'[Second[b]] = mem[Second[b]]
  PROVE  OffsetsInv'
<1>1. ASSUME NEW d \in SolveDescrs, NEW m \in Matrices, Remembers(d, m)'
      PROVE  OffsetsKept(d, m)'
  <2>1. OffsetsKept(d, m) BY <1>1 DEF OffsetsInv, Remembers
  <2>2. sp[d].buffer \in Bases BY <2>1, WorkspaceIsBases DEF OffsetsKept
  <2> QED BY <2>1, <2>2 DEF OffsetsKept
<1>2. ASSUME NEW op \in Pending' PROVE LaunchKept(op)'
  <2>1. LaunchKept(op) /\ op.at \in Bases
    BY <1>2 DEF OffsetsInv, CarefulInv, BaseInv
  <2> QED BY <2>1 DEF LaunchKept
<1> QED BY <1>1, <1>2 DEF OffsetsInv

(* Calls on matrices: none that a descriptor remembers, and none that a    *)
(* COO launch was made for, changes.                                       *)
LEMMA OnMatrixOffsets ==
  ASSUME OffsetsInv, Careful, CarefulInv', NEW m \in Matrices, OnMatrix(m),
         UNCHANGED <<sp, busy>>
  PROVE  OffsetsInv'
<1>1. CarefulInv /\ TypeOK BY DEF OffsetsInv, CarefulInv, BaseInv
<1>2. UNCHANGED <<mem, queue, stream>> /\ Pending' = Pending
  BY OnMatrixDoes DEF Pending
<1>3. ASSUME NEW d \in SolveDescrs, NEW n \in Matrices, Remembers(d, n)'
      PROVE  OffsetsKept(d, n)'
  <2>1. Remembers(d, n) /\ desc'[n] = desc[n] BY <1>1, <1>3, RememberedStay
  <2> QED BY <1>2, <2>1 DEF OffsetsInv, OffsetsKept
<1>4. ASSUME NEW op \in Pending PROVE LaunchKept(op)'
  <2>1. LaunchKept(op) BY DEF OffsetsInv
  <2>2. op.mat \in Matrices BY <1>1, PendingTyped DEF Launches
  <2>3. op.kernel = "spsv_coo" => op.mat # m
    BY <2>1, OnMatrixDoes DEF LaunchKept
  <2>4. op.mat # m => desc'[op.mat] = desc[op.mat]
    <3>1. \E x \in Descr \cup {NULL} : desc' = [desc EXCEPT ![m] = x]
      BY OnMatrixDoes
    <3> QED BY <1>1, <2>2, <3>1 DEF TypeOK, SpMatTypeOK
  <2> QED BY <1>2, <2>1, <2>3, <2>4 DEF LaunchKept
<1> QED BY <1>2, <1>3, <1>4 DEF OffsetsInv

(* The calls that write one SpSV descriptor and nothing else.              *)
LEMMA DescrStepOffsets ==
  ASSUME OffsetsInv, CarefulInv', NEW d \in SolveDescrs, NEW x, DescrStep(d, x),
         \A m \in Matrices :
           x # NULL /\ x.analysed /\ x.analysed_matrix = m =>
             x.buffer \in Workspace[d][m] /\ desc[m].format # "COO"
  PROVE  OffsetsInv'
<1>1. x \in SolveDescr \cup {NULL} /\ sp' = [sp EXCEPT ![d] = x]
      /\ UNCHANGED <<desc, mem, queue>> /\ Pending' = Pending
  BY DEF DescrStep, Pending
<1>2. ASSUME NEW e \in SolveDescrs, NEW n \in Matrices, Remembers(e, n)'
      PROVE  OffsetsKept(e, n)'
  <2>1. TypeOK BY DEF OffsetsInv, CarefulInv, BaseInv
  <2>2. RememberedBy(e, n, d, x) BY <1>1, <1>2, <2>1, RememberedAfter
  <2> QED BY <1>1, <2>2 DEF OffsetsInv, OffsetsKept, RememberedBy
<1>3. \A op \in Pending : LaunchKept(op)' BY <1>1 DEF OffsetsInv, LaunchKept
<1> QED BY <1>1, <1>2, <1>3 DEF OffsetsInv

(* The upload reaches one second half; whoever needed it had the same      *)
(* offsets there.                                                          *)
LEMMA AnalyseCooOffsets ==
  ASSUME OffsetsInv, PrivateWorkspaces, CarefulInv', NEW d \in SolveDescrs,
         NEW m \in Matrices, NEW b \in Workspace[d][m], desc[m] # NULL,
         AnalyseCoo(d, m, b), UNCHANGED <<queue, stream, busy>>
  PROVE  OffsetsInv'
<1>1. BaseInv /\ TypeOK BY DEF OffsetsInv, CarefulInv, BaseInv
<1>2. PICK r : /\ BuildKeeps(desc[m], mem, Second[b], r)
               /\ desc' = [desc EXCEPT ![m] = r.d] /\ mem' = r.mem
               /\ \/ UNCHANGED sp
                  \/ r.ok /\ sp' = [sp EXCEPT ![d] = Analysed(m, b)]
  BY <1>1, AnalyseCooDoes
<1>3. b \in Bases /\ Second[b] \in Addresses /\ desc[m].format = "COO"
  BY <1>1, AnalyseCooDoes
<1>4. \A n \in Matrices :
        desc[n] # NULL => /\ desc'[n] # NULL
                          /\ desc'[n].format = desc[n].format
                          /\ desc'[n].arrays = desc[n].arrays
  BY <1>1, <1>2, BuildKeepsArrays
<1>5. ASSUME NEW n \in Matrices, NEW e \in SolveDescrs, NEW c \in Workspace[e][n],
             desc[n] # NULL, mem[Second[c]] = Offsets(desc[n].arrays)
      PROVE  mem'[Second[c]] = Offsets(desc[n].arrays)
  <2>1. c \in Bases /\ Second[c] \in Addresses
    BY WorkspaceIsBases, SecondIsApart
  <2>2. CASE c = b
    <3>1. n = m BY <1>5, <2>2 DEF PrivateWorkspaces
    <3> QED BY <1>2, <1>5, <2>2, <3>1 DEF BuildKeeps
  <2>3. CASE c # b
    <3>1. Second[c] # Second[b] BY <1>3, <2>1, <2>3, SecondIsApart
    <3> QED BY <1>2, <1>5, <2>1, <3>1 DEF BuildKeeps
  <2> QED BY <2>2, <2>3
<1>6. ASSUME NEW e \in SolveDescrs, NEW n \in Matrices, Remembers(e, n)'
      PROVE  OffsetsKept(e, n)'
  <2>1. CASE Remembers(e, n) /\ sp'[e] = sp[e]
    <3>1. OffsetsKept(e, n) /\ desc[n] # NULL
      BY <2>1 DEF OffsetsInv, CarefulInv, Checked
    <3>2. PICK c \in Workspace[e][n] : c = sp[e].buffer
      BY <3>1 DEF OffsetsKept
    <3>3. desc[n].format = "COO" => mem'[Second[c]] = Offsets(desc[n].arrays)
      BY <1>5, <3>1, <3>2 DEF OffsetsKept
    <3> QED BY <1>4, <2>1, <3>1, <3>2, <3>3 DEF OffsetsKept
  <2>2. CASE ~(Remembers(e, n) /\ sp'[e] = sp[e])
    <3>1. r.ok /\ sp' = [sp EXCEPT ![d] = Analysed(m, b)]
      BY <1>2, <1>6, <2>2 DEF Remembers
    <3>2. Analysed(m, b) \in SolveDescr BY <1>3 DEF SolveDescr
    <3>3. e = d /\ sp'[e] = Analysed(m, b) /\ Analysed(m, b).analysed_matrix = n
      <4>1. RememberedBy(e, n, d, Analysed(m, b))
        BY <1>1, <1>6, <3>1, <3>2, RememberedAfter
      <4> QED BY <2>2, <4>1 DEF RememberedBy
    <3>4. n = m /\ sp'[e].buffer = b BY <3>3 DEF Analysed
    <3>5. mem'[Second[b]] = Offsets(desc[m].arrays) BY <1>2, <3>1 DEF BuildKeeps
    <3> QED BY <1>4, <3>3, <3>4, <3>5 DEF OffsetsKept
  <2> QED BY <2>1, <2>2
<1>7. ASSUME NEW op \in Pending, op.kernel = "spsv_coo" PROVE LaunchKept(op)'
  <2>1. LaunchKept(op) /\ op.mat \in Matrices
    BY <1>1, PendingTyped DEF OffsetsInv, Launches
  <2>2. PICK e \in SolveDescrs : op.at \in Workspace[e][op.mat]
    BY <1>7, <2>1 DEF LaunchKept
  <2>3. mem'[Second[op.at]] = Offsets(op.arrays)
    BY <1>5, <1>7, <2>1, <2>2 DEF LaunchKept
  <2> QED BY <1>4, <1>7, <2>1, <2>2, <2>3 DEF LaunchKept
<1>8. Pending' = Pending BY DEF Pending
<1>9. \A op \in Pending' : LaunchKept(op)'
  BY <1>7, <1>8 DEF LaunchKept
<1> QED BY <1>6, <1>9 DEF OffsetsInv

LEMMA SolveOffsets ==
  ASSUME OffsetsInv, CarefulInv', NEW d \in SolveDescrs, NEW m \in Matrices,
         Solve(d, m)
  PROVE  OffsetsInv'
<1>1. BaseInv BY DEF OffsetsInv, CarefulInv
<1>2. PICK op : op = LaunchOf(d, m) OBVIOUS
<1>3. /\ Remembers(d, m) /\ sp[d].buffer \in Bases /\ desc[m] # NULL
      /\ op.mat = m /\ op.at = sp[d].buffer /\ op.arrays = desc[m].arrays
      /\ op.kernel = "spsv_coo" => desc[m].format = "COO"
      /\ UNCHANGED <<desc, stream, sp, busy>>
  BY <1>1, <1>2, SolveDoes
<1>4. /\ Pending' \subseteq Pending \cup {op}
      /\ \A b \in Bases : mem'[Second[b]] = mem[Second[b]]
  BY <1>1, <1>2, SolveBase
<1>5. OffsetsKept(d, m) BY <1>3 DEF OffsetsInv
<1>6. LaunchKept(op)' BY <1>3, <1>4, <1>5 DEF LaunchKept, OffsetsKept
<1>7. ASSUME NEW o \in Pending PROVE LaunchKept(o)'
  <2>1. LaunchKept(o) /\ o.at \in Bases BY <1>1 DEF OffsetsInv, BaseInv
  <2> QED BY <1>3, <1>4, <2>1 DEF LaunchKept
<1>8. ASSUME NEW e \in SolveDescrs, NEW n \in Matrices, Remembers(e, n)'
      PROVE  OffsetsKept(e, n)'
  <2>1. OffsetsKept(e, n) BY <1>3, <1>8 DEF OffsetsInv, Remembers
  <2>2. sp[e].buffer \in Bases BY <2>1, WorkspaceIsBases DEF OffsetsKept
  <2> QED BY <1>3, <1>4, <2>1, <2>2 DEF OffsetsKept
<1> QED BY <1>4, <1>6, <1>7, <1>8 DEF OffsetsInv

LEMMA NextOffsets ==
  ASSUME OffsetsInv, Careful, PrivateWorkspaces, [Next]_vars
  PROVE  OffsetsInv'
<1>1. CarefulInv /\ CarefulInv' BY NextCareful DEF OffsetsInv
<1>2. BaseInv BY <1>1 DEF CarefulInv
<1>3. CASE \E d \in SolveDescrs : CreateDescr(d) \/ DestroyDescr(d)
  <2>1. PICK d \in SolveDescrs : CreateDescr(d) \/ DestroyDescr(d) BY <1>3
  <2>2. PICK x \in {NoDescr, NULL} : DescrStep(d, x) BY <2>1, DescrCallsDo
  <2>3. x = NULL \/ ~x.analysed BY <2>2 DEF NoDescr
  <2> QED BY <1>1, <2>2, <2>3, DescrStepOffsets
<1>4. ASSUME NEW d \in SolveDescrs, NEW m \in Matrices,
             NEW b \in Workspace[d][m], Analysis(d, m, b)
      PROVE  OffsetsInv'
  <2>1. desc[m] # NULL BY <1>2, <1>4, AnalysisDoes
  <2>2. CASE desc[m].format # "COO" /\ DescrStep(d, Analysed(m, b))
    BY <1>1, <2>2, DescrStepOffsets DEF Analysed
  <2>3. CASE AnalyseCoo(d, m, b) /\ UNCHANGED <<queue, stream, busy>>
    BY <1>1, <2>1, <2>3, AnalyseCooOffsets
  <2> QED BY <1>2, <1>4, <2>2, <2>3, AnalysisDoes
<1>5. CASE \E d \in SolveDescrs, m \in Matrices : Solve(d, m)
  BY <1>1, <1>5, SolveOffsets
<1>6. CASE \E m \in Matrices : OnMatrix(m) /\ UNCHANGED <<sp, busy>>
  BY <1>1, <1>6, OnMatrixOffsets
<1>7. CASE \E s \in Streams : SetStream(s) /\ UNCHANGED <<sp, busy>>
  BY <1>1, <1>7, OffsetsApart DEF SetStream, Pending
<1>8. CASE \E s \in Streams : StartKernel(s) \/ FinishKernel(s)
  <2>1. PICK s \in Streams : StartKernel(s) \/ FinishKernel(s) BY <1>8
  <2>2. UNCHANGED <<desc, sp>> BY <2>1 DEF StartKernel, FinishKernel
  <2>3. /\ Pending' \subseteq Pending
        /\ \A b \in Bases : mem'[Second[b]] = mem[Second[b]]
    BY <1>2, <2>1, StartBase, FinishBase
  <2> QED BY <1>1, <2>2, <2>3, OffsetsApart
<1>9. CASE UNCHANGED vars BY <1>1, <1>9, OffsetsApart DEF vars, Pending
<1> QED BY <1>3, <1>4, <1>5, <1>6, <1>7, <1>8, <1>9 DEF Next

(* The offsets analysis built are the ones the solve runs over, on streams *)
(* that wait for the default one and on streams that do not.               *)
THEOREM OffsetsSurvive ==
  ASSUME Careful, PrivateWorkspaces
  PROVE  Spec => []SolvesOwnOffsets
<1>1. Init => OffsetsInv
  <2> SUFFICES ASSUME Init PROVE OffsetsInv OBVIOUS
  <2>1. Pending = {} BY DEF Init, SpMatInit, Pending
  <2>2. \A d \in SolveDescrs : sp[d] = NULL BY DEF Init
  <2> QED BY <2>1, <2>2, InitCareful DEF OffsetsInv, Remembers
<1>2. OffsetsInv /\ [Next]_vars => OffsetsInv' BY NextOffsets
<1>3. OffsetsInv => SolvesOwnOffsets
  BY DEF OffsetsInv, SolvesOwnOffsets, LaunchKept
<1> QED BY <1>1, <1>2, <1>3, PTL DEF Spec
=============================================================================
