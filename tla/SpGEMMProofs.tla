---------------------------- MODULE SpGEMMProofs ----------------------------
(***************************************************************************)
(* What the calls of a sparse product promise for any number of operands,  *)
(* results and SpGEMM descriptors: types and the order the library's flags *)
(* stand for whatever callers do, what a copy delivers when callers keep   *)
(* to the order of the calls and give each SpGEMM descriptor a buffer of   *)
(* its own, the rest when they attach arrays before they copy, too.        *)
(***************************************************************************)
EXTENDS SpGEMM, TLAPS

Discipline == Orderly /\ PrivateBuffers

(* Descriptor g has computed product p into the result r.                  *)
ComputeOK(g, p, r) ==
  /\ r # NULL
  /\ r.nnz = Total[p]
  /\ r.rowless <=> p \in Rowless
  /\ p \notin Rowless =>
       /\ Total[p] <= MaxTotal
       /\ g.host_indptr = p /\ g.max_row_nnz = LongestRow[p]
       /\ r.reported \in {p, NULL}
       /\ AttachFirst /\ r.attached /\ r.max_row_nnz # -1 =>
            r.max_row_nnz = LongestRow[p]

(* What the library remembers of the calls a caller has made with d.       *)
FlowOK(d) ==
  /\ gd[d] = NULL => flow[d] = Idle
  /\ flow[d].pair = NULL => flow[d].result = NULL
  /\ flow[d].pair # NULL =>
       LET p == operands[flow[d].pair]
       IN  /\ gd[d].buffer1 \in Buffers[d]
           /\ p \notin Rowless => mem[gd[d].buffer1] = p
           /\ p \notin Rowless /\ flow[d].result = NULL => ~gd[d].computed
           /\ flow[d].result # NULL =>
                ComputeOK(gd[d], p, cd[flow[d].result])

(* No two flows lead to one result.                                        *)
Sole ==
  \A d, e \in Descrs : d # e /\ flow[d].result = flow[e].result =>
    flow[d].result = NULL

ResultOK(r) ==
  /\ r.attached => r.room = r.nnz
  /\ AttachFirst => r.written <= r.room
  /\ r.rowless => r.nnz = 0 /\ r.max_row_nnz \in {-1, 0}
  /\ r.reported # NULL =>
       /\ r.nnz = Total[r.reported]
       /\ Total[r.reported] > 0 =>
            r.offsets = r.reported /\ r.entries = r.reported
       /\ AttachFirst /\ r.max_row_nnz # -1 =>
            r.max_row_nnz = LongestRow[r.reported]

ResultsOK == \A c \in Results : cd[c] # NULL => ResultOK(cd[c])

IInv == TypeOK /\ (\A d \in Descrs : FlowOK(d)) /\ Sole /\ ResultsOK

----------------------------------------------------------------------------
(* A flow goes on as it was, or is abandoned, when its own descriptor,     *)
(* operands and estimate are untouched and its result keeps what it needs. *)
LEMMA FlowFrame ==
  ASSUME NEW d \in Descrs, FlowOK(d),
         gd'[d] = gd[d], flow'[d] \in {flow[d], Idle},
         flow'[d].pair # NULL =>
           /\ operands'[flow[d].pair] = operands[flow[d].pair]
           /\ mem'[gd[d].buffer1] = mem[gd[d].buffer1],
         flow'[d].result # NULL =>
           LET p == operands[flow[d].pair]
           IN  ComputeOK(gd[d], p, cd[flow[d].result]) =>
                 ComputeOK(gd[d], p, cd'[flow[d].result])
  PROVE  FlowOK(d)'
<1>1. CASE flow'[d] = Idle BY <1>1 DEF FlowOK, Idle
<1>2. CASE flow'[d] = flow[d] BY <1>2 DEF FlowOK, ComputeOK
<1> QED BY <1>1, <1>2

(* Some flows are abandoned and none is begun.                             *)
LEMMA SoleFrame ==
  ASSUME IInv, \A d \in Descrs : flow'[d] \in {flow[d], Idle}
  PROVE  Sole'
BY DEF IInv, Sole, Idle

LEMMA InitIInv == Init => IInv
<1> SUFFICES ASSUME Init PROVE IInv OBVIOUS
<1>1. TypeOK BY DEF Init, TypeOK, Idle, Content
<1>2. \A d \in Descrs : FlowOK(d) BY DEF Init, FlowOK, Idle
<1>3. Sole /\ ResultsOK BY DEF Init, Sole, Idle, ResultsOK
<1> QED BY <1>1, <1>2, <1>3 DEF IInv

LEMMA CreateDescrKeeps ==
  ASSUME IInv, NEW d \in Descrs, CreateDescr(d)
  PROVE  IInv'
<1>1. NewDescr \in Descr /\ Established(NewDescr)
  BY DEF NewDescr, Descr, Content, Established
<1>2. TypeOK' BY <1>1 DEF CreateDescr, IInv, TypeOK
<1>3. ASSUME NEW e \in Descrs PROVE FlowOK(e)'
  <2>1. CASE e = d BY <2>1 DEF CreateDescr, IInv, FlowOK, Idle
  <2>2. CASE e # d
    <3>1. gd'[e] = gd[e] BY <2>2 DEF CreateDescr, IInv, TypeOK
    <3> QED BY <3>1, FlowFrame DEF CreateDescr, IInv
  <2> QED BY <2>1, <2>2
<1>4. Sole' /\ ResultsOK' BY DEF CreateDescr, IInv, Sole, ResultsOK, ResultOK
<1> QED BY <1>2, <1>3, <1>4 DEF IInv

LEMMA DestroyDescrKeeps ==
  ASSUME IInv, NEW d \in Descrs, DestroyDescr(d)
  PROVE  IInv'
<1>1. TypeOK' BY DEF DestroyDescr, IInv, TypeOK, Idle
<1>2. ASSUME NEW e \in Descrs PROVE FlowOK(e)'
  <2>1. CASE e = d
    <3>1. flow'[e] = Idle BY <2>1 DEF DestroyDescr, IInv, TypeOK
    <3> QED BY <3>1 DEF FlowOK, Idle
  <2>2. CASE e # d
    <3>1. gd'[e] = gd[e] /\ flow'[e] = flow[e]
      BY <2>2 DEF DestroyDescr, IInv, TypeOK
    <3> QED BY <3>1, FlowFrame DEF DestroyDescr, IInv
  <2> QED BY <2>1, <2>2
<1>3. \A e \in Descrs : flow'[e] \in {flow[e], Idle}
  BY DEF DestroyDescr, IInv, TypeOK
<1>4. ResultsOK' BY DEF DestroyDescr, IInv, ResultsOK, ResultOK
<1> QED BY <1>1, <1>2, <1>3, <1>4, SoleFrame DEF IInv

LEMMA EstimateKeeps ==
  ASSUME IInv, Discipline, NEW d \in Descrs, NEW o \in Pairs,
         NEW b \in Buffers[d], Estimate(d, o, b)
  PROVE  IInv'
<1> DEFINE p == operands[o]
<1>1. b \in Addresses /\ p \in Products /\ Work[p] \in Nat
      /\ gd[d] \in Descr /\ Established(gd[d])
  BY SpGEMMAssumption DEF IInv, TypeOK, Estimate
<1>2. PICK g \in Descr, m \in Content, f \in {Idle, [Idle EXCEPT !.pair = o]} :
        /\ gd' = [gd EXCEPT ![d] = g] /\ Established(g)
        /\ mem' = [mem EXCEPT ![b] = m]
        /\ flow' = [flow EXCEPT ![d] = f]
        /\ f # Idle =>
             /\ g.buffer1 = b
             /\ p \notin Rowless => m = p /\ ~g.computed
  <2>1. /\ [gd EXCEPT ![d] = gd[d]] = gd /\ [mem EXCEPT ![b] = mem[b]] = mem
        /\ mem[b] \in Content
    BY <1>1 DEF IInv, TypeOK
  <2>2. CASE /\ p \in Rowless
             /\ gd' = [gd EXCEPT ![d].estimated = TRUE, ![d].buffer1 = b]
             /\ flow' = [flow EXCEPT ![d] = [Idle EXCEPT !.pair = o]]
             /\ UNCHANGED mem
    <3> DEFINE g == [gd[d] EXCEPT !.estimated = TRUE, !.buffer1 = b]
    <3>1. gd' = [gd EXCEPT ![d] = g] BY <1>1, <2>2 DEF IInv, TypeOK
    <3>2. g \in Descr /\ g.buffer1 = b BY <1>1 DEF Descr
    <3>3. Established(g)
      BY <1>1, SpGEMMAssumption DEF Established, Descr
    <3> QED BY <2>1, <2>2, <3>1, <3>2, <3>3
  <2>3. CASE /\ p \notin Rowless
             /\ gd' = [gd EXCEPT ![d] = Estimated(gd[d], p, b)]
             /\ flow' = [flow EXCEPT ![d] = [Idle EXCEPT !.pair = o]]
             /\ mem' = [mem EXCEPT ![b] = p]
    <3> DEFINE g == Estimated(gd[d], p, b)
    <3>1. g \in Descr /\ g.buffer1 = b /\ ~g.computed
      BY <1>1 DEF Estimated, Descr
    <3>2. Established(g)
      BY <1>1, SpGEMMAssumption DEF Estimated, Established, Descr
    <3> QED BY <1>1, <2>3, <3>1, <3>2 DEF Content
  <2>4. CASE /\ flow' = [flow EXCEPT ![d] = Idle]
             /\ mem' \in {mem, [mem EXCEPT ![b] = NULL]}
             /\ UNCHANGED gd
    BY <1>1, <2>1, <2>4 DEF Content
  <2> QED BY <2>2, <2>3, <2>4 DEF Estimate
<1>3. /\ gd'[d] = g /\ mem'[b] = m /\ flow'[d] = f
      /\ \A e \in Descrs : e # d => gd'[e] = gd[e] /\ flow'[e] = flow[e]
      /\ \A a \in Addresses : a # b => mem'[a] = mem[a]
      /\ UNCHANGED <<operands, cd>>
  BY <1>1, <1>2 DEF IInv, TypeOK, Estimate
<1>4. TypeOK'
  <2>1. f \in [pair : Pairs \cup {NULL}, result : Results \cup {NULL}]
    BY DEF Idle
  <2> QED BY <1>1, <1>2, <1>3, <2>1 DEF IInv, TypeOK
<1>5. ASSUME NEW e \in Descrs PROVE FlowOK(e)'
  <2>1. CASE e = d
    <3>1. f.result = NULL /\ f.pair \in {NULL, o} BY DEF Idle
    <3>2. f.pair = o => f # Idle BY SpGEMMAssumption DEF Idle
    <3>3. gd'[e] # NULL BY <1>3, <2>1, NullAssumption
    <3> QED BY <1>2, <1>3, <2>1, <3>1, <3>2, <3>3 DEF FlowOK
  <2>2. CASE e # d
    <3>1. flow[e].pair # NULL => gd[e].buffer1 \in Addresses \ {b}
      BY <2>2, SpGEMMAssumption
         DEF Discipline, PrivateBuffers, IInv, FlowOK
    <3> QED BY <1>3, <2>2, <3>1, FlowFrame DEF IInv
  <2> QED BY <2>1, <2>2
<1>6. Sole'
  <2>1. f.result = NULL BY DEF Idle
  <2> QED BY <1>3, <2>1 DEF IInv, Sole
<1>7. ResultsOK' BY <1>3 DEF IInv, ResultsOK, ResultOK
<1> QED BY <1>4, <1>5, <1>6, <1>7 DEF IInv

(* With r in its place, result c still has what d computed into it.        *)
Carries(d, c, r) ==
  flow[d].result = c =>
    LET p == operands[flow[d].pair]
    IN  ComputeOK(gd[d], p, cd[c]) => ComputeOK(gd[d], p, r)

(* Result c is replaced, the flows to it going on only where it still has  *)
(* what they computed.                                                     *)
LEMMA ResultKeeps ==
  ASSUME IInv, NEW c \in Results, NEW r \in Result \cup {NULL},
         r # NULL => ResultOK(r),
         cd' = [cd EXCEPT ![c] = r], UNCHANGED <<operands, mem, gd>>,
         \A d \in Descrs :
           flow'[d] = Idle \/ (flow'[d] = flow[d] /\ Carries(d, c, r)),
         flow' \in [Descrs -> [pair : Pairs \cup {NULL}, result : Results \cup {NULL}]]
  PROVE  IInv'
<1>1. /\ cd'[c] = r
      /\ \A e \in Results : e # c => cd'[e] = cd[e]
  BY DEF IInv, TypeOK
<1>2. TypeOK' BY DEF IInv, TypeOK
<1>3. ASSUME NEW d \in Descrs PROVE FlowOK(d)'
  <2>1. flow'[d].result # NULL => flow'[d].result \in Results
    BY DEF IInv, TypeOK
  <2>2. flow'[d] \in {flow[d], Idle} OBVIOUS
  <2>3. flow'[d] = Idle => flow'[d].result = NULL BY DEF Idle
  <2>4. ASSUME flow'[d].result # NULL
        PROVE  LET p == operands[flow[d].pair]
               IN  ComputeOK(gd[d], p, cd[flow[d].result]) =>
                     ComputeOK(gd[d], p, cd'[flow[d].result])
    <3>1. flow'[d] = flow[d] BY <2>3, <2>4
    <3>2. CASE flow[d].result = c BY <1>1, <2>3, <2>4, <3>2 DEF Carries
    <3>3. CASE flow[d].result # c BY <1>1, <2>1, <2>4, <3>1, <3>3
    <3> QED BY <3>2, <3>3
  <2> QED BY <2>2, <2>4, FlowFrame DEF IInv
<1>4. Sole' BY SoleFrame
<1>5. ResultsOK' BY <1>1 DEF IInv, ResultsOK, ResultOK
<1> QED BY <1>2, <1>3, <1>4, <1>5 DEF IInv

LEMMA EmptyOK ==
  ASSUME NEW rowless \in BOOLEAN
  PROVE  Empty(rowless) \in Result /\ ResultOK(Empty(rowless))
BY DEF Empty, Result, ResultOK, Content

LEMMA CreateResultKeeps ==
  ASSUME IInv, NEW c \in Results, NEW rowless \in BOOLEAN,
         CreateResult(c, rowless)
  PROVE  IInv'
<1> DEFINE r == Empty(rowless)
<1>1. r \in Result /\ ResultOK(r) BY EmptyOK
<1>2. \A d \in Descrs : flow'[d] = flow[d] /\ Carries(d, c, r)
  BY DEF CreateResult, Carries, ComputeOK
<1>3. flow' \in [Descrs -> [pair : Pairs \cup {NULL}, result : Results \cup {NULL}]]
  BY DEF CreateResult, IInv, TypeOK
<1>4. cd' = [cd EXCEPT ![c] = r] /\ UNCHANGED <<operands, mem, gd>>
  BY DEF CreateResult
<1> HIDE DEF r
<1> QED BY <1>1, <1>2, <1>3, <1>4, ResultKeeps

LEMMA WithoutOutcome ==
  ASSUME IInv, NEW c
  PROVE  /\ Without(c) \in [Descrs -> [pair : Pairs \cup {NULL},
                                       result : Results \cup {NULL}]]
         /\ \A d \in Descrs :
              Without(c)[d] = IF flow[d].result = c THEN Idle ELSE flow[d]
BY DEF IInv, TypeOK, Without, Idle

LEMMA DestroyResultKeeps ==
  ASSUME IInv, NEW c \in Results, DestroyResult(c)
  PROVE  IInv'
<1>1. flow' = Without(c) /\ cd' = [cd EXCEPT ![c] = NULL]
      /\ UNCHANGED <<operands, mem, gd>>
  BY DEF DestroyResult
<1>2. \A d \in Descrs :
        flow'[d] = Idle \/ (flow'[d] = flow[d] /\ Carries(d, c, NULL))
  <2> SUFFICES ASSUME NEW d \in Descrs
               PROVE  flow'[d] = Idle \/ (flow'[d] = flow[d] /\ Carries(d, c, NULL))
    OBVIOUS
  <2>1. flow'[d] = IF flow[d].result = c THEN Idle ELSE flow[d]
    BY <1>1, WithoutOutcome
  <2> QED BY <2>1 DEF Carries
<1> QED BY <1>1, <1>2, WithoutOutcome, ResultKeeps

LEMMA AttachKeeps ==
  ASSUME IInv, NEW c \in Results, Attach(c)
  PROVE  IInv'
<1> DEFINE r == [Empty(cd[c].rowless) EXCEPT
                   !.nnz = cd[c].nnz, !.room = cd[c].nnz, !.attached = TRUE]
<1>1. cd[c] \in Result /\ ResultOK(cd[c]) /\ cd[c] # NULL
  BY DEF Attach, IInv, TypeOK, ResultsOK
<1>2. /\ r \in Result /\ r.nnz = cd[c].nnz /\ r.room = cd[c].nnz
      /\ r.rowless = cd[c].rowless /\ r.written = 0 /\ r.reported = NULL
      /\ r.max_row_nnz = -1
  BY <1>1 DEF Empty, Result, Content
<1>3. ResultOK(r) BY <1>1, <1>2 DEF ResultOK, Result
<1>4. \A d \in Descrs : flow'[d] = flow[d] /\ Carries(d, c, r)
  BY <1>2, NullAssumption DEF Attach, Carries, ComputeOK
<1>5. /\ cd' = [cd EXCEPT ![c] = r] /\ UNCHANGED <<operands, mem, gd, flow>>
  BY DEF Attach
<1> HIDE DEF r
<1> QED BY <1>2, <1>3, <1>4, <1>5, ResultKeeps DEF IInv, TypeOK

LEMMA UseKeeps ==
  ASSUME IInv, NEW c \in Results, Use(c)
  PROVE  IInv'
<1> DEFINE longest == IF cd[c].nnz = 0 THEN 0 ELSE LongestRow[cd[c].offsets]
           r == [cd[c] EXCEPT !.max_row_nnz = longest]
           q == cd[c].reported
<1>1. cd[c] \in Result /\ ResultOK(cd[c]) /\ q # NULL /\ cd[c] # NULL
  BY DEF Use, IInv, TypeOK, ResultsOK
<1>2. q \in Products /\ cd[c].nnz = Total[q] /\ Total[q] \in Nat
      /\ LongestRow[q] \in Nat
  BY <1>1, SpGEMMAssumption DEF ResultOK, Result, Content
<1>3. longest = LongestRow[q]
  BY <1>1, <1>2, SpGEMMAssumption DEF ResultOK
<1>4. /\ r \in Result /\ r.max_row_nnz = LongestRow[q]
      /\ \A k \in {"rowless", "nnz", "attached", "room", "offsets", "entries",
                   "written", "reported"} : r[k] = cd[c][k]
  BY <1>1, <1>2, <1>3 DEF Result
<1>5. ResultOK(r)
  <2>1. r.rowless => r.max_row_nnz \in {-1, 0}
    BY <1>1, <1>2, <1>4, SpGEMMAssumption DEF ResultOK
  <2> QED BY <1>1, <1>4, <2>1 DEF ResultOK
<1>6. \A d \in Descrs : flow'[d] = flow[d] /\ Carries(d, c, r)
  <2> SUFFICES ASSUME NEW d \in Descrs, NEW p, ComputeOK(gd[d], p, cd[c])
               PROVE  ComputeOK(gd[d], p, r)
    BY DEF Use, Carries
  <2> QED BY <1>1, <1>4, NullAssumption DEF ComputeOK
<1>7. cd' = [cd EXCEPT ![c] = r] /\ UNCHANGED <<operands, mem, gd, flow>>
  <2>1. cd' = [cd EXCEPT ![c].max_row_nnz = longest] BY DEF Use
  <2> QED BY <2>1 DEF Use, IInv, TypeOK
<1> HIDE DEF r
<1> QED BY <1>4, <1>5, <1>6, <1>7, ResultKeeps DEF IInv, TypeOK

LEMMA ChangeOperandsKeeps ==
  ASSUME IInv, Discipline, NEW o \in Pairs, NEW p \in Products,
         ChangeOperands(o, p)
  PROVE  IInv'
<1>1. TypeOK' BY DEF ChangeOperands, IInv, TypeOK
<1>2. ASSUME NEW d \in Descrs PROVE FlowOK(d)'
  <2>1. flow[d].pair # o BY DEF ChangeOperands, Discipline
  <2>2. flow[d].pair # NULL => operands'[flow[d].pair] = operands[flow[d].pair]
    BY <2>1 DEF ChangeOperands, IInv, TypeOK
  <2> QED BY <2>2, FlowFrame DEF ChangeOperands, IInv
<1>3. Sole' /\ ResultsOK'
  BY DEF ChangeOperands, IInv, Sole, ResultsOK, ResultOK
<1> QED BY <1>1, <1>2, <1>3 DEF IInv

----------------------------------------------------------------------------
(* Descriptor d has computed the product of o into c, as g and r.          *)
LEMMA TakesKeeps ==
  ASSUME IInv, NEW d \in Descrs, NEW o \in Pairs, NEW c \in Results,
         NEW g \in Descr, NEW r \in Result,
         flow[d].pair = o, flow' = Takes(d, o, c),
         gd' = [gd EXCEPT ![d] = g], g.buffer1 = gd[d].buffer1, Established(g),
         cd' = [cd EXCEPT ![c] = r], ResultOK(r),
         ComputeOK(g, operands[o], r), UNCHANGED <<operands, mem>>
  PROVE  IInv'
<1> DEFINE took == [pair |-> o, result |-> c]
<1>1. /\ gd'[d] = g /\ cd'[c] = r /\ flow'[d] = took
      /\ \A e \in Descrs : e # d =>
           /\ gd'[e] = gd[e]
           /\ flow'[e] = IF flow[e].result = c THEN Idle ELSE flow[e]
      /\ \A e \in Results : e # c => cd'[e] = cd[e]
  BY WithoutOutcome DEF Takes, IInv, TypeOK
<1>2. TypeOK'
  <2>1. took \in [pair : Pairs \cup {NULL}, result : Results \cup {NULL}]
    OBVIOUS
  <2>2. flow' \in [Descrs -> [pair : Pairs \cup {NULL}, result : Results \cup {NULL}]]
    BY <2>1, WithoutOutcome DEF Takes
  <2>3. \A e \in Descrs : gd'[e] # NULL => Established(gd'[e])
    BY <1>1 DEF IInv, TypeOK
  <2> QED BY <2>2, <2>3 DEF IInv, TypeOK
<1>3. ASSUME NEW e \in Descrs PROVE FlowOK(e)'
  <2>1. CASE e = d
    <3>1. flow'[e].pair = o /\ flow'[e].result = c /\ o # NULL /\ c # NULL
      BY <1>1, <2>1, SpGEMMAssumption
    <3>2. gd'[e] # NULL BY <1>1, <2>1, NullAssumption
    <3>3. ComputeOK(gd'[e], operands'[o], cd'[c]) BY <1>1, <2>1
    <3>4. gd[d].buffer1 \in Buffers[d] /\
          (operands[o] \notin Rowless => mem[gd[d].buffer1] = operands[o])
      BY <3>1 DEF IInv, FlowOK
    <3> QED BY <1>1, <2>1, <3>1, <3>2, <3>3, <3>4 DEF FlowOK, ComputeOK
  <2>2. CASE e # d
    <3>1. gd'[e] = gd[e] /\ flow'[e] \in {flow[e], Idle} BY <1>1, <2>2
    <3>2. flow'[e].result # NULL => cd'[flow[e].result] = cd[flow[e].result]
      <4>1. flow'[e].result # NULL =>
              flow[e].result # c /\ flow[e].result \in Results
        BY <1>1, <2>2 DEF Idle, IInv, TypeOK
      <4> QED BY <1>1, <4>1
    <3> QED BY <3>1, <3>2, FlowFrame DEF IInv
  <2> QED BY <2>1, <2>2
<1>4. Sole'
  <2>1. \A e \in Descrs : e # d => flow'[e].result # c
    BY <1>1, SpGEMMAssumption DEF Idle
  <2>2. \A e \in Descrs : e # d => flow'[e].result \in {flow[e].result, NULL}
    BY <1>1 DEF Idle
  <2>3. flow'[d].result = c BY <1>1
  <2> QED BY <2>1, <2>2, <2>3 DEF IInv, Sole
<1>5. ResultsOK' BY <1>1 DEF IInv, ResultsOK, ResultOK
<1> QED BY <1>2, <1>3, <1>4, <1>5 DEF IInv

LEMMA ComputeKeeps ==
  ASSUME IInv, Discipline, NEW d \in Descrs, NEW o \in Pairs, NEW c \in Results,
         Compute(d, o, c)
  PROVE  IInv'
<1> DEFINE p == operands[o]
<1>1. /\ gd[d] \in Descr /\ gd[d].estimated /\ gd[d].buffer1 # NULL
      /\ cd[c] \in Result /\ ResultOK(cd[c])
      /\ cd[c].rowless <=> p \in Rowless
      /\ flow[d].pair = o /\ p \in Products
      /\ UNCHANGED <<operands, mem>>
  BY DEF Compute, Shaped, Discipline, IInv, TypeOK, Established, ResultsOK
<1>2. CASE ComputeRowless(d, o, c)
  <2> DEFINE g == [gd[d] EXCEPT !.computed = TRUE]
             r == [cd[c] EXCEPT !.nnz = 0, !.attached = FALSE, !.reported = NULL]
  <2>1. gd' = [gd EXCEPT ![d] = g] /\ cd' = [cd EXCEPT ![c] = r]
        /\ flow' = Takes(d, o, c)
    BY <1>1, <1>2 DEF ComputeRowless, IInv, TypeOK
  <2>2. g \in Descr /\ g.buffer1 = gd[d].buffer1 /\ Established(g)
    BY <1>1 DEF Descr, Established
  <2>3. /\ r \in Result /\ r.nnz = 0 /\ ~r.attached /\ r.reported = NULL
        /\ r.rowless = cd[c].rowless /\ r.max_row_nnz = cd[c].max_row_nnz
        /\ r.written = cd[c].written /\ r.room = cd[c].room
    BY <1>1 DEF Result, Content
  <2>4. p \in Rowless /\ Total[p] = 0
    BY <1>2, SpGEMMAssumption DEF ComputeRowless
  <2>5. ResultOK(r) BY <1>1, <2>3 DEF ResultOK
  <2>6. ComputeOK(g, p, r) BY <1>1, <2>3, <2>4, NullAssumption DEF ComputeOK
  <2> HIDE DEF g, r
  <2> QED BY <1>1, <2>1, <2>2, <2>3, <2>5, <2>6, TakesKeeps
<1>3. CASE ComputeCounts(d, o, c)
  <2>1. p \notin Rowless /\ o # NULL
    BY <1>3, SpGEMMAssumption DEF ComputeCounts
  <2>2. Counted(d, p) = {p} BY <1>1, <2>1 DEF Counted, IInv, FlowOK
  <2>3. CASE /\ Total[p] <= MaxTotal
             /\ gd' = [gd EXCEPT ![d].host_indptr = p, ![d].computed = TRUE,
                                 ![d].max_row_nnz = LongestRow[p]]
             /\ cd' = [cd EXCEPT ![c] = Sized(cd[c], p)]
             /\ flow' = Takes(d, o, c)
    <3> DEFINE g == [gd[d] EXCEPT !.host_indptr = p, !.computed = TRUE,
                                  !.max_row_nnz = LongestRow[p]]
               r == Sized(cd[c], p)
    <3>1. gd' = [gd EXCEPT ![d] = g] BY <1>1, <2>3 DEF IInv, TypeOK
    <3>2. Total[p] \in Nat /\ LongestRow[p] \in Nat
      BY <1>1, SpGEMMAssumption
    <3>3. /\ g \in Descr /\ g.buffer1 = gd[d].buffer1 /\ Established(g)
          /\ g.host_indptr = p /\ g.max_row_nnz = LongestRow[p]
      BY <1>1, <3>2 DEF Descr, Established, Content
    <3>4. /\ r \in Result /\ r.nnz = Total[p] /\ ~r.attached
          /\ r.reported = NULL /\ ~r.rowless
          /\ r.written = cd[c].written /\ r.room = cd[c].room
      BY <1>1, <2>1, <3>2 DEF Sized, Result, Content
    <3>5. ResultOK(r) BY <1>1, <3>4 DEF ResultOK
    <3>6. ComputeOK(g, p, r)
      BY <2>1, <2>3, <3>3, <3>4, NullAssumption DEF ComputeOK
    <3> HIDE DEF g, r
    <3>7. cd' = [cd EXCEPT ![c] = r] /\ flow' = Takes(d, o, c) BY <2>3 DEF r
    <3> QED BY <1>1, <3>1, <3>3, <3>4, <3>5, <3>6, <3>7, TakesKeeps
  <2>4. CASE /\ gd' = [gd EXCEPT ![d].host_indptr =
                        IF Total[p] <= MaxTotal THEN p ELSE NULL]
             /\ UNCHANGED <<cd, flow>>
    <3> DEFINE g == [gd[d] EXCEPT !.host_indptr =
                       IF Total[p] <= MaxTotal THEN p ELSE NULL]
    <3>1. gd' = [gd EXCEPT ![d] = g] BY <1>1, <2>4 DEF IInv, TypeOK
    <3>2. /\ g \in Descr /\ Established(g)
          /\ g.buffer1 = gd[d].buffer1 /\ g.computed = gd[d].computed
          /\ g.max_row_nnz = gd[d].max_row_nnz
          /\ Total[p] <= MaxTotal => g.host_indptr = p
      BY <1>1, SpGEMMAssumption
         DEF Descr, Established, Content, IInv, TypeOK, Compute
    <3> HIDE DEF g
    <3>3. /\ gd'[d] = g
          /\ \A e \in Descrs : e # d => gd'[e] = gd[e]
      BY <3>1 DEF IInv, TypeOK
    <3>4. TypeOK' BY <1>1, <2>4, <3>1, <3>2, <3>3 DEF IInv, TypeOK
    <3>5. ASSUME NEW e \in Descrs PROVE FlowOK(e)'
      <4>1. CASE e = d
        <5>1. FlowOK(d) /\ g # NULL BY <3>2, NullAssumption DEF IInv
        <5>2. ComputeOK(gd[d], p, cd[flow[d].result]) =>
                ComputeOK(g, p, cd[flow[d].result])
          BY <3>2 DEF ComputeOK
        <5> QED BY <1>1, <2>1, <2>4, <3>2, <3>3, <4>1, <5>1, <5>2 DEF FlowOK, ComputeOK
      <4>2. CASE e # d BY <1>1, <2>4, <3>3, <4>2, FlowFrame DEF IInv
      <4> QED BY <4>1, <4>2
    <3>6. Sole' /\ ResultsOK' BY <2>4 DEF IInv, Sole, ResultsOK, ResultOK
    <3> QED BY <3>4, <3>5, <3>6 DEF IInv
  <2> QED BY <1>3, <2>2, <2>3, <2>4 DEF ComputeCounts
<1> QED BY <1>2, <1>3 DEF Compute

(* An orderly copy that writes entries follows a compute into this result. *)
LEMMA CopyEntriesOutcome ==
  ASSUME IInv, Discipline, NEW d \in Descrs, NEW o \in Pairs, NEW c \in Results,
         Copy(d, o, c), operands[o] \notin Rowless
  PROVE  /\ flow[d].result = c
         /\ ComputeOK(gd[d], operands[o], cd[c])
         /\ mem[gd[d].buffer1] = operands[o]
<1>1. /\ flow[d].pair = o /\ flow[d].result \in {c, NULL} /\ gd[d].computed
      /\ o # NULL
  BY SpGEMMAssumption DEF Copy, Discipline
<1>2. FlowOK(d) BY DEF IInv
<1>3. flow[d].result = c /\ c # NULL BY <1>1, <1>2, SpGEMMAssumption DEF FlowOK
<1> QED BY <1>1, <1>2, <1>3 DEF FlowOK

LEMMA CopyNothingKeeps ==
  ASSUME IInv, Discipline, NEW d \in Descrs, NEW o \in Pairs, NEW c \in Results,
         Copy(d, o, c), CopyNothing(d, o, c)
  PROVE  IInv'
<1> DEFINE p == operands[o]
           r == [cd[c] EXCEPT !.reported = p]
<1>1. /\ cd[c] \in Result /\ ResultOK(cd[c]) /\ p \in Products
      /\ cd[c].rowless <=> p \in Rowless
  BY DEF Copy, Shaped, IInv, TypeOK, ResultsOK
<1>2. p # NULL /\ Total[p] \in Nat BY <1>1, SpGEMMAssumption
<1>3. /\ r \in Result /\ r.reported = p
      /\ \A k \in {"rowless", "nnz", "attached", "room", "offsets", "entries",
                   "written", "max_row_nnz"} : r[k] = cd[c][k]
  BY <1>1 DEF Result, Content
<1>4. p \notin Rowless =>
        /\ ComputeOK(gd[d], p, cd[c]) /\ flow[d].result = c
        /\ AttachFirst => cd[c].attached
  BY CopyEntriesOutcome DEF Copy, Discipline
<1>5. cd[c].nnz = 0 /\ Total[p] = 0 /\ LongestRow[p] = 0
  BY <1>1, <1>4, SpGEMMAssumption DEF CopyNothing, ResultOK, ComputeOK
<1>6. ResultOK(r) BY <1>1, <1>2, <1>3, <1>4, <1>5 DEF ResultOK, ComputeOK
<1>7. \A e \in Descrs : flow'[e] = flow[e] /\ Carries(e, c, r)
  <2> SUFFICES ASSUME NEW e \in Descrs, flow[e].result = c,
                      ComputeOK(gd[e], operands[flow[e].pair], cd[c])
               PROVE  ComputeOK(gd[e], operands[flow[e].pair], r)
    BY DEF Copy, Carries
  <2>1. CASE p \in Rowless
    BY <1>1, <1>2, <1>3, <2>1, NullAssumption DEF ComputeOK
  <2>2. CASE p \notin Rowless
    <3>1. e = d BY <1>4, <2>2, SpGEMMAssumption DEF IInv, Sole
    <3>2. flow[e].pair = o BY <3>1 DEF Copy, Discipline
    <3> QED BY <1>1, <1>2, <1>3, <3>2, NullAssumption DEF ComputeOK
  <2> QED BY <2>1, <2>2
<1>8. /\ cd' = [cd EXCEPT ![c] = r] /\ UNCHANGED <<operands, mem, gd, flow>>
  <2>1. cd' = [cd EXCEPT ![c].reported = p] BY DEF CopyNothing
  <2> QED BY <2>1 DEF Copy, IInv, TypeOK
<1> HIDE DEF r
<1> QED BY <1>3, <1>6, <1>7, <1>8, ResultKeeps DEF IInv, TypeOK

LEMMA CopyEntriesKeeps ==
  ASSUME IInv, Discipline, NEW d \in Descrs, NEW o \in Pairs, NEW c \in Results,
         Copy(d, o, c), CopyEntries(d, o, c)
  PROVE  IInv'
<1> DEFINE p == operands[o]
           g == gd[d]
           uploads == [cd[c] EXCEPT !.offsets = g.host_indptr, !.reported = NULL]
           fills == [uploads EXCEPT !.entries = NULL,
                                    !.written = Total[g.host_indptr]]
           sorts == [fills EXCEPT
                       !.entries = IF FillsRight(d, o, c) THEN operands[o] ELSE NULL,
                       !.reported = operands[o]]
<1>1. /\ cd[c] \in Result /\ ResultOK(cd[c]) /\ p \in Products
      /\ p \notin Rowless /\ (AttachFirst => cd[c].attached)
  BY DEF Copy, CopyEntries, Shaped, Discipline, IInv, TypeOK, ResultsOK
<1>2. /\ flow[d].result = c /\ flow[d].pair = o
      /\ ComputeOK(g, p, cd[c]) /\ mem[g.buffer1] = p
  BY <1>1, CopyEntriesOutcome DEF Copy, Discipline
<1>3. /\ g.host_indptr = p /\ g.max_row_nnz = LongestRow[p]
      /\ cd[c].nnz = Total[p] /\ (AttachFirst => cd[c].room = Total[p])
      /\ Total[p] \in Nat /\ p # NULL
      /\ AttachFirst /\ cd[c].max_row_nnz # -1 =>
           cd[c].max_row_nnz = LongestRow[p]
  BY <1>1, <1>2, SpGEMMAssumption DEF ComputeOK, ResultOK
<1>4. FillsRight(d, o, c) BY <1>2, <1>3 DEF FillsRight, Holds
<1>5. PICK r \in {[uploads EXCEPT !.offsets = NULL], uploads, fills, sorts} :
        cd' = [cd EXCEPT ![c] = r]
  BY DEF CopyEntries
<1>6. /\ r \in Result /\ r.nnz = cd[c].nnz /\ r.rowless = cd[c].rowless
      /\ r.attached = cd[c].attached /\ r.room = cd[c].room
      /\ r.max_row_nnz = cd[c].max_row_nnz
      /\ r.written \in {cd[c].written, Total[p]}
      /\ \/ r.reported = NULL
         \/ r.reported = p /\ r.offsets = p /\ r.entries = p
  <2> USE <1>1, <1>3, <1>4 DEF Result, Content
  <2>1. /\ uploads \in Result /\ uploads.nnz = cd[c].nnz
        /\ uploads.rowless = cd[c].rowless
        /\ uploads.attached = cd[c].attached /\ uploads.room = cd[c].room
        /\ uploads.max_row_nnz = cd[c].max_row_nnz
        /\ uploads.written = cd[c].written
        /\ uploads.reported = NULL /\ uploads.offsets = p
    OBVIOUS
  <2> HIDE DEF uploads
  <2>2. CASE r = [uploads EXCEPT !.offsets = NULL] BY <2>1, <2>2
  <2>3. CASE r = uploads BY <2>1, <2>3
  <2>4. /\ fills \in Result /\ fills.nnz = cd[c].nnz
        /\ fills.rowless = cd[c].rowless
        /\ fills.attached = cd[c].attached /\ fills.room = cd[c].room
        /\ fills.max_row_nnz = cd[c].max_row_nnz
        /\ fills.written = Total[p]
        /\ fills.reported = NULL /\ fills.offsets = p
    BY <2>1
  <2> HIDE DEF fills
  <2>5. CASE r = fills BY <2>4, <2>5
  <2>6. CASE r = sorts BY <2>4, <2>6
  <2> QED BY <1>5, <2>2, <2>3, <2>5, <2>6
<1> HIDE DEF uploads, fills, sorts
<1>7. ResultOK(r)
  <2>1. AttachFirst => r.written <= r.room
    BY <1>1, <1>3, <1>6 DEF ResultOK, Result
  <2> QED BY <1>1, <1>3, <1>6, <2>1 DEF ResultOK
<1>8. \A e \in Descrs : flow'[e] = flow[e] /\ Carries(e, c, r)
  <2> SUFFICES ASSUME NEW e \in Descrs, flow[e].result = c
               PROVE  ComputeOK(gd[e], operands[flow[e].pair], r)
    BY DEF Copy, Carries
  <2>1. e = d BY <1>2, SpGEMMAssumption DEF IInv, Sole
  <2> QED BY <1>2, <1>6, <2>1, NullAssumption DEF ComputeOK
<1>9. UNCHANGED <<operands, mem, gd, flow>> BY DEF Copy
<1> QED BY <1>5, <1>6, <1>7, <1>8, <1>9, ResultKeeps DEF IInv, TypeOK

LEMMA NextIInv ==
  ASSUME IInv, Discipline, [Next]_vars
  PROVE  IInv'
<1>1. CASE \E d \in Descrs : OnDescr(d)
  <2>1. PICK d \in Descrs : OnDescr(d) BY <1>1
  <2>2. CASE CreateDescr(d) BY <2>2, CreateDescrKeeps
  <2>3. CASE DestroyDescr(d) BY <2>3, DestroyDescrKeeps
  <2>4. CASE \E o \in Pairs, b \in Buffers[d] : Estimate(d, o, b)
    BY <2>4, EstimateKeeps
  <2>5. CASE \E o \in Pairs, c \in Results : Compute(d, o, c)
    BY <2>5, ComputeKeeps
  <2>6. CASE \E o \in Pairs, c \in Results : Copy(d, o, c)
    <3>1. PICK o \in Pairs, c \in Results : Copy(d, o, c) BY <2>6
    <3>2. CopyNothing(d, o, c) \/ CopyEntries(d, o, c) BY <3>1 DEF Copy
    <3> QED BY <3>1, <3>2, CopyNothingKeeps, CopyEntriesKeeps
  <2> QED BY <2>1, <2>2, <2>3, <2>4, <2>5, <2>6 DEF OnDescr
<1>2. CASE \E c \in Results : OnResult(c)
  <2>1. PICK c \in Results : OnResult(c) BY <1>2
  <2>2. CASE \E rowless \in BOOLEAN : CreateResult(c, rowless)
    BY <2>2, CreateResultKeeps
  <2>3. CASE DestroyResult(c) BY <2>3, DestroyResultKeeps
  <2>4. CASE Attach(c) BY <2>4, AttachKeeps
  <2>5. CASE Use(c) BY <2>5, UseKeeps
  <2> QED BY <2>1, <2>2, <2>3, <2>4, <2>5 DEF OnResult
<1>3. CASE \E o \in Pairs, p \in Products : ChangeOperands(o, p)
  BY <1>3, ChangeOperandsKeeps
<1>4. CASE UNCHANGED vars
  BY <1>4 DEF vars, IInv, TypeOK, FlowOK, ComputeOK, Sole, ResultsOK, ResultOK
<1> QED BY <1>1, <1>2, <1>3, <1>4 DEF Next

LEMMA AlwaysIInv == Discipline /\ Spec => []IInv
<1>1. Init => IInv BY InitIInv
<1>2. Discipline /\ IInv /\ [Next]_vars => IInv' BY NextIInv
<1>3. Discipline => []Discipline
  <2>1. Discipline => Discipline'
    BY DEF Discipline, PrivateBuffers
  <2> QED BY <2>1, PTL
<1> QED BY <1>1, <1>2, <1>3, PTL DEF Spec

----------------------------------------------------------------------------
(* Types, whatever callers do: each lemma is about one kind of step.       *)

LEMMA EstimateTyped ==
  ASSUME TypeOK, NEW d \in Descrs, NEW o \in Pairs, NEW b \in Buffers[d],
         Estimate(d, o, b)
  PROVE  TypeOK'
<1> DEFINE p == operands[o]
<1>1. /\ b \in Addresses /\ b # NULL /\ p \in Products /\ Work[p] \in Nat
      /\ gd[d] \in Descr /\ Established(gd[d])
  BY SpGEMMAssumption DEF TypeOK, Estimate
<1>2. flow' \in [Descrs -> [pair : Pairs \cup {NULL}, result : Results \cup {NULL}]]
  BY DEF Estimate, TypeOK, Idle
<1>3. mem' \in [Addresses -> Content]
  BY <1>1 DEF Estimate, TypeOK, Content
<1>4. PICK g \in Descr : gd' = [gd EXCEPT ![d] = g] /\ Established(g)
  <2> DEFINE early == [gd[d] EXCEPT !.estimated = TRUE, !.buffer1 = b]
             full  == Estimated(gd[d], p, b)
  <2>1. early \in Descr /\ Established(early)
    BY <1>1 DEF Established, Descr
  <2>2. full \in Descr /\ Established(full)
    BY <1>1 DEF Estimated, Established, Descr
  <2>3. [gd EXCEPT ![d].estimated = TRUE, ![d].buffer1 = b] =
          [gd EXCEPT ![d] = early]
    BY DEF TypeOK
  <2>4. gd = [gd EXCEPT ![d] = gd[d]] BY DEF TypeOK
  <2>5. \/ gd' = [gd EXCEPT ![d].estimated = TRUE, ![d].buffer1 = b]
        \/ gd' = [gd EXCEPT ![d] = full]
        \/ gd' = gd
    BY DEF Estimate
  <2> HIDE DEF early, full
  <2>6. \E g \in {early, full, gd[d]} : gd' = [gd EXCEPT ![d] = g]
    <3>1. CASE gd' = [gd EXCEPT ![d].estimated = TRUE, ![d].buffer1 = b]
      BY <2>3, <3>1
    <3>2. CASE gd' = [gd EXCEPT ![d] = full] BY <3>2
    <3>3. CASE gd' = gd BY <2>4, <3>3
    <3> QED BY <2>5, <3>1, <3>2, <3>3
  <2> QED BY <1>1, <2>1, <2>2, <2>6
<1> QED BY <1>2, <1>3, <1>4 DEF Estimate, TypeOK

LEMMA ComputeTyped ==
  ASSUME TypeOK, NEW d \in Descrs, NEW o \in Pairs, NEW c \in Results,
         Compute(d, o, c)
  PROVE  TypeOK'
<1>1. /\ gd[d] \in Descr /\ Established(gd[d]) /\ gd[d].estimated
      /\ cd[c] \in Result /\ operands[o] \in Products
      /\ UNCHANGED <<operands, mem>>
  BY DEF Compute, Shaped, TypeOK
<1>2. /\ Takes(d, o, c) \in
           [Descrs -> [pair : Pairs \cup {NULL}, result : Results \cup {NULL}]]
  BY DEF TypeOK, Takes, Without, Idle
<1>3. CASE ComputeRowless(d, o, c)
  <2> DEFINE g == [gd[d] EXCEPT !.computed = TRUE]
             r == [cd[c] EXCEPT !.nnz = 0, !.attached = FALSE, !.reported = NULL]
  <2>1. g \in Descr /\ Established(g) /\ r \in Result
    BY <1>1 DEF Descr, Established, Result, Content
  <2>2. gd' = [gd EXCEPT ![d] = g] /\ cd' = [cd EXCEPT ![c] = r]
    BY <1>3 DEF ComputeRowless, TypeOK
  <2>3. flow' = Takes(d, o, c) BY <1>3 DEF ComputeRowless
  <2> HIDE DEF g, r
  <2>4. gd' \in [Descrs -> Descr \cup {NULL}]
        /\ \A e \in Descrs : gd'[e] # NULL => Established(gd'[e])
    BY <2>1, <2>2 DEF TypeOK
  <2>5. cd' \in [Results -> Result \cup {NULL}] BY <2>1, <2>2 DEF TypeOK
  <2> QED BY <1>1, <1>2, <2>3, <2>4, <2>5 DEF TypeOK
<1>4. CASE ComputeCounts(d, o, c)
  <2>1. PICK q \in Products :
          \/ /\ gd' = [gd EXCEPT ![d].host_indptr = q, ![d].computed = TRUE,
                                  ![d].max_row_nnz = LongestRow[q]]
             /\ cd' = [cd EXCEPT ![c] = Sized(cd[c], q)]
             /\ flow' = Takes(d, o, c)
          \/ /\ gd' = [gd EXCEPT ![d].host_indptr =
                          IF Total[q] <= MaxTotal THEN q ELSE NULL]
             /\ UNCHANGED <<cd, flow>>
    BY <1>1, <1>4 DEF ComputeCounts, Counted
  <2>2. Total[q] \in Nat /\ LongestRow[q] \in Nat BY SpGEMMAssumption
  <2> DEFINE g == [gd[d] EXCEPT !.host_indptr = q, !.computed = TRUE,
                                !.max_row_nnz = LongestRow[q]]
             f == [gd[d] EXCEPT !.host_indptr =
                     IF Total[q] <= MaxTotal THEN q ELSE NULL]
  <2>3. /\ g \in Descr /\ Established(g) /\ f \in Descr /\ Established(f)
        /\ Sized(cd[c], q) \in Result
    BY <1>1, <2>2 DEF Descr, Established, Sized, Result, Content
  <2>4. \/ gd' = [gd EXCEPT ![d] = g] /\ cd' = [cd EXCEPT ![c] = Sized(cd[c], q)]
           /\ flow' = Takes(d, o, c)
        \/ gd' = [gd EXCEPT ![d] = f] /\ UNCHANGED <<cd, flow>>
    BY <2>1 DEF TypeOK
  <2> HIDE DEF g, f
  <2> QED BY <1>1, <1>2, <2>3, <2>4 DEF TypeOK
<1> QED BY <1>3, <1>4 DEF Compute

LEMMA CopyTyped ==
  ASSUME TypeOK, NEW d \in Descrs, NEW o \in Pairs, NEW c \in Results,
         Copy(d, o, c)
  PROVE  TypeOK'
<1> DEFINE uploads == [cd[c] EXCEPT !.offsets = gd[d].host_indptr, !.reported = NULL]
           fills == [uploads EXCEPT !.entries = NULL,
                                    !.written = Total[gd[d].host_indptr]]
           sorts == [fills EXCEPT
                       !.entries = IF FillsRight(d, o, c) THEN operands[o] ELSE NULL,
                       !.reported = operands[o]]
<1>1. gd[d] \in Descr /\ cd[c] \in Result /\ operands[o] \in Products
  BY DEF Copy, Shaped, TypeOK
<1>2. PICK r \in Result : cd' = [cd EXCEPT ![c] = r]
  <2>1. CASE CopyNothing(d, o, c)
    <3>1. [cd[c] EXCEPT !.reported = operands[o]] \in Result
      BY <1>1 DEF Result, Content
    <3>2. cd' = [cd EXCEPT ![c] = [cd[c] EXCEPT !.reported = operands[o]]]
      BY <2>1 DEF CopyNothing, TypeOK
    <3> QED BY <3>1, <3>2
  <2>2. CASE CopyEntries(d, o, c)
    <3>1. gd[d].host_indptr \in Products /\ Total[gd[d].host_indptr] \in Nat
      BY <1>1, <2>2, SpGEMMAssumption DEF CopyEntries, Descr, Content
    <3>2. uploads \in Result BY <1>1, <3>1 DEF Result, Content
    <3> HIDE DEF uploads
    <3>3. fills \in Result /\ [uploads EXCEPT !.offsets = NULL] \in Result
      BY <3>1, <3>2 DEF Result, Content
    <3> HIDE DEF fills
    <3>4. sorts \in Result BY <1>1, <3>3 DEF Result, Content
    <3> HIDE DEF sorts
    <3>5. \E r \in {[uploads EXCEPT !.offsets = NULL], uploads, fills, sorts} :
            cd' = [cd EXCEPT ![c] = r]
      BY <2>2 DEF CopyEntries, uploads, fills, sorts
    <3> QED BY <3>2, <3>3, <3>4, <3>5
  <2> QED BY <2>1, <2>2 DEF Copy
<1>3. UNCHANGED <<operands, mem, gd, flow>> BY DEF Copy
<1> QED BY <1>2, <1>3 DEF TypeOK

LEMMA OnResultTyped ==
  ASSUME TypeOK, NEW c \in Results, OnResult(c)
  PROVE  TypeOK'
<1>1. CASE \E rowless \in BOOLEAN : CreateResult(c, rowless)
  <2>1. PICK rowless \in BOOLEAN : CreateResult(c, rowless) BY <1>1
  <2>2. Empty(rowless) \in Result BY EmptyOK
  <2> QED BY <2>1, <2>2 DEF CreateResult, TypeOK
<1>2. CASE DestroyResult(c)
  <2>1. Without(c) \in [Descrs -> [pair : Pairs \cup {NULL},
                                   result : Results \cup {NULL}]]
    BY DEF TypeOK, Without, Idle
  <2> QED BY <1>2, <2>1 DEF DestroyResult, TypeOK
<1>3. CASE Attach(c)
  <2> DEFINE r == [Empty(cd[c].rowless) EXCEPT
                     !.nnz = cd[c].nnz, !.room = cd[c].nnz, !.attached = TRUE]
  <2>1. r \in Result
    BY <1>3 DEF Attach, TypeOK, Empty, Result, Content
  <2>2. cd' = [cd EXCEPT ![c] = r] /\ UNCHANGED <<operands, mem, gd, flow>>
    BY <1>3 DEF Attach
  <2> HIDE DEF r
  <2> QED BY <2>1, <2>2 DEF TypeOK
<1>4. CASE Use(c)
  <2> DEFINE n == IF cd[c].nnz = 0 THEN 0 ELSE LongestRow[cd[c].offsets]
             r == [cd[c] EXCEPT !.max_row_nnz = n]
  <2>1. cd[c] \in Result BY <1>4 DEF Use, TypeOK
  <2>2. n \in Nat
    BY <1>4, <2>1, SpGEMMAssumption DEF Use, Result, Content
  <2> HIDE DEF n
  <2>3. r \in Result BY <2>1, <2>2 DEF Result
  <2>4. cd' = [cd EXCEPT ![c].max_row_nnz = n] /\ UNCHANGED <<operands, mem, gd, flow>>
    BY <1>4 DEF Use, n
  <2>5. cd' = [cd EXCEPT ![c] = r] BY <2>4 DEF TypeOK
  <2> HIDE DEF r
  <2> QED BY <2>3, <2>4, <2>5 DEF TypeOK
<1> QED BY <1>1, <1>2, <1>3, <1>4 DEF OnResult

LEMMA NextTyped == TypeOK /\ [Next]_vars => TypeOK'
<1> SUFFICES ASSUME TypeOK, [Next]_vars PROVE TypeOK' OBVIOUS
<1>1. CASE \E d \in Descrs : OnDescr(d)
  <2>1. PICK d \in Descrs : OnDescr(d) BY <1>1
  <2>2. CASE CreateDescr(d)
    <3>1. NewDescr \in Descr /\ Established(NewDescr)
      BY DEF NewDescr, Descr, Content, Established
    <3> QED BY <2>2, <3>1 DEF CreateDescr, TypeOK
  <2>3. CASE DestroyDescr(d) BY <2>3 DEF DestroyDescr, TypeOK, Idle
  <2> QED BY <2>1, <2>2, <2>3, EstimateTyped, ComputeTyped, CopyTyped DEF OnDescr
<1>2. CASE \E c \in Results : OnResult(c) BY <1>2, OnResultTyped
<1>3. CASE \E o \in Pairs, p \in Products : ChangeOperands(o, p)
  BY <1>3 DEF ChangeOperands, TypeOK
<1>4. CASE UNCHANGED vars BY <1>4 DEF vars, TypeOK
<1> QED BY <1>1, <1>2, <1>3, <1>4 DEF Next

----------------------------------------------------------------------------
(* The five calls keep every descriptor in its range, and one that may     *)
(* compute has an estimate and its buffer, in whatever order they are      *)
(* called (SpGEMMDescr).                                                   *)
THEOREM TypeCorrect == Spec => []TypeOK
<1>1. Init => TypeOK BY InitIInv DEF IInv
<1> QED BY <1>1, NextTyped, PTL DEF Spec

(* A copy that reports success has delivered the product of the operands   *)
(* it was given, whatever was interleaved or failed before it, and         *)
(* whenever arrays were attached to C (flagsparseSpGEMM_copy).             *)
THEOREM CopiesDeliver == Discipline /\ Spec => []CopyDelivers
<1>1. IInv => CopyDelivers BY DEF IInv, ResultsOK, ResultOK, CopyDelivers
<1> QED BY <1>1, AlwaysIInv, PTL

(* Callers that attach arrays between compute and copy: for every number   *)
(* of descriptors, operands and results, a copy never writes past the      *)
(* arrays attached to C (flagsparseSpGEMM_copy).                           *)
THEOREM CopiesWithinRoom ==
  ASSUME AttachFirst
  PROVE  Discipline /\ Spec => []WithinRoom
<1>1. IInv => WithinRoom BY DEF IInv, ResultsOK, ResultOK, WithinRoom
<1> QED BY <1>1, AlwaysIInv, PTL

(* For the same callers the longest row remembered for C is the one of the *)
(* product C holds, so C may be multiplied with at any time                *)
(* (ensure_max_row_nnz).                                                   *)
THEOREM RowFactsFollow ==
  ASSUME AttachFirst
  PROVE  Discipline /\ Spec => []RowFactFollows
<1>1. IInv => RowFactFollows
  <2> SUFFICES ASSUME IInv, NEW c \in Results, cd[c] # NULL,
                      cd[c].reported # NULL, cd[c].max_row_nnz >= 0
               PROVE  cd[c].max_row_nnz = LongestRow[cd[c].reported]
    BY DEF RowFactFollows
  <2>1. cd[c].max_row_nnz # -1 OBVIOUS
  <2> QED BY <2>1 DEF IInv, ResultsOK, ResultOK
<1> QED BY <1>1, AlwaysIInv, PTL
=============================================================================
