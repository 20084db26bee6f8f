--------------------------- MODULE ChainWaveProofs ---------------------------
(***************************************************************************)
(* What a chain-wave launch promises for any number of rows, any accepted  *)
(* systems, any grid and any number of resident programs.                  *)
(***************************************************************************)
EXTENDS ChainWave, TLAPS

(* A unit the counter has passed is finished or held, its rows read only   *)
(* published ones, and a program exits only when no unit is left.          *)
Held(r) == \E v \in Grid : Solving(v, r)

UnitsHeld ==
  /\ \A w \in Programs : pc[w] = "solving" => w \in Grid /\ unit[w] < counter
  /\ \A r \in Rows : UnitOf(A, r) < counter => ready[r] \/ Held(r)
  /\ \A w \in Programs : pc[w] = "exited" => counter >= Units(A)

RowsRead ==
  \A r \in Rows :
    /\ got[r] \subseteq Consumed(A, r)
    /\ \A c \in got[r] : ready[c]
    /\ value[r] => got[r] = Consumed(A, r)
    /\ ready[r] => value[r]

IInv == TypeOK /\ HeldByOne /\ UnitsHeld /\ RowsRead

----------------------------------------------------------------------------
(* Facts about accepted systems *)

LEMMA QuotientBounds ==
  ASSUME NEW a \in Nat, NEW b \in Nat \ {0}
  PROVE  /\ a \div b \in Nat
         /\ b * (a \div b) <= a
         /\ a < b * (a \div b) + b
<1>1. /\ a \div b \in Int /\ a % b \in 0..(b - 1)
      /\ a = b * (a \div b) + (a % b)
  OBVIOUS
<1> QED BY <1>1

LEMMA QuotientMonotone ==
  ASSUME NEW a \in Nat, NEW c \in Nat, NEW b \in Nat \ {0}, a <= c
  PROVE  a \div b <= c \div b
<1> DEFINE q == a \div b
           s == c \div b
<1>1. q \in Nat /\ s \in Nat /\ b * q <= a /\ c < b * s + b
  BY QuotientBounds
<1> HIDE DEF q, s
<1>2. SUFFICES ASSUME q >= s + 1 PROVE FALSE
  BY <1>1 DEF q, s
<1>3. b * q >= b * (s + 1) BY <1>1, <1>2
<1>4. b * (s + 1) = b * s + b BY <1>1
<1> QED BY <1>1, <1>3, <1>4

LEMMA LogicalIndexBounds ==
  ASSUME NEW B \in Accepted, NEW r \in Rows
  PROVE  /\ LogicalIndex(B, r) \in 0 .. N - 1
         /\ B.width \in Nat \ {0}
         /\ N \in Nat \ {0}
BY SystemsAssumption DEF Accepted, System, Rows, LogicalIndex

(* Every row belongs to one of the units the counter hands out.            *)
LEMMA UnitBounds ==
  ASSUME NEW B \in Accepted, NEW r \in Rows
  PROVE  /\ UnitOf(B, r) \in Nat
         /\ Units(B) \in Nat
         /\ UnitOf(B, r) < Units(B)
<1> DEFINE l == LogicalIndex(B, r)
           w == B.width
           q == l \div w
           u == (N + w - 1) \div w
<1>1. l \in 0 .. N - 1 /\ w \in Nat \ {0} /\ N \in Nat \ {0}
  BY LogicalIndexBounds
<1>2. q \in Nat /\ w * q <= l BY <1>1, QuotientBounds
<1>3. N + w - 1 \in Nat BY <1>1
<1>4. u \in Nat /\ N + w - 1 < w * u + w BY <1>1, <1>3, QuotientBounds
<1>5. UnitOf(B, r) = q /\ Units(B) = u BY DEF UnitOf, Units
<1> HIDE DEF l, w, q, u
<1>6. SUFFICES ASSUME q >= u PROVE FALSE BY <1>2, <1>4, <1>5
<1>7. w * q >= w * u BY <1>1, <1>2, <1>4, <1>6
<1> QED BY <1>1, <1>2, <1>4, <1>7

(* A row's dependencies are rows of the same unit or of an earlier one.    *)
LEMMA DependsBackwards ==
  ASSUME NEW B \in Accepted, NEW r \in Rows, NEW c \in Triangle(B, r)
  PROVE  /\ c \in Rows
         /\ UnitOf(B, c) <= UnitOf(B, r)
<1>1. c \in Rows
  <2>1. B.columns[r] \in Seq(Rows)
    BY SystemsAssumption DEF Accepted, System
  <2> QED BY <2>1 DEF Triangle, Columns
<1>2. LogicalIndex(B, c) <= LogicalIndex(B, r)
  BY <1>1, SystemsAssumption DEF Triangle, LogicalIndex, Rows
<1>3. /\ LogicalIndex(B, c) \in 0 .. N - 1 /\ LogicalIndex(B, r) \in 0 .. N - 1
      /\ B.width \in Nat \ {0}
  BY <1>1, LogicalIndexBounds
<1> QED BY <1>1, <1>2, <1>3, QuotientMonotone DEF UnitOf

(* The scan of an accepted row stops at the diagonal with nothing missed.  *)
LEMMA ScanIsWhole ==
  ASSUME NEW B \in Accepted, NEW r \in Rows
  PROVE  Consumed(B, r) = Triangle(B, r)
<1> DEFINE cols == B.columns[r]
<1>1. cols \in Seq(Rows) /\ B.lower \in BOOLEAN /\ B.sell \in BOOLEAN
  BY SystemsAssumption DEF Accepted, System
<1>2. Len(cols) \in Nat /\ \A i \in 1..Len(cols) : cols[i] \in Int
  BY <1>1, SystemsAssumption DEF Rows
<1>3. r \in Int BY SystemsAssumption DEF Rows
<1>4. CASE B.sell
  BY <1>4 DEF Accepted, Accepts, Consumed, Triangle
<1>5. CASE ~B.sell
  <2>1. \A i, j \in 1..Len(cols) : i < j => cols[i] < cols[j]
    BY <1>5 DEF Accepted, Accepts, ColumnsSorted
  <2> HIDE DEF cols
  <2>2. CASE B.lower
    <3>1. \A k \in 1..Len(cols) :
            (\A j \in 1..k : cols[j] < r) <=> cols[k] < r
      BY <1>2, <1>3, <2>1
    <3>2. Consumed(B, r) = {cols[k] : k \in {i \in 1..Len(cols) : cols[i] < r}}
      BY <1>5, <2>2, <3>1 DEF Consumed, cols
    <3> QED BY <2>2, <3>2 DEF Triangle, Columns, cols
  <2>3. CASE ~B.lower
    <3>1. \A k \in 1..Len(cols) :
            (\A j \in k..Len(cols) : cols[j] > r) <=> cols[k] > r
      BY <1>2, <1>3, <2>1
    <3>2. Consumed(B, r) = {cols[k] : k \in {i \in 1..Len(cols) : cols[i] > r}}
      BY <1>5, <2>3, <3>1 DEF Consumed, cols
    <3> QED BY <2>3, <3>2 DEF Triangle, Columns, cols
  <2> QED BY <2>2, <2>3
<1> QED BY <1>4, <1>5

LEMMA GridBounds ==
  ASSUME A \in Accepted
  PROVE  Grid \subseteq Programs /\ 1 \in Grid
<1>1. Units(A) \in Nat
  <2>1. 0 \in Rows BY SystemsAssumption DEF Rows
  <2> QED BY <2>1, UnitBounds
<1>2. WorkerCount(Units(A)) \in 1..MaxWorkers
  BY <1>1, ChainWaveAssumption DEF WorkerCount, Lesser
<1> QED BY <1>2, ChainWaveAssumption DEF Grid, Programs

----------------------------------------------------------------------------
LEMMA InitIInv == Init => IInv
<1> SUFFICES ASSUME Init PROVE IInv OBVIOUS
<1>1. TypeOK BY DEF Init, TypeOK
<1>2. HeldByOne BY DEF Init, HeldByOne
<1>3. UnitsHeld
  <2>1. \A r \in Rows : UnitOf(A, r) \in Nat BY UnitBounds DEF Init
  <2> QED BY <2>1 DEF Init, UnitsHeld
<1>4. RowsRead BY DEF Init, RowsRead
<1> QED BY <1>1, <1>2, <1>3, <1>4 DEF IInv

LEMMA StartKeeps ==
  ASSUME IInv, NEW w \in Grid, Start(w)
  PROVE  IInv'
<1>1. w \in Programs BY GridBounds DEF IInv, TypeOK
<1>2. /\ pc[w] = "waiting" /\ pc' = [pc EXCEPT ![w] = "claiming"]
      /\ UNCHANGED <<A, counter, ready, value, got, unit>>
  BY DEF Start
<1>3. TypeOK' BY <1>1, <1>2 DEF IInv, TypeOK
<1>4. \A v \in Programs : /\ pc'[v] = "solving" <=> pc[v] = "solving"
                          /\ pc'[v] = "exited" <=> pc[v] = "exited"
  BY <1>1, <1>2 DEF IInv, TypeOK
<1>5. HeldByOne' BY <1>2, <1>4 DEF IInv, HeldByOne
<1>6. UnitsHeld'
  <2>1. Grid' = Grid /\ Grid \subseteq Programs
    BY <1>2, GridBounds DEF Grid, IInv, TypeOK
  <2>2. \A r \in Rows : Held(r) => Held(r)'
    BY <1>2, <1>4, <2>1 DEF Held, Solving
  <2> QED BY <1>2, <1>4, <2>1, <2>2 DEF IInv, UnitsHeld
<1>7. RowsRead' BY <1>2 DEF IInv, RowsRead
<1> QED BY <1>3, <1>5, <1>6, <1>7 DEF IInv

LEMMA ClaimKeeps ==
  ASSUME IInv, NEW w \in Grid, Claim(w)
  PROVE  IInv'
<1>1. w \in Programs /\ Grid \subseteq Programs
  BY GridBounds DEF IInv, TypeOK
<1>2. /\ pc[w] = "claiming" /\ counter' = counter + 1
      /\ UNCHANGED <<A, ready, value, got>>
  BY DEF Claim, AtomicAdd, Fetched
<1>3. Grid' = Grid BY <1>2 DEF Grid
<1>4. counter \in Nat /\ A \in Accepted BY DEF IInv, TypeOK
<1>5. RowsRead' BY <1>2 DEF IInv, RowsRead
<1>6. CASE counter < Units(A)
  <2>1. /\ pc' = [pc EXCEPT ![w] = "solving"]
        /\ unit' = [unit EXCEPT ![w] = counter]
    BY <1>6 DEF Claim, AtomicAdd, Fetched
  <2>2. TypeOK' BY <1>1, <1>2, <2>1 DEF IInv, TypeOK
  <2>3. /\ pc'[w] = "solving" /\ unit'[w] = counter
        /\ \A v \in Programs : v # w => pc'[v] = pc[v] /\ unit'[v] = unit[v]
    BY <1>1, <2>1 DEF IInv, TypeOK
  <2>4. \A v \in Programs : pc[v] = "solving" => unit[v] \in Nat /\ unit[v] < counter
    BY DEF IInv, UnitsHeld, TypeOK
  <2>5. HeldByOne'
    <3> SUFFICES ASSUME NEW u \in Programs, NEW v \in Programs,
                        pc'[u] = "solving", pc'[v] = "solving",
                        unit'[u] = unit'[v]
                 PROVE  u = v
      BY DEF HeldByOne
    <3>1. CASE u = w \/ v = w BY <1>4, <2>3, <2>4, <3>1
    <3>2. CASE u # w /\ v # w BY <2>3, <3>2 DEF IInv, HeldByOne
    <3> QED BY <3>1, <3>2
  <2>6. UnitsHeld'
    <3>1. \A v \in Programs : pc'[v] = "solving" =>
            v \in Grid' /\ unit'[v] < counter'
      <4> SUFFICES ASSUME NEW v \in Programs, pc'[v] = "solving"
                   PROVE  v \in Grid /\ unit'[v] < counter + 1
        BY <1>2, <1>3
      <4>1. CASE v = w BY <1>4, <2>3, <4>1
      <4>2. CASE v # w BY <1>4, <2>3, <2>4, <4>2 DEF IInv, UnitsHeld
      <4> QED BY <4>1, <4>2
    <3>2. ASSUME NEW r \in Rows, UnitOf(A, r)' < counter'
          PROVE  ready'[r] \/ Held(r)'
      <4>1. UnitOf(A, r) \in Nat /\ UnitOf(A, r)' = UnitOf(A, r)
        BY <1>2, <1>4, UnitBounds DEF UnitOf, LogicalIndex
      <4>2. CASE UnitOf(A, r) = counter
        BY <1>2, <1>3, <2>3, <4>1, <4>2 DEF Held, Solving
      <4>3. CASE UnitOf(A, r) < counter
        <5>1. ready[r] \/ Held(r) BY <4>3 DEF IInv, UnitsHeld
        <5>2. CASE ready[r] BY <1>2, <5>2
        <5>3. CASE Held(r)
          <6>1. PICK v \in Grid : Solving(v, r) BY <5>3 DEF Held
          <6>2. v # w BY <1>2, <6>1 DEF Solving
          <6> QED BY <1>1, <1>3, <2>3, <4>1, <6>1, <6>2 DEF Held, Solving
        <5> QED BY <5>1, <5>2, <5>3
      <4> QED BY <1>2, <1>4, <3>2, <4>1, <4>2, <4>3
    <3>3. ASSUME NEW v \in Programs, pc'[v] = "exited"
          PROVE  counter' >= Units(A)'
      <4>1. pc[v] = "exited" BY <2>3, <3>3
      <4>2. counter >= Units(A) BY <4>1 DEF IInv, UnitsHeld
      <4>3. 0 \in Rows BY SystemsAssumption DEF Rows
      <4>4. Units(A) \in Nat BY <1>4, <4>3, UnitBounds
      <4> QED BY <1>4, <1>6, <4>2, <4>4
    <3> QED BY <3>1, <3>2, <3>3 DEF UnitsHeld
  <2> QED BY <1>5, <2>2, <2>5, <2>6 DEF IInv
<1>7. CASE ~(counter < Units(A))
  <2>1. pc' = [pc EXCEPT ![w] = "exited"] /\ UNCHANGED unit
    BY <1>7 DEF Claim, AtomicAdd, Fetched
  <2>2. TypeOK' BY <1>1, <1>2, <2>1 DEF IInv, TypeOK
  <2>3. /\ pc'[w] = "exited"
        /\ \A v \in Programs : v # w => pc'[v] = pc[v]
    BY <1>1, <2>1 DEF IInv, TypeOK
  <2>4. HeldByOne' BY <2>1, <2>3 DEF IInv, HeldByOne
  <2>5. UnitsHeld'
    <3>1. 0 \in Rows BY SystemsAssumption DEF Rows
    <3>2. Units(A) \in Nat /\ Units(A)' = Units(A)
      BY <1>2, <1>4, <3>1, UnitBounds
    <3>3. \A v \in Programs : pc'[v] = "solving" =>
            v \in Grid' /\ unit'[v] < counter'
      BY <1>2, <1>3, <1>4, <2>1, <2>3 DEF IInv, UnitsHeld, TypeOK
    <3>4. ASSUME NEW r \in Rows, UnitOf(A, r)' < counter'
          PROVE  ready'[r] \/ Held(r)'
      <4>1. /\ UnitOf(A, r) \in Nat /\ UnitOf(A, r)' = UnitOf(A, r)
            /\ UnitOf(A, r) < Units(A)
        BY <1>2, <1>4, UnitBounds DEF UnitOf, LogicalIndex
      <4>2. UnitOf(A, r) < counter BY <1>4, <1>7, <3>2, <4>1
      <4>3. ready[r] \/ Held(r) BY <4>2 DEF IInv, UnitsHeld
      <4>4. Held(r) => Held(r)'
        BY <1>1, <1>2, <1>3, <2>1, <2>3, <4>1 DEF Held, Solving
      <4> QED BY <1>2, <4>3, <4>4
    <3>5. counter' >= Units(A)' BY <1>2, <1>4, <1>7, <3>2
    <3> QED BY <3>3, <3>4, <3>5 DEF UnitsHeld
  <2> QED BY <1>5, <2>2, <2>4, <2>5 DEF IInv
<1> QED BY <1>6, <1>7

(* The steps of a program inside its unit leave who holds what as it was.  *)
LEMMA InsideUnit ==
  ASSUME IInv, UNCHANGED <<A, counter, pc, unit>>,
         \A r \in Rows : ready[r] => ready'[r]
  PROVE  HeldByOne' /\ UnitsHeld'
<1>1. HeldByOne' BY DEF IInv, HeldByOne
<1>2. Grid' = Grid BY DEF Grid
<1>3. \A r \in Rows : (Held(r)' <=> Held(r)) /\ UnitOf(A, r)' = UnitOf(A, r)
  BY <1>2 DEF Held, Solving, UnitOf, LogicalIndex
<1>4. Units(A)' = Units(A) OBVIOUS
<1>5. UnitsHeld' BY <1>2, <1>3, <1>4 DEF IInv, UnitsHeld
<1> QED BY <1>1, <1>5

LEMMA ReadKeeps ==
  ASSUME IInv, NEW w \in Grid, NEW r \in Rows, NEW c \in Rows, Read(w, r, c)
  PROVE  IInv' /\ ~ready[r]
<1>1. /\ c \in Consumed(A, r) \ got[r] /\ ready[c]
      /\ got' = [got EXCEPT ![r] = @ \cup {c}]
      /\ UNCHANGED <<A, counter, ready, value, pc, unit>>
  BY DEF Read
<1>2. TypeOK' BY <1>1 DEF IInv, TypeOK
<1>3. ~value[r] /\ ~ready[r] BY <1>1 DEF IInv, RowsRead
<1>4. RowsRead'
  <2>1. got \in [Rows -> SUBSET Rows] BY DEF IInv, TypeOK
  <2>2. \A s \in Rows : Consumed(A, s)' = Consumed(A, s) BY <1>1
  <2> QED BY <1>1, <1>3, <2>1, <2>2 DEF IInv, RowsRead
<1> QED BY <1>1, <1>2, <1>3, <1>4, InsideUnit DEF IInv

LEMMA StoreKeeps ==
  ASSUME IInv, NEW w \in Grid, NEW r \in Rows, Store(w, r)
  PROVE  IInv'
<1>1. /\ ~value[r] /\ got[r] = Consumed(A, r)
      /\ value' = [value EXCEPT ![r] = TRUE]
      /\ UNCHANGED <<A, counter, ready, got, pc, unit>>
  BY DEF Store
<1>2. TypeOK' BY <1>1 DEF IInv, TypeOK
<1>3. RowsRead'
  <2>1. value \in [Rows -> BOOLEAN] BY DEF IInv, TypeOK
  <2>2. \A s \in Rows : Consumed(A, s)' = Consumed(A, s) BY <1>1
  <2> QED BY <1>1, <2>1, <2>2 DEF IInv, RowsRead
<1> QED BY <1>1, <1>2, <1>3, InsideUnit DEF IInv

LEMMA PublishKeeps ==
  ASSUME IInv, NEW w \in Grid, NEW r \in Rows, Publish(w, r)
  PROVE  IInv'
<1>1. /\ value[r] /\ ready' = [ready EXCEPT ![r] = TRUE]
      /\ UNCHANGED <<A, counter, value, got, pc, unit>>
  BY DEF Publish
<1>2. TypeOK' BY <1>1 DEF IInv, TypeOK
<1>3. \A s \in Rows : ready'[s] <=> ready[s] \/ s = r
  BY <1>1 DEF IInv, TypeOK
<1>4. RowsRead'
  <2>1. got \in [Rows -> SUBSET Rows] BY DEF IInv, TypeOK
  <2>2. \A s \in Rows : Consumed(A, s)' = Consumed(A, s) BY <1>1
  <2> QED BY <1>1, <1>3, <2>1, <2>2 DEF IInv, RowsRead
<1> QED BY <1>1, <1>2, <1>3, <1>4, InsideUnit DEF IInv

LEMMA FinishKeeps ==
  ASSUME IInv, NEW w \in Grid, Finish(w)
  PROVE  IInv'
<1>1. w \in Programs BY GridBounds DEF IInv, TypeOK
<1>2. /\ pc[w] = "solving" /\ pc' = [pc EXCEPT ![w] = "claiming"]
      /\ \A r \in Rows : UnitOf(A, r) = unit[w] => ready[r]
      /\ UNCHANGED <<A, counter, ready, value, got, unit>>
  BY DEF Finish
<1>3. TypeOK' BY <1>1, <1>2 DEF IInv, TypeOK
<1>4. /\ pc'[w] = "claiming"
      /\ \A v \in Programs : v # w => pc'[v] = pc[v]
  BY <1>1, <1>2 DEF IInv, TypeOK
<1>5. HeldByOne' BY <1>2, <1>4 DEF IInv, HeldByOne
<1>6. UnitsHeld'
  <2>1. Grid' = Grid /\ Grid \subseteq Programs
    BY <1>2, GridBounds DEF Grid, IInv, TypeOK
  <2>2. \A r \in Rows : UnitOf(A, r)' = UnitOf(A, r) BY <1>2
  <2>3. \A r \in Rows : Held(r) => ready[r] \/ Held(r)'
    <3> SUFFICES ASSUME NEW r \in Rows, NEW v \in Grid, Solving(v, r)
                 PROVE  ready[r] \/ Held(r)'
      BY DEF Held
    <3>1. CASE v = w BY <1>2, <3>1 DEF Solving
    <3>2. CASE v # w BY <1>2, <1>4, <2>1, <2>2, <3>2 DEF Held, Solving
    <3> QED BY <3>1, <3>2
  <2>4. \A r \in Rows : UnitOf(A, r)' < counter' => ready'[r] \/ Held(r)'
    BY <1>2, <2>2, <2>3 DEF IInv, UnitsHeld
  <2>5. Units(A)' = Units(A) BY <1>2
  <2> QED BY <1>2, <1>4, <2>1, <2>4, <2>5 DEF IInv, UnitsHeld
<1>7. RowsRead'
  <2>1. \A s \in Rows : Consumed(A, s)' = Consumed(A, s) BY <1>2
  <2> QED BY <1>2, <2>1 DEF IInv, RowsRead
<1> QED BY <1>3, <1>5, <1>6, <1>7 DEF IInv

LEMMA StutterKeeps ==
  ASSUME IInv, UNCHANGED vars
  PROVE  IInv'
<1>1. UNCHANGED <<A, counter, ready, value, got, pc, unit>> BY DEF vars
<1>2. TypeOK' BY <1>1 DEF IInv, TypeOK
<1>3. RowsRead'
  <2>1. \A s \in Rows : Consumed(A, s)' = Consumed(A, s) BY <1>1
  <2> QED BY <1>1, <2>1 DEF IInv, RowsRead
<1> QED BY <1>1, <1>2, <1>3, InsideUnit DEF IInv

LEMMA NextIInv ==
  ASSUME IInv, [Next]_vars
  PROVE  IInv'
<1>1. CASE \E w \in Grid : Start(w) BY <1>1, StartKeeps
<1>2. CASE \E w \in Grid : Step(w)
  <2>1. PICK w \in Grid : Step(w) BY <1>2
  <2>2. CASE Claim(w) BY <2>2, ClaimKeeps
  <2>3. CASE \E r, c \in Rows : Read(w, r, c) BY <2>3, ReadKeeps
  <2>4. CASE \E r \in Rows : Store(w, r) BY <2>4, StoreKeeps
  <2>5. CASE \E r \in Rows : Publish(w, r) BY <2>5, PublishKeeps
  <2>6. CASE Finish(w) BY <2>6, FinishKeeps
  <2> QED BY <2>1, <2>2, <2>3, <2>4, <2>5, <2>6 DEF Step
<1>3. CASE UNCHANGED vars BY <1>3, StutterKeeps
<1> QED BY <1>1, <1>2, <1>3 DEF Next, Ended

----------------------------------------------------------------------------
(* The inductive invariant: the counter separates the units nobody has     *)
(* from those that are held or finished (src/ops/spsv.cpp 16-31).          *)
THEOREM ChainWaveInvariant == Safety => []IInv
<1>1. IInv /\ [Next]_vars => IInv' BY NextIInv
<1> QED BY InitIInv, <1>1, PTL DEF Safety

(* The flags, the counter and the programs stay what the kernels expect.   *)
THEOREM TypeCorrect == Safety => []TypeOK
<1>1. IInv => TypeOK BY DEF IInv
<1> QED BY <1>1, ChainWaveInvariant, PTL

(* No unit is handed out twice.                                            *)
THEOREM UnitsHandedOutOnce == Safety => []HeldByOne
<1>1. IInv => HeldByOne BY DEF IInv
<1> QED BY <1>1, ChainWaveInvariant, PTL

(* The argument of src/ops/spsv.cpp against deadlock: a program spins only *)
(* on published rows and on rows a resident program holds.                 *)
THEOREM NoWaitOnUnclaimed == Safety => []WaitsOnlyOnResident
<1>1. IInv => WaitsOnlyOnResident
  <2> SUFFICES ASSUME IInv, NEW w \in Grid, NEW r \in Rows, Solving(w, r),
                      NEW c \in Triangle(A, r)
               PROVE  ready[c] \/ \E v \in Grid : Solving(v, c)
    BY DEF WaitsOnlyOnResident
  <2>1. A \in Accepted /\ counter \in Nat BY DEF IInv, TypeOK
  <2>2. c \in Rows /\ UnitOf(A, c) <= UnitOf(A, r)
    BY <2>1, DependsBackwards
  <2>3. UnitOf(A, r) < counter
    BY <2>1, GridBounds DEF Solving, IInv, UnitsHeld
  <2>4. UnitOf(A, c) \in Nat /\ UnitOf(A, r) \in Nat
    BY <2>1, <2>2, UnitBounds
  <2>5. UnitOf(A, c) < counter BY <2>1, <2>2, <2>3, <2>4
  <2> QED BY <2>2, <2>5 DEF IInv, UnitsHeld, Held
<1> QED BY <1>1, ChainWaveInvariant, PTL

(* A published row was computed from its whole triangle.                   *)
THEOREM WholeTriangleUsed == Safety => []NoTermDropped
<1>1. IInv => NoTermDropped
  <2> SUFFICES ASSUME IInv, NEW r \in Rows, ready[r]
               PROVE  /\ value[r] /\ got[r] = Triangle(A, r)
                      /\ \A c \in got[r] : ready[c]
    BY DEF NoTermDropped
  <2>1. value[r] /\ got[r] = Consumed(A, r) /\ \A c \in got[r] : ready[c]
    BY DEF IInv, RowsRead
  <2> QED BY <2>1, ScanIsWhole DEF IInv, TypeOK
<1> QED BY <1>1, ChainWaveInvariant, PTL

(* When the grid has exited, every row is solved.                          *)
THEOREM SolvedAtExit == Safety => []CompleteAtExit
<1>1. IInv => CompleteAtExit
  <2> SUFFICES ASSUME IInv, Over, NEW r \in Rows PROVE ready[r]
    BY DEF CompleteAtExit
  <2>1. A \in Accepted /\ counter \in Nat BY DEF IInv, TypeOK
  <2>2. 1 \in Grid /\ Grid \subseteq Programs BY <2>1, GridBounds
  <2>3. counter >= Units(A) BY <2>2 DEF Over, IInv, UnitsHeld
  <2>4. /\ UnitOf(A, r) \in Nat /\ Units(A) \in Nat
        /\ UnitOf(A, r) < Units(A)
    BY <2>1, UnitBounds
  <2>5. UnitOf(A, r) < counter BY <2>1, <2>3, <2>4
  <2>6. ~Held(r) BY DEF Over, Held, Solving
  <2> QED BY <2>5, <2>6 DEF IInv, UnitsHeld
<1> QED BY <1>1, ChainWaveInvariant, PTL

(* A launch takes the steps of a triangular solve and no others: it        *)
(* publishes rows one at a time, each after all the rows it needs.         *)
THEOREM ImplementsSolve == Safety => Abs!Safety
<1>1. Init => Abs!Init BY DEF Init, Abs!Init, Rows, Abs!Rows
<1>2. IInv /\ IInv' /\ [Next]_vars => [Abs!Next]_(Abs!absVars)
  <2> SUFFICES ASSUME IInv, [Next]_vars
               PROVE  Abs!Next \/ UNCHANGED Abs!absVars
    OBVIOUS
  <2>1. CASE \E w \in Grid, r \in Rows : Publish(w, r)
    <3>1. PICK w \in Grid, r \in Rows : Publish(w, r) BY <2>1
    <3>2. /\ value[r] /\ ~ready[r] /\ ready' = [ready EXCEPT ![r] = TRUE]
          /\ UNCHANGED <<A, got>>
      BY <3>1 DEF Publish
    <3>3. \A s \in Rows : ready'[s] <=> ready[s] \/ s = r
      BY <3>2 DEF IInv, TypeOK
    <3>4. got[r] = Triangle(A, r) /\ \A c \in got[r] : ready[c]
      BY <3>2, ScanIsWhole DEF IInv, TypeOK, RowsRead
    <3>5. got[r] \subseteq Rows BY DEF IInv, TypeOK
    <3>6. Abs!Triangle(A, r) = Triangle(A, r)
      BY DEF Triangle, Abs!Triangle, Columns, Abs!Columns
    <3>7. Abs!Solve(r) BY <3>2, <3>3, <3>4, <3>5, <3>6 DEF Abs!Solve
    <3> QED BY <3>7 DEF Abs!Next, Rows, Abs!Rows
  <2>2. CASE \E w \in Grid, r, c \in Rows : Read(w, r, c)
    <3>1. PICK w \in Grid, r \in Rows, c \in Rows : Read(w, r, c) BY <2>2
    <3>2. ~ready[r] BY <3>1, ReadKeeps
    <3>3. UNCHANGED <<A, ready>> /\ got' = [got EXCEPT ![r] = @ \cup {c}]
      BY <3>1 DEF Read
    <3>4. \A s \in Rows : ready[s] => got'[s] = got[s]
      BY <3>2, <3>3 DEF IInv, TypeOK
    <3> QED BY <3>3, <3>4 DEF Abs!absVars
  <2>3. CASE UNCHANGED <<A, ready, got>>
    BY <2>3 DEF Abs!absVars
  <2> QED BY <2>1, <2>2, <2>3
          DEF Next, Ended, Step, Start, Claim, AtomicAdd, Store, Finish, vars
<1> QED BY <1>1, <1>2, ChainWaveInvariant, PTL DEF Safety, Abs!Safety
=============================================================================
