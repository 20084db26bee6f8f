------------------------- MODULE PollingSolveProofs -------------------------
(***************************************************************************)
(* What a launch of the polling kernel promises for any number of rows and *)
(* tiles, any systems, and any device that starts blocks less far ahead of *)
(* their turn than it has places.                                          *)
(***************************************************************************)
EXTENDS PollingSolve, FiniteSetTheorems, WellFoundedInduction, TLAPS

(* What a row has read is published in its tile, and a block that exited   *)
(* has published its row.                                                  *)
RowsRead ==
  \A t \in TileIds, r \in Rows :
    /\ got[t][r] \subseteq Kept(A, r)
    /\ \A c \in got[t][r] : done[t][c]
    /\ value[t][r] => got[t][r] = Kept(A, r)
    /\ done[t][r] => value[t][r]

ExitedDone ==
  \A b \in Blocks : pc[b] = "exited" => done[Tile(b)][RowOf(A, b)]

(* A block that has started left at most Ahead blocks behind.              *)
InOrder ==
  \A b, e \in Blocks : pc[b] # "waiting" /\ e + Ahead < b => pc[e] # "waiting"

IInv == TypeOK /\ RowsRead /\ ExitedDone /\ InOrder

----------------------------------------------------------------------------
(* Facts about the grid *)

LEMMA Quotients ==
  ASSUME NEW t \in Nat, NEW l \in Nat, NEW n \in Nat \ {0}, l < n
  PROVE  (t * n + l) \div n = t /\ (t * n + l) % n = l
<1> DEFINE a == t * n + l
           q == a \div n
           m == a % n
<1>1. a \in Nat BY Z3
<1> HIDE DEF a
<1>2. q \in Int /\ m \in 0..(n - 1) /\ a = n * q + m BY <1>1
<1> HIDE DEF q, m
<1>3. n * (q - t) = l - m BY <1>2 DEF a
<1>4. CASE q - t >= 1
  <2>1. n * (q - t) >= n BY <1>2, <1>4
  <2> QED BY <1>2, <1>3, <2>1
<1>5. CASE q - t <= -1
  <2>1. n * (q - t) <= -n BY <1>2, <1>5
  <2> QED BY <1>2, <1>3, <2>1
<1>6. CASE q = t BY <1>2, <1>6 DEF a, q, m
<1> QED BY <1>2, <1>4, <1>5, <1>6

LEMMA LogicalIndexTwice ==
  ASSUME NEW B \in Solvable, NEW r \in Rows
  PROVE  /\ LogicalIndex(B, r) \in Rows
         /\ LogicalIndex(B, LogicalIndex(B, r)) = r
BY SystemsAssumption DEF Solvable, System, Rows, LogicalIndex

LEMMA BlockPlace ==
  ASSUME NEW B \in Solvable, NEW b \in Blocks
  PROVE  /\ Tile(b) \in TileIds
         /\ RowOf(B, b) \in Rows
         /\ LogicalIndex(B, RowOf(B, b)) = b % N
         /\ b = Tile(b) * N + LogicalIndex(B, RowOf(B, b))
<1> DEFINE q == b \div N
           l == b % N
<1>1. N \in Nat \ {0} /\ Tiles \in Nat \ {0}
  BY SystemsAssumption, PollingAssumption
<1>2. b \in Nat /\ b <= N * Tiles - 1 BY <1>1 DEF Blocks
<1>3. q \in Int /\ l \in 0..(N - 1) /\ b = N * q + l BY <1>1, <1>2
<1>4. q >= 0
  <2> HIDE DEF q, l
  <2>1. CASE q <= -1
    <3>1. N * q <= -N BY <1>1, <1>3, <2>1
    <3> QED BY <1>1, <1>2, <1>3, <3>1
  <2> QED BY <1>3, <2>1
<1>5. q <= Tiles - 1
  <2> HIDE DEF q, l
  <2>1. CASE q >= Tiles
    <3>1. N * q >= N * Tiles BY <1>1, <1>3, <2>1
    <3> QED BY <1>1, <1>2, <1>3, <3>1
  <2> QED BY <1>1, <1>3, <2>1
<1>6. l \in Rows BY <1>1, <1>3 DEF Rows
<1>7. RowOf(B, b) \in Rows /\ LogicalIndex(B, RowOf(B, b)) = l
  BY <1>6, LogicalIndexTwice DEF RowOf
<1>8. Tile(b) = q BY DEF Tile
<1> QED BY <1>1, <1>3, <1>4, <1>5, <1>7, <1>8 DEF TileIds

(* The block of a row in a tile.                                           *)
BlockOf(B, t, r) == t * N + LogicalIndex(B, r)

LEMMA BlockOfRow ==
  ASSUME NEW B \in Solvable, NEW t \in TileIds, NEW r \in Rows
  PROVE  /\ BlockOf(B, t, r) \in Blocks
         /\ Tile(BlockOf(B, t, r)) = t
         /\ RowOf(B, BlockOf(B, t, r)) = r
<1> DEFINE l == LogicalIndex(B, r)
<1>1. N \in Nat \ {0} /\ Tiles \in Nat \ {0} /\ t \in Nat /\ t <= Tiles - 1
  BY SystemsAssumption, PollingAssumption DEF TileIds
<1>2. l \in Rows /\ LogicalIndex(B, l) = r BY LogicalIndexTwice
<1>3. l \in Nat /\ l < N BY <1>1, <1>2 DEF Rows
<1> HIDE DEF l
<1>4. (t * N + l) \div N = t /\ (t * N + l) % N = l
  BY <1>1, <1>3, Quotients
<1>5. t * N <= (Tiles - 1) * N BY <1>1
<1>6. t * N + l \in Blocks BY <1>1, <1>3, <1>5 DEF Blocks
<1> QED BY <1>2, <1>4, <1>6 DEF BlockOf, Tile, RowOf, l

(* What a block waits for belongs to earlier blocks of its tile.           *)
LEMMA WaitsForEarlier ==
  ASSUME NEW B \in Solvable, NEW b \in Blocks,
         NEW c \in Triangle(B, RowOf(B, b))
  PROVE  /\ c \in Rows
         /\ BlockOf(B, Tile(b), c) < b
<1> DEFINE r == RowOf(B, b)
<1>1. r \in Rows /\ Tile(b) \in TileIds /\ b = Tile(b) * N + LogicalIndex(B, r)
  BY BlockPlace
<1>2. c \in Rows
  <2>1. B.columns[r] \in Seq(Rows)
    BY <1>1, SystemsAssumption DEF Solvable, System
  <2> QED BY <2>1 DEF Triangle, Columns
<1>3. LogicalIndex(B, c) < LogicalIndex(B, r)
  BY <1>1, <1>2, SystemsAssumption
  DEF Triangle, LogicalIndex, Rows, Solvable, System
<1>4. LogicalIndex(B, c) \in Rows /\ LogicalIndex(B, r) \in Rows
  BY <1>1, <1>2, LogicalIndexTwice
<1> HIDE DEF r
<1>5. Tile(b) \in Nat /\ N \in Nat \ {0}
  BY <1>1, SystemsAssumption, PollingAssumption DEF TileIds
<1>6. Tile(b) * N \in Nat BY <1>5
<1> QED BY <1>1, <1>2, <1>3, <1>4, <1>5, <1>6 DEF BlockOf, Rows

LEMMA KeptIsTriangle ==
  ASSUME NEW B \in Solvable, NEW r \in Rows
  PROVE  Kept(B, r) = Triangle(B, r) /\ Kept(B, r) \subseteq Rows
<1>1. B.columns[r] \in Seq(Rows) /\ B.lower \in BOOLEAN
  BY SystemsAssumption DEF Solvable, System
<1> QED BY <1>1 DEF Kept, Triangle, Columns

----------------------------------------------------------------------------
LEMMA InitIInv == Init => IInv
<1> SUFFICES ASSUME Init PROVE IInv OBVIOUS
<1>1. TypeOK BY DEF Init, TypeOK
<1>2. RowsRead BY DEF Init, RowsRead
<1>3. ExitedDone BY DEF Init, ExitedDone
<1>4. InOrder BY DEF Init, InOrder
<1> QED BY <1>1, <1>2, <1>3, <1>4 DEF IInv

LEMMA StartKeeps ==
  ASSUME IInv, NEW b \in Blocks, Start(b)
  PROVE  IInv'
<1>1. /\ pc[b] = "waiting" /\ pc' = [pc EXCEPT ![b] = "resident"]
      /\ \A e \in Blocks : e + Ahead < b => pc[e] # "waiting"
      /\ UNCHANGED <<A, done, value, got>>
  BY DEF Start, CanStart
<1>2. TypeOK' BY <1>1 DEF IInv, TypeOK
<1>3. /\ pc'[b] = "resident"
      /\ \A e \in Blocks : e # b => pc'[e] = pc[e]
  BY <1>1 DEF IInv, TypeOK
<1>4. RowsRead' BY <1>1 DEF IInv, RowsRead, Kept
<1>5. ExitedDone'
  <2>1. \A e \in Blocks : RowOf(A, e)' = RowOf(A, e)
    BY <1>1 DEF RowOf, LogicalIndex
  <2> QED BY <1>1, <1>3, <2>1 DEF IInv, ExitedDone
<1>6. InOrder' BY <1>1, <1>3 DEF IInv, InOrder
<1> QED BY <1>2, <1>4, <1>5, <1>6 DEF IInv

LEMMA ReadKeeps ==
  ASSUME IInv, NEW b \in Blocks, NEW t \in TileIds, NEW r \in Rows,
         NEW c \in Rows, Read(b, t, r, c)
  PROVE  IInv' /\ ~done[t][r]
<1>1. /\ c \in Kept(A, r) \ got[t][r] /\ done[t][c]
      /\ got' = [got EXCEPT ![t][r] = @ \cup {c}]
      /\ UNCHANGED <<A, done, value, pc>>
  BY DEF Read
<1>2. got \in [TileIds -> [Rows -> SUBSET Rows]] BY DEF IInv, TypeOK
<1>3. \A u \in TileIds, s \in Rows :
        got'[u][s] = IF u = t /\ s = r THEN got[t][r] \cup {c} ELSE got[u][s]
  BY <1>1, <1>2
<1>4. TypeOK' BY <1>1, <1>2 DEF IInv, TypeOK
<1>5. ~value[t][r] /\ ~done[t][r] BY <1>1 DEF IInv, RowsRead
<1>6. RowsRead'
  <2>1. \A s \in Rows : Kept(A, s)' = Kept(A, s) BY <1>1 DEF Kept, Columns
  <2> QED BY <1>1, <1>3, <1>5, <2>1 DEF IInv, RowsRead
<1>7. ExitedDone' /\ InOrder'
  <2>1. \A e \in Blocks : RowOf(A, e)' = RowOf(A, e)
    BY <1>1 DEF RowOf, LogicalIndex
  <2> QED BY <1>1, <2>1 DEF IInv, ExitedDone, InOrder
<1> QED BY <1>4, <1>5, <1>6, <1>7 DEF IInv

LEMMA StoreKeeps ==
  ASSUME IInv, NEW b \in Blocks, NEW t \in TileIds, NEW r \in Rows,
         Store(b, t, r)
  PROVE  IInv'
<1>1. /\ ~value[t][r] /\ got[t][r] = Kept(A, r)
      /\ value' = [value EXCEPT ![t][r] = TRUE]
      /\ UNCHANGED <<A, done, got, pc>>
  BY DEF Store
<1>2. value \in [TileIds -> [Rows -> BOOLEAN]] BY DEF IInv, TypeOK
<1>3. \A u \in TileIds, s \in Rows :
        value'[u][s] <=> (value[u][s] \/ (u = t /\ s = r))
  BY <1>1, <1>2
<1>4. TypeOK' BY <1>1, <1>2 DEF IInv, TypeOK
<1>5. RowsRead'
  <2>1. \A s \in Rows : Kept(A, s)' = Kept(A, s) BY <1>1 DEF Kept, Columns
  <2> QED BY <1>1, <1>3, <2>1 DEF IInv, RowsRead
<1>6. ExitedDone' /\ InOrder'
  <2>1. \A e \in Blocks : RowOf(A, e)' = RowOf(A, e)
    BY <1>1 DEF RowOf, LogicalIndex
  <2> QED BY <1>1, <2>1 DEF IInv, ExitedDone, InOrder
<1> QED BY <1>4, <1>5, <1>6 DEF IInv

LEMMA PublishKeeps ==
  ASSUME IInv, NEW b \in Blocks, pc[b] = "resident",
         Publish(b, Tile(b), RowOf(A, b))
  PROVE  IInv'
<1> DEFINE t == Tile(b)
           r == RowOf(A, b)
<1>1. /\ value[t][r]
      /\ done' = [done EXCEPT ![t][r] = TRUE]
      /\ pc' = [pc EXCEPT ![b] = "exited"]
      /\ UNCHANGED <<A, value, got>>
  BY DEF Publish
<1>2. t \in TileIds /\ r \in Rows BY BlockPlace DEF IInv, TypeOK
<1> HIDE DEF t, r
<1>3. done \in [TileIds -> [Rows -> BOOLEAN]] BY DEF IInv, TypeOK
<1>4. \A u \in TileIds, s \in Rows :
        done'[u][s] <=> (done[u][s] \/ (u = t /\ s = r))
  BY <1>1, <1>2, <1>3
<1>5. /\ pc'[b] = "exited"
      /\ \A e \in Blocks : e # b => pc'[e] = pc[e]
  BY <1>1 DEF IInv, TypeOK
<1>6. TypeOK' BY <1>1, <1>2, <1>3 DEF IInv, TypeOK
<1>7. RowsRead'
  <2>1. \A s \in Rows : Kept(A, s)' = Kept(A, s) BY <1>1 DEF Kept, Columns
  <2> QED BY <1>1, <1>4, <2>1 DEF IInv, RowsRead
<1>8. ExitedDone'
  <2> SUFFICES ASSUME NEW e \in Blocks, pc'[e] = "exited"
               PROVE  done'[Tile(e)][RowOf(A, e)]
    BY <1>1 DEF ExitedDone, RowOf, LogicalIndex
  <2>1. Tile(e) \in TileIds /\ RowOf(A, e) \in Rows
    BY BlockPlace DEF IInv, TypeOK
  <2>2. CASE e = b BY <1>2, <1>4, <2>2 DEF t, r
  <2>3. CASE e # b BY <1>4, <1>5, <2>1, <2>3 DEF IInv, ExitedDone
  <2> QED BY <2>2, <2>3
<1>9. InOrder' BY <1>5 DEF IInv, InOrder
<1> QED BY <1>6, <1>7, <1>8, <1>9 DEF IInv

LEMMA StutterKeeps ==
  ASSUME IInv, UNCHANGED vars
  PROVE  IInv'
<1>1. UNCHANGED <<A, done, value, got, pc>> BY DEF vars
<1>2. TypeOK' BY <1>1 DEF IInv, TypeOK
<1>3. \A s \in Rows : Kept(A, s)' = Kept(A, s) BY <1>1 DEF Kept, Columns
<1>4. \A e \in Blocks : RowOf(A, e)' = RowOf(A, e)
  BY <1>1 DEF RowOf, LogicalIndex
<1>5. RowsRead' BY <1>1, <1>3 DEF IInv, RowsRead
<1>6. ExitedDone' /\ InOrder' BY <1>1, <1>4 DEF IInv, ExitedDone, InOrder
<1> QED BY <1>2, <1>5, <1>6 DEF IInv

LEMMA NextIInv ==
  ASSUME IInv, [Next]_vars
  PROVE  IInv'
<1>1. CASE \E b \in Blocks : Start(b) BY <1>1, StartKeeps
<1>2. CASE \E b \in Blocks : Step(b)
  <2>1. PICK b \in Blocks : Step(b) BY <1>2
  <2>2. Tile(b) \in TileIds /\ RowOf(A, b) \in Rows
    BY BlockPlace DEF IInv, TypeOK
  <2>3. CASE \E c \in Rows : Read(b, Tile(b), RowOf(A, b), c)
    BY <2>2, <2>3, ReadKeeps
  <2>4. CASE Store(b, Tile(b), RowOf(A, b)) BY <2>2, <2>4, StoreKeeps
  <2>5. CASE Publish(b, Tile(b), RowOf(A, b))
    BY <2>1, <2>5, PublishKeeps DEF Step
  <2> QED BY <2>1, <2>3, <2>4, <2>5 DEF Step
<1>3. CASE UNCHANGED vars BY <1>3, StutterKeeps
<1> QED BY <1>1, <1>2, <1>3 DEF Next, Ended

----------------------------------------------------------------------------
(* The inductive invariant of the launch (src/flagsparse_codegen/spsm.py). *)
THEOREM PollingInvariant == Safety => []IInv
<1>1. IInv /\ [Next]_vars => IInv' BY NextIInv
<1> QED BY InitIInv, <1>1, PTL DEF Safety

(* The flags, the values and the blocks stay what the kernel expects.      *)
THEOREM TypeCorrect == Safety => []TypeOK
<1>1. IInv => TypeOK BY DEF IInv
<1> QED BY <1>1, PollingInvariant, PTL

(* A raised flag stands for a row computed from its whole triangle.        *)
THEOREM WholeTriangleUsed == Safety => []NoTermDropped
<1>1. IInv => NoTermDropped
  <2> SUFFICES ASSUME IInv, NEW t \in TileIds, NEW r \in Rows, done[t][r]
               PROVE  /\ value[t][r] /\ got[t][r] = Triangle(A, r)
                      /\ \A c \in got[t][r] : done[t][c]
    BY DEF NoTermDropped
  <2>1. /\ value[t][r] /\ got[t][r] = Kept(A, r)
        /\ \A c \in got[t][r] : done[t][c]
    BY DEF IInv, RowsRead
  <2> QED BY <2>1, KeptIsTriangle DEF IInv, TypeOK
<1> QED BY <1>1, PollingInvariant, PTL

(* When every block has exited, every row of every tile is solved.         *)
THEOREM SolvedAtExit == Safety => []CompleteAtExit
<1>1. IInv => CompleteAtExit
  <2> SUFFICES ASSUME IInv, Over, NEW t \in TileIds, NEW r \in Rows
               PROVE  done[t][r]
    BY DEF CompleteAtExit
  <2>1. A \in Solvable BY DEF IInv, TypeOK
  <2>2. /\ BlockOf(A, t, r) \in Blocks
        /\ Tile(BlockOf(A, t, r)) = t /\ RowOf(A, BlockOf(A, t, r)) = r
    BY <2>1, BlockOfRow
  <2> QED BY <2>2 DEF Over, IInv, ExitedDone
<1> QED BY <1>1, PollingInvariant, PTL

(* The first block that has not exited.                                    *)
LEMMA FirstUnfinished ==
  ASSUME ~Over
  PROVE  \E b \in Blocks : /\ pc[b] # "exited"
                           /\ \A e \in Blocks : e < b => pc[e] = "exited"
<1> DEFINE R == {ss \in Nat \X Nat : ss[1] < ss[2]}
           T == {b \in Blocks : pc[b] # "exited"}
<1>1. Blocks \subseteq Nat
  BY SystemsAssumption, PollingAssumption DEF Blocks
<1>2. \A x, y \in Nat : <<x, y>> \in R <=> x < y
  OBVIOUS
<1>3. T \subseteq Nat /\ T # {} BY <1>1 DEF Over
<1>4. IsWellFoundedOn(R, Nat) BY NatLessThanWellFounded DEF OpToRel
<1> HIDE DEF R, T
<1>5. PICK b \in T : \A e \in T : ~(<<e, b>> \in R)
  BY <1>3, <1>4, WFMin
<1> QED BY <1>1, <1>2, <1>5 DEF T

(* A device that runs ahead of the launch order by fewer blocks than it    *)
(* has places is never filled with blocks that wait for one not started:   *)
(* what spsm.py says progress depends on, made exact.                      *)
THEOREM SpinningNeverFillsTheDevice == Safety => []NeverStuck
<1>1. IInv => NeverStuck
  <2> SUFFICES ASSUME IInv, ~Over
               PROVE  \E b \in Blocks :
                        \/ CanStart(b)
                        \/ /\ pc[b] = "resident"
                           /\ \A c \in Triangle(A, RowOf(A, b)) : done[Tile(b)][c]
    BY DEF NeverStuck
  <2>1. PICK b \in Blocks : /\ pc[b] # "exited"
                            /\ \A e \in Blocks : e < b => pc[e] = "exited"
    BY FirstUnfinished
  <2>2. A \in Solvable /\ pc[b] \in {"waiting", "resident", "exited"}
    BY DEF IInv, TypeOK
  <2>3. CASE pc[b] = "resident"
    <3> SUFFICES ASSUME NEW c \in Triangle(A, RowOf(A, b))
                 PROVE  done[Tile(b)][c]
      BY <2>3
    <3>1. Tile(b) \in TileIds BY <2>2, BlockPlace
    <3>2. c \in Rows /\ BlockOf(A, Tile(b), c) < b
      BY <2>2, WaitsForEarlier
    <3>3. /\ BlockOf(A, Tile(b), c) \in Blocks
          /\ Tile(BlockOf(A, Tile(b), c)) = Tile(b)
          /\ RowOf(A, BlockOf(A, Tile(b), c)) = c
      BY <2>2, <3>1, <3>2, BlockOfRow
    <3> QED BY <2>1, <3>2, <3>3 DEF IInv, ExitedDone
  <2>4. CASE pc[b] = "waiting"
    <3>1. b \in Int /\ Ahead \in Nat /\ Resident \in Nat /\ Ahead < Resident
          /\ Blocks \subseteq Int
      BY SystemsAssumption, PollingAssumption DEF Blocks
    <3>2. ResidentBlocks \subseteq (b + 1) .. (b + Ahead)
      <4> SUFFICES ASSUME NEW k \in Blocks, pc[k] = "resident"
                   PROVE  k \in (b + 1) .. (b + Ahead)
        BY DEF ResidentBlocks
      <4>1. k # b /\ ~(k < b) BY <2>1, <2>4
      <4>2. ~(b + Ahead < k) BY <2>4 DEF IInv, InOrder
      <4> QED BY <3>1, <4>1, <4>2
    <3>3. /\ IsFiniteSet((b + 1) .. (b + Ahead))
          /\ Cardinality((b + 1) .. (b + Ahead)) <= Ahead
      <4>1. b + 1 \in Int /\ b + Ahead \in Int BY <3>1
      <4> QED BY <3>1, <4>1, FS_Interval
    <3>4. /\ Cardinality(ResidentBlocks) <= Cardinality((b + 1) .. (b + Ahead))
          /\ IsFiniteSet(ResidentBlocks)
      BY <3>2, <3>3, FS_Subset
    <3>5. Cardinality(ResidentBlocks) \in Nat
          /\ Cardinality((b + 1) .. (b + Ahead)) \in Nat
      BY <3>3, <3>4, FS_CardinalityType
    <3>6. Cardinality(ResidentBlocks) < Resident
      BY <3>1, <3>3, <3>4, <3>5
    <3>7. \A e \in Blocks : e + Ahead < b => pc[e] # "waiting"
      BY <2>1, <3>1
    <3> QED BY <2>4, <3>6, <3>7 DEF CanStart
  <2> QED BY <2>1, <2>2, <2>3, <2>4
<1> QED BY <1>1, PollingInvariant, PTL

(* Whichever tile is watched, the launch takes the steps of a triangular   *)
(* solve for it and no others.                                             *)
THEOREM ImplementsSolve == Safety => Abs!Safety
<1>0. Watched \in TileIds BY PollingAssumption DEF TileIds
<1>1. Init => Abs!Init BY <1>0 DEF Init, Abs!Init, Rows, Abs!Rows
<1>2. IInv /\ IInv' /\ [Next]_vars => [Abs!Next]_(Abs!absVars)
  <2> SUFFICES ASSUME IInv, IInv', [Next]_vars
               PROVE  Abs!Next \/ UNCHANGED Abs!absVars
    OBVIOUS
  <2>1. /\ done \in [TileIds -> [Rows -> BOOLEAN]]
        /\ got \in [TileIds -> [Rows -> SUBSET Rows]]
        /\ A \in Solvable
    BY DEF IInv, TypeOK
  <2>2. CASE \E b \in Blocks : Step(b)
    <3>1. PICK b \in Blocks : Step(b) BY <2>2
    <3>2. PICK t \in TileIds, r \in Rows : t = Tile(b) /\ r = RowOf(A, b)
      BY <2>1, BlockPlace
    <3>3. CASE \E c \in Rows : Read(b, t, r, c)
      <4>1. PICK c \in Rows : Read(b, t, r, c) BY <3>3
      <4>2. ~done[t][r] BY <3>2, <4>1, ReadKeeps
      <4>3. UNCHANGED <<A, done>> /\ got' = [got EXCEPT ![t][r] = @ \cup {c}]
        BY <4>1 DEF Read
      <4>4. \A s \in Rows : done[Watched][s] =>
              got'[Watched][s] = got[Watched][s]
        BY <1>0, <2>1, <3>2, <4>2, <4>3
      <4> QED BY <4>3, <4>4 DEF Abs!absVars
    <3>4. CASE Store(b, t, r) BY <3>4 DEF Store, Abs!absVars
    <3>5. CASE Publish(b, t, r)
      <4>1. /\ value[t][r] /\ done' = [done EXCEPT ![t][r] = TRUE]
            /\ UNCHANGED <<A, value, got>>
        BY <3>5 DEF Publish
      <4>2. \A u \in TileIds, s \in Rows :
              done'[u][s] <=> (done[u][s] \/ (u = t /\ s = r))
        BY <2>1, <3>2, <4>1
      <4>3. CASE t # Watched \/ done[t][r]
        <5>1. \A s \in Rows : done'[Watched][s] <=> done[Watched][s]
          BY <1>0, <3>2, <4>2, <4>3
        <5> QED BY <4>1, <5>1 DEF Abs!absVars
      <4>4. CASE t = Watched /\ ~done[t][r]
        <5>1. got[t][r] = Triangle(A, r) /\ got[t][r] \subseteq Rows
          BY <2>1, <3>2, <4>1, KeptIsTriangle DEF IInv, RowsRead
        <5>2. \A c \in got[t][r] : done[t][c]
          BY <3>2 DEF IInv, RowsRead
        <5>3. Abs!Triangle(A, r) = Triangle(A, r)
          BY DEF Triangle, Abs!Triangle, Columns, Abs!Columns
        <5>4. Abs!Solve(r)
          <6>1. r \notin {s \in Rows : done[Watched][s]} BY <4>4
          <6>2. Triangle(A, r) \subseteq {s \in Rows : done[Watched][s]}
            BY <4>4, <5>1, <5>2
          <6>3. {s \in Rows : done'[Watched][s]}
                  = {s \in Rows : done[Watched][s]} \cup {r}
            BY <1>0, <3>2, <4>2, <4>4
          <6>4. [s \in Rows |-> IF done'[Watched][s] THEN got'[Watched][s] ELSE {}]
                  = [[s \in Rows |-> IF done[Watched][s] THEN got[Watched][s]
                                     ELSE {}] EXCEPT ![r] = Triangle(A, r)]
            BY <1>0, <3>2, <4>1, <4>2, <4>4, <5>1
          <6> QED BY <4>1, <5>3, <6>1, <6>2, <6>3, <6>4 DEF Abs!Solve
        <5>5. r \in Abs!Rows BY <3>2 DEF Rows, Abs!Rows
        <5> QED BY <5>4, <5>5 DEF Abs!Next
      <4> QED BY <4>3, <4>4
    <3> QED BY <3>1, <3>2, <3>3, <3>4, <3>5 DEF Step
  <2>3. CASE UNCHANGED <<A, done, got>> BY <2>3 DEF Abs!absVars
  <2> QED BY <2>2, <2>3 DEF Next, Ended, Start, vars
<1> QED BY <1>1, <1>2, PollingInvariant, PTL DEF Safety, Abs!Safety
=============================================================================
