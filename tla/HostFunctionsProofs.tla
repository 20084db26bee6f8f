------------------------ MODULE HostFunctionsProofs ------------------------
(***************************************************************************)
(* Proofs about HostFunctions: what the loops over index arrays return and *)
(* what the launches over dense operands reach, for every input.           *)
(***************************************************************************)
EXTENDS HostFunctions, FiniteSetTheorems, NaturalsInduction,
        WellFoundedInduction, TLAPS

----------------------------------------------------------------------------
(* Recursion over an array: a set of naturals has a least element, so an   *)
(* argument by induction takes the least index at which it would fail.     *)

LEMMA LeastNat ==
  ASSUME NEW T \in SUBSET Nat, T # {}
  PROVE  \E k \in T : \A j \in Nat : j < k => j \notin T
<1> DEFINE R == {ss \in Nat \X Nat : ss[1] < ss[2]}
<1>1. \A x, y \in Nat : <<x, y>> \in R <=> x < y
  OBVIOUS
<1>2. IsWellFoundedOn(R, Nat) BY NatLessThanWellFounded DEF OpToRel
<1> HIDE DEF R
<1>3. PICK b \in T : \A e \in T : ~(<<e, b>> \in R)
  BY <1>2, WFMin
<1> QED BY <1>1, <1>3

(* A recursion steps along 0..n with F, from base.                         *)
StepsOver(n, V) == [(1..n) \X V -> V]
Follows(g, n, V, base, F) ==
  /\ g \in [0..n -> V]
  /\ g[0] = base
  /\ \A r \in 1..n : g[r] = F[<<r, g[r - 1]>>]

(* It has a solution.                                                      *)
LEMMA Recursion ==
  ASSUME NEW n \in Nat, NEW V, NEW base \in V, NEW F \in StepsOver(n, V)
  PROVE  \E g : Follows(g, n, V, base, F)
<1> DEFINE Solves(g, k) ==
             /\ g \in [0..k -> V]
             /\ g[0] = base /\ \A r \in 1..k : g[r] = F[<<r, g[r - 1]>>]
           T == {k \in 0..n : ~ \E g : Solves(g, k)}
<1>1. ASSUME NEW k \in T, \A j \in Nat : j < k => j \notin T
      PROVE  FALSE
  <2>1. CASE k = 0
    <3>1. Solves([r \in 0..0 |-> base], 0) OBVIOUS
    <3> QED BY <2>1, <3>1
  <2>2. CASE k # 0
    <3>1. PICK g : Solves(g, k - 1)
      <4>1. k - 1 \in 0..n /\ k - 1 \in Nat /\ k - 1 < k BY <2>2
      <4>2. k - 1 \notin T BY <1>1, <4>1
      <4> HIDE DEF Solves
      <4> QED BY <4>1, <4>2
    <3> DEFINE h == [r \in 0..k |-> IF r = k THEN F[<<k, g[k - 1]>>] ELSE g[r]]
    <3>2. k \in 1..n /\ k - 1 \in 0..k - 1 BY <2>2
    <3>3. g[k - 1] \in V BY <3>1, <3>2
    <3>4. F[<<k, g[k - 1]>>] \in V BY <3>2, <3>3 DEF StepsOver
    <3>5. h \in [0..k -> V] BY <3>1, <3>2, <3>4
    <3>6. h[0] = base BY <3>1, <3>2
    <3>7. ASSUME NEW r \in 1..k PROVE h[r] = F[<<r, h[r - 1]>>]
      <4>1. h[r - 1] = g[r - 1] OBVIOUS
      <4>2. CASE r = k
        <5>1. h[k] = F[<<k, g[k - 1]>>] BY <3>2
        <5> HIDE DEF h
        <5> QED BY <4>1, <4>2, <5>1
      <4>3. CASE r # k
        <5>1. r \in 1..k - 1 BY <3>2, <4>3
        <5>2. h[r] = g[r] BY <4>3
        <5> QED BY <3>1, <4>1, <5>1, <5>2
      <4> QED BY <4>2, <4>3
    <3> HIDE DEF h
    <3>8. Solves(h, k) BY <3>5, <3>6, <3>7
    <3> QED BY <3>8
  <2> QED BY <2>1, <2>2
<1>2. T = {}
  <2> HIDE DEF T
  <2>1. T \in SUBSET Nat BY DEF T
  <2> QED BY <1>1, <2>1, LeastNat
<1>3. n \in 0..n OBVIOUS
<1>4. PICK g : Solves(g, n)
  <2> HIDE DEF Solves
  <2> QED BY <1>2, <1>3
<1> QED BY <1>4 DEF Follows

----------------------------------------------------------------------------
(* The loops over index arrays *)

(* The counting loop, entry by entry.                                      *)
LEMMA CountsLoop ==
  ASSUME NEW m \in Nat, NEW rows \in Seq(Int),
         \A k \in 1..Len(rows) : rows[k] \in 0..m - 1
  PROVE  \E c \in [0..Len(rows) -> [0..m -> Nat]] :
           /\ c[0] = [i \in 0..m |-> 0]
           /\ \A k \in 1..Len(rows) :
                c[k] = [c[k - 1] EXCEPT ![rows[k] + 1] = @ + 1]
           /\ Counts(rows, m) = c[Len(rows)]
<1> DEFINE n == Len(rows)
           V == [0..m -> Nat]
           base == [i \in 0..m |-> 0]
           F == [p \in (1..n) \X V |-> [p[2] EXCEPT ![rows[p[1]] + 1] = @ + 1]]
           Step(g) == [k \in 0..n |-> IF k = 0 THEN base
                         ELSE [g[k - 1] EXCEPT ![rows[k] + 1] = @ + 1]]
           s == CHOOSE g : g = Step(g)
<1>1. n \in Nat /\ base \in V OBVIOUS
<1>2. F \in StepsOver(n, V)
  <2> SUFFICES ASSUME NEW k \in 1..n, NEW v \in V
               PROVE  [v EXCEPT ![rows[k] + 1] = @ + 1] \in V
    BY DEF StepsOver
  <2>1. rows[k] + 1 \in 0..m OBVIOUS
  <2> QED BY <2>1
<1>3. \A k \in 1..n, v \in V :
        F[<<k, v>>] = [v EXCEPT ![rows[k] + 1] = @ + 1]
  OBVIOUS
<1>4. Counts(rows, m) = s[n] BY DEF Counts
<1>5. \A g : /\ Step(g)[0] = base
             /\ \A k \in 1..n :
                  Step(g)[k] = [g[k - 1] EXCEPT ![rows[k] + 1] = @ + 1]
             /\ Step(g) = [k \in 0..n |-> Step(g)[k]]
  OBVIOUS
<1> HIDE DEF F, V, n, base, s, Step
<1>6. PICK g : Follows(g, n, V, base, F) BY <1>1, <1>2, Recursion
<1>7. /\ g \in [0..n -> V] /\ g[0] = base
      /\ \A k \in 1..n : g[k] = [g[k - 1] EXCEPT ![rows[k] + 1] = @ + 1]
  <2>1. \A k \in 1..n : g[k - 1] \in V BY <1>1, <1>6 DEF Follows
  <2> QED BY <1>3, <1>6, <2>1 DEF Follows
<1>8. g = Step(g)
  <2>1. \A k \in 0..n : k = 0 \/ k \in 1..n BY <1>1
  <2>2. \A k \in 0..n : g[k] = Step(g)[k] BY <1>5, <1>7, <2>1
  <2> DEFINE h == Step(g)
  <2>3. g = [k \in 0..n |-> g[k]] BY <1>7
  <2>4. h = [k \in 0..n |-> h[k]] BY <1>5
  <2> HIDE DEF h
  <2>5. \A k \in 0..n : g[k] = h[k] BY <2>2 DEF h
  <2> QED BY <2>3, <2>4, <2>5 DEF h
<1>9. s = Step(s) BY <1>8 DEF s
<1>10. \A k \in 0..n : g[k] = s[k]
  <2> DEFINE T == {k \in 0..n : g[k] # s[k]}
  <2>1. ASSUME NEW k \in T, \A j \in Nat : j < k => j \notin T
        PROVE  FALSE
    <3>1. s[0] = base BY <1>5, <1>9
    <3>2. k \in 1..n /\ k - 1 \in Nat /\ k - 1 < k BY <1>1, <1>7, <3>1
    <3>3. g[k - 1] = s[k - 1] BY <1>1, <2>1, <3>2
    <3>4. s[k] = [s[k - 1] EXCEPT ![rows[k] + 1] = @ + 1]
      BY <1>5, <1>9, <3>2
    <3> QED BY <1>7, <3>2, <3>3, <3>4
  <2>2. T \in SUBSET Nat BY <1>1
  <2> HIDE DEF T
  <2>3. T = {} BY <2>1, <2>2, LeastNat
  <2> QED BY <2>3 DEF T
<1>11. Counts(rows, m) = g[n] BY <1>1, <1>4, <1>10
<1> QED BY <1>7, <1>11 DEF V, n, base

(* The summing loop, row by row.                                           *)
LEMMA PrefixSumsLoop ==
  ASSUME NEW m \in Nat, NEW counts \in [0..m -> Nat]
  PROVE  /\ PrefixSums(counts, m) \in [0..m -> Nat]
         /\ PrefixSums(counts, m)[0] = counts[0]
         /\ \A r \in 1..m :
              PrefixSums(counts, m)[r] = counts[r] + PrefixSums(counts, m)[r - 1]
<1> DEFINE V == Nat
           base == counts[0]
           F == [p \in (1..m) \X V |-> counts[p[1]] + p[2]]
           Step(g) == [r \in 0..m |-> IF r = 0 THEN base
                         ELSE counts[r] + g[r - 1]]
           s == CHOOSE g : g = Step(g)
<1>1. base \in V OBVIOUS
<1>2. F \in StepsOver(m, V)
  <2> SUFFICES ASSUME NEW r \in 1..m, NEW v \in V
               PROVE  F[<<r, v>>] \in V
    BY DEF StepsOver
  <2> QED OBVIOUS
<1>3. \A r \in 1..m, v \in V : F[<<r, v>>] = counts[r] + v
  OBVIOUS
<1>4. PrefixSums(counts, m) = s BY DEF PrefixSums
<1>5. \A g : /\ Step(g)[0] = base
             /\ \A r \in 1..m : Step(g)[r] = counts[r] + g[r - 1]
             /\ Step(g) = [r \in 0..m |-> Step(g)[r]]
  OBVIOUS
<1> HIDE DEF F, V, base, s, Step
<1>6. PICK g : Follows(g, m, V, base, F) BY <1>1, <1>2, Recursion
<1>7. /\ g \in [0..m -> V] /\ g[0] = base
      /\ \A r \in 1..m : g[r] = counts[r] + g[r - 1]
  <2>1. \A r \in 1..m : g[r - 1] \in V BY <1>6 DEF Follows
  <2> QED BY <1>3, <1>6, <2>1 DEF Follows
<1>8. g = Step(g)
  <2>1. \A r \in 0..m : r = 0 \/ r \in 1..m OBVIOUS
  <2>2. \A r \in 0..m : g[r] = Step(g)[r] BY <1>5, <1>7, <2>1
  <2> DEFINE h == Step(g)
  <2>3. g = [r \in 0..m |-> g[r]] BY <1>7
  <2>4. h = [r \in 0..m |-> h[r]] BY <1>5
  <2> HIDE DEF h
  <2>5. \A r \in 0..m : g[r] = h[r] BY <2>2 DEF h
  <2> QED BY <2>3, <2>4, <2>5 DEF h
<1>9. s = Step(s) BY <1>8 DEF s
<1>10. \A r \in 0..m : g[r] = s[r]
  <2> DEFINE T == {r \in 0..m : g[r] # s[r]}
  <2>1. ASSUME NEW r \in T, \A j \in Nat : j < r => j \notin T
        PROVE  FALSE
    <3>1. s[0] = base BY <1>5, <1>9
    <3>2. r \in 1..m /\ r - 1 \in Nat /\ r - 1 < r BY <1>7, <3>1
    <3>3. g[r - 1] = s[r - 1] BY <2>1, <3>2
    <3>4. s[r] = counts[r] + s[r - 1] BY <1>5, <1>9, <3>2
    <3> QED BY <1>7, <3>2, <3>3, <3>4
  <2>2. T \in SUBSET Nat OBVIOUS
  <2> HIDE DEF T
  <2>3. T = {} BY <2>1, <2>2, LeastNat
  <2> QED BY <2>3 DEF T
<1>11. g = s
  <2>1. g = [r \in 0..m |-> g[r]] BY <1>7
  <2>2. s = [r \in 0..m |-> s[r]]
    <3> DEFINE h == Step(s)
    <3>1. h = [r \in 0..m |-> h[r]] BY <1>5
    <3> HIDE DEF h
    <3>2. s = h BY <1>9 DEF h
    <3> QED BY <3>1, <3>2
  <2> QED BY <1>10, <2>1, <2>2
<1> QED BY <1>4, <1>7, <1>11 DEF V, base

(* The loop over the rows for the longest run.                             *)
LEMMA LongestRunLoop ==
  ASSUME NEW n \in Nat, NEW offsets \in [0..n -> Nat]
  PROVE  \E g \in [0..n -> Int] :
           /\ g[0] = 0
           /\ \A r \in 1..n :
                g[r] = Larger(g[r - 1], offsets[r] - offsets[r - 1])
           /\ LongestRun(offsets, n) = g[n]
<1> DEFINE V == Int
           base == 0
           F == [p \in (1..n) \X V |-> Larger(p[2], offsets[p[1]] - offsets[p[1] - 1])]
           Step(g) == [r \in 0..n |-> IF r = 0 THEN base
                         ELSE Larger(g[r - 1], offsets[r] - offsets[r - 1])]
           s == CHOOSE g : g = Step(g)
<1>1. base \in V OBVIOUS
<1>2. F \in StepsOver(n, V)
  <2> SUFFICES ASSUME NEW r \in 1..n, NEW v \in V
               PROVE  F[<<r, v>>] \in V
    BY DEF StepsOver
  <2> QED BY DEF Larger
<1>3. \A r \in 1..n, v \in V : F[<<r, v>>] = Larger(v, offsets[r] - offsets[r - 1])
  OBVIOUS
<1>4. LongestRun(offsets, n) = s[n] BY DEF LongestRun
<1>5. \A g : /\ Step(g)[0] = base
             /\ \A r \in 1..n : Step(g)[r] = Larger(g[r - 1], offsets[r] - offsets[r - 1])
             /\ Step(g) = [r \in 0..n |-> Step(g)[r]]
  OBVIOUS
<1> HIDE DEF F, V, base, s, Step
<1>6. PICK g : Follows(g, n, V, base, F) BY <1>1, <1>2, Recursion
<1>7. /\ g \in [0..n -> V] /\ g[0] = base
      /\ \A r \in 1..n : g[r] = Larger(g[r - 1], offsets[r] - offsets[r - 1])
  <2>1. \A r \in 1..n : g[r - 1] \in V BY <1>6 DEF Follows
  <2> QED BY <1>3, <1>6, <2>1 DEF Follows
<1>8. g = Step(g)
  <2>1. \A r \in 0..n : r = 0 \/ r \in 1..n OBVIOUS
  <2>2. \A r \in 0..n : g[r] = Step(g)[r] BY <1>5, <1>7, <2>1
  <2> DEFINE h == Step(g)
  <2>3. g = [r \in 0..n |-> g[r]] BY <1>7
  <2>4. h = [r \in 0..n |-> h[r]] BY <1>5
  <2> HIDE DEF h
  <2>5. \A r \in 0..n : g[r] = h[r] BY <2>2 DEF h
  <2> QED BY <2>3, <2>4, <2>5 DEF h
<1>9. s = Step(s) BY <1>8 DEF s
<1>10. \A r \in 0..n : g[r] = s[r]
  <2> DEFINE T == {r \in 0..n : g[r] # s[r]}
  <2>1. ASSUME NEW r \in T, \A j \in Nat : j < r => j \notin T
        PROVE  FALSE
    <3>1. s[0] = base BY <1>5, <1>9
    <3>2. r \in 1..n /\ r - 1 \in Nat /\ r - 1 < r BY <1>7, <3>1
    <3>3. g[r - 1] = s[r - 1] BY <2>1, <3>2
    <3>4. s[r] = Larger(s[r - 1], offsets[r] - offsets[r - 1]) BY <1>5, <1>9, <3>2
    <3> QED BY <1>7, <3>2, <3>3, <3>4
  <2>2. T \in SUBSET Nat OBVIOUS
  <2> HIDE DEF T
  <2>3. T = {} BY <2>1, <2>2, LeastNat
  <2> QED BY <2>3 DEF T
<1>11. LongestRun(offsets, n) = g[n] BY <1>4, <1>10
<1> QED BY <1>7, <1>11 DEF V, base

(* counts[i] ends as the number of the entries of row i - 1.               *)
LEMMA CountsAre ==
  ASSUME NEW m \in Nat, NEW rows \in Seq(Int),
         \A k \in 1..Len(rows) : rows[k] \in 0..m - 1
  PROVE  /\ Counts(rows, m) \in [0..m -> Nat]
         /\ \A i \in 0..m : Counts(rows, m)[i] =
              Cardinality({j \in 1..Len(rows) : rows[j] + 1 = i})
<1> DEFINE n == Len(rows)
           Upto(k, i) == {j \in 1..k : rows[j] + 1 = i}
<1>1. PICK c \in [0..n -> [0..m -> Nat]] :
        /\ c[0] = [i \in 0..m |-> 0]
        /\ \A k \in 1..n : c[k] = [c[k - 1] EXCEPT ![rows[k] + 1] = @ + 1]
        /\ Counts(rows, m) = c[n]
  BY CountsLoop
<1>2. n \in Nat OBVIOUS
<1>3. ASSUME NEW k \in 0..n, NEW i \in 0..m
      PROVE  IsFiniteSet(Upto(k, i)) /\ Cardinality(Upto(k, i)) \in Nat
  <2>1. IsFiniteSet(1..k) BY <1>2, FS_Interval
  <2>2. Upto(k, i) \in SUBSET (1..k) OBVIOUS
  <2> QED BY <2>1, <2>2, FS_Subset, FS_CardinalityType
<1> HIDE DEF n
<1> DEFINE T == {k \in 0..n :
                   ~ \A i \in 0..m : c[k][i] = Cardinality(Upto(k, i))}
<1>4. ASSUME NEW k \in T, \A j \in Nat : j < k => j \notin T
      PROVE  FALSE
  <2> SUFFICES ASSUME NEW i \in 0..m
               PROVE  c[k][i] = Cardinality(Upto(k, i))
    OBVIOUS
  <2>1. CASE k = 0
    <3>1. Upto(k, i) = {} BY <2>1
    <3> QED BY <1>1, <2>1, <3>1, FS_EmptySet
  <2>2. CASE k # 0
    <3>1. k \in 1..n /\ k - 1 \in 0..n BY <1>2, <2>2
    <3>2. c[k - 1][i] = Cardinality(Upto(k - 1, i)) BY <1>4, <3>1
    <3>3. c[k] = [c[k - 1] EXCEPT ![rows[k] + 1] = @ + 1] BY <1>1, <3>1
    <3>4. c[k - 1] \in [0..m -> Nat] BY <1>1, <3>1
    <3>5. CASE rows[k] + 1 = i
      <4>1. Upto(k, i) = Upto(k - 1, i) \cup {k} /\ k \notin Upto(k - 1, i)
        BY <3>1, <3>5
      <4> DEFINE U == Upto(k - 1, i)
      <4>2. IsFiniteSet(U) BY <1>3, <3>1
      <4> HIDE DEF U
      <4>3. Cardinality(U \cup {k}) = Cardinality(U) + 1
        BY <4>1, <4>2, FS_AddElement DEF U
      <4>4. Cardinality(Upto(k, i)) = Cardinality(Upto(k - 1, i)) + 1
        BY <4>1, <4>3 DEF U
      <4>5. c[k][i] = c[k - 1][i] + 1 BY <3>3, <3>4, <3>5
      <4> QED BY <3>2, <4>4, <4>5
    <3>6. CASE rows[k] + 1 # i
      <4>1. Upto(k, i) = Upto(k - 1, i) BY <3>1, <3>6
      <4>2. c[k][i] = c[k - 1][i] BY <3>3, <3>4, <3>6
      <4> QED BY <3>2, <4>1, <4>2
    <3> QED BY <3>5, <3>6
  <2> QED BY <2>1, <2>2
<1>5. T \in SUBSET Nat OBVIOUS
<1>6. T = {}
  <2> HIDE DEF T
  <2> QED BY <1>4, <1>5, LeastNat
<1>7. n \in 0..n BY <1>2
<1>8. \A i \in 0..m : c[n][i] = Cardinality(Upto(n, i)) BY <1>6, <1>7
<1>9. c[n] \in [0..m -> Nat] BY <1>7
<1> QED BY <1>1, <1>8, <1>9 DEF n

(* offsets[r] ends as the number of the entries of the rows before r.      *)
LEMMA OffsetsCount ==
  ASSUME NEW m \in Nat, NEW rows \in Seq(Int),
         \A k \in 1..Len(rows) : rows[k] \in 0..m - 1
  PROVE  /\ BuiltOffsets(rows, m) \in [0..m -> Nat]
         /\ \A r \in 0..m : BuiltOffsets(rows, m)[r] =
              Cardinality({j \in 1..Len(rows) : rows[j] < r})
<1> DEFINE n == Len(rows)
           Below(r) == {j \in 1..n : rows[j] < r}
           In(r) == {j \in 1..n : rows[j] + 1 = r}
           o == BuiltOffsets(rows, m)
           c == Counts(rows, m)
<1>1. /\ c \in [0..m -> Nat]
      /\ \A r \in 0..m : c[r] = Cardinality(In(r))
  BY CountsAre
<1>2. /\ o \in [0..m -> Nat] /\ o[0] = c[0]
      /\ \A r \in 1..m : o[r] = c[r] + o[r - 1]
  BY <1>1, PrefixSumsLoop DEF BuiltOffsets
<1>3. \A r \in 0..m : IsFiniteSet(Below(r)) /\ IsFiniteSet(In(r))
  <2> TAKE r \in 0..m
  <2>1. IsFiniteSet(1..n) BY FS_Interval
  <2>2. Below(r) \in SUBSET (1..n) /\ In(r) \in SUBSET (1..n) OBVIOUS
  <2> QED BY <2>1, <2>2, FS_Subset
<1>4. \A j \in 1..n : rows[j] \in 0..m - 1 OBVIOUS
<1> HIDE DEF n, o, c
<1> DEFINE T == {r \in 0..m : o[r] # Cardinality(Below(r))}
<1>5. ASSUME NEW r \in T, \A j \in Nat : j < r => j \notin T
      PROVE  FALSE
  <2>1. CASE r = 0
    <3>1. Below(r) = {} /\ In(r) = {} BY <1>4, <2>1
    <3> QED BY <1>1, <1>2, <2>1, <3>1
  <2>2. CASE r # 0
    <3>1. r \in 1..m /\ r - 1 \in 0..m BY <2>2
    <3>2. o[r - 1] = Cardinality(Below(r - 1)) BY <1>5, <3>1
    <3>3. /\ Below(r) = In(r) \cup Below(r - 1)
          /\ In(r) \cap Below(r - 1) = {}
      BY <1>4, <3>1
    <3>4. Cardinality(Below(r)) =
            Cardinality(In(r)) + Cardinality(Below(r - 1)) - Cardinality({})
      BY <1>3, <3>1, <3>3, FS_Union
    <3>5. o[r] = Cardinality(In(r)) + Cardinality(Below(r - 1))
      BY <1>1, <1>2, <3>1, <3>2
    <3>6. o[r] \in Nat BY <1>2
    <3>7. Cardinality(Below(r)) \in Nat /\ Cardinality(In(r)) \in Nat
          /\ Cardinality(Below(r - 1)) \in Nat
      BY <1>3, <3>1, FS_CardinalityType
    <3> QED BY <3>4, <3>5, <3>7, FS_EmptySet
  <2> QED BY <2>1, <2>2
<1>6. T \in SUBSET Nat OBVIOUS
<1>7. T = {}
  <2> HIDE DEF T
  <2> QED BY <1>5, <1>6, LeastNat
<1> QED BY <1>2, <1>7 DEF n, o

(* A set of indices that holds what lies before its members is 1..its size.*)
LEMMA InitialSegment ==
  ASSUME NEW n \in Nat, NEW S \in SUBSET (1..n),
         \A j \in S, i \in 1..n : i < j => i \in S
  PROVE  Cardinality(S) \in 0..n /\ S = 1..Cardinality(S)
<1> DEFINE T == {k \in 0..n : k + 1 \notin S}
<1>1. T \in SUBSET Nat /\ n \in T OBVIOUS
<1>2. PICK k \in T : \A j \in Nat : j < k => j \notin T
  <2> HIDE DEF T
  <2> QED BY <1>1, LeastNat
<1>3. \A i \in 1..k : i \in S
  <2> TAKE i \in 1..k
  <2>1. i - 1 \in 0..n /\ i - 1 < k OBVIOUS
  <2> QED BY <1>2, <2>1
<1>4. \A i \in S : i <= k
  <2> SUFFICES ASSUME NEW i \in S, i > k PROVE FALSE OBVIOUS
  <2>1. k + 1 \in 1..n /\ (k + 1 < i \/ k + 1 = i) OBVIOUS
  <2> QED BY <2>1
<1>5. S = 1..k
  <2>1. k \in 0..n OBVIOUS
  <2> HIDE DEF T
  <2>2. ASSUME NEW i \in S PROVE i \in 1..k BY <1>4, <2>1
  <2> QED BY <1>3, <2>2
<1>6. Cardinality(1..k) = k BY FS_Interval
<1> QED BY <1>5, <1>6

(* offsets[r] is where the entries of row r begin: an entry comes before   *)
(* it exactly when its row comes before r.                                 *)
LEMMA OffsetsSplit ==
  ASSUME NEW m \in Nat, NEW rows \in Seq(Int),
         \A k \in 1..Len(rows) : rows[k] \in 0..m - 1,
         \A j, k \in 1..Len(rows) : j < k => rows[j] <= rows[k]
  PROVE  /\ BuiltOffsets(rows, m) \in [0..m -> Nat]
         /\ \A r \in 0..m :
              /\ BuiltOffsets(rows, m)[r] \in 0..Len(rows)
              /\ \A k \in 1..Len(rows) :
                   k <= BuiltOffsets(rows, m)[r] <=> rows[k] < r
<1> SUFFICES ASSUME NEW r \in 0..m
             PROVE  /\ BuiltOffsets(rows, m)[r] \in 0..Len(rows)
                    /\ \A k \in 1..Len(rows) :
                         k <= BuiltOffsets(rows, m)[r] <=> rows[k] < r
  BY OffsetsCount
<1> DEFINE S == {j \in 1..Len(rows) : rows[j] < r}
           o == BuiltOffsets(rows, m)[r]
<1>1. o = Cardinality(S) BY OffsetsCount
<1>2. S \in SUBSET (1..Len(rows)) /\ Len(rows) \in Nat OBVIOUS
<1>3. \A j \in S, i \in 1..Len(rows) : i < j => i \in S OBVIOUS
<1>4. \A k \in 1..Len(rows) : k \in S <=> rows[k] < r OBVIOUS
<1> HIDE DEF S, o
<1>5. o \in 0..Len(rows) /\ S = 1..o
  BY <1>1, <1>2, <1>3, InitialSegment
<1>6. \A k \in 1..Len(rows) : k \in S <=> k <= o BY <1>2, <1>5
<1> QED BY <1>4, <1>5, <1>6 DEF o

(* The longest run of a loop over n > 0 rows is a bound, and is reached.   *)
LEMMA LongestRunIs ==
  ASSUME NEW n \in Nat \ {0}, NEW offsets \in [0..n -> Nat],
         \A r \in 1..n : offsets[r - 1] <= offsets[r]
  PROVE  /\ \A r \in 1..n : offsets[r] - offsets[r - 1] <= LongestRun(offsets, n)
         /\ \E r \in 1..n : offsets[r] - offsets[r - 1] = LongestRun(offsets, n)
<1> DEFINE d(r) == offsets[r] - offsets[r - 1]
<1>1. PICK g \in [0..n -> Int] :
        /\ g[0] = 0
        /\ \A r \in 1..n : g[r] = Larger(g[r - 1], d(r))
        /\ LongestRun(offsets, n) = g[n]
  BY LongestRunLoop
<1>2. \A r \in 1..n : d(r) \in Nat OBVIOUS
<1> HIDE DEF d
<1> DEFINE Holds(k) == /\ g[k] >= 0
                       /\ \A r \in 1..k : d(r) <= g[k]
                       /\ k > 0 => \E r \in 1..k : d(r) = g[k]
           T == {k \in 0..n : ~ Holds(k)}
<1>3. ASSUME NEW k \in T, \A j \in Nat : j < k => j \notin T
      PROVE  FALSE
  <2>1. CASE k = 0 BY <1>1, <2>1
  <2>2. CASE k # 0
    <3>1. k \in 1..n /\ k - 1 \in 0..n /\ k - 1 \in Nat /\ k - 1 < k BY <2>2
    <3>2. Holds(k - 1) BY <1>3, <3>1
    <3>3. g[k] = Larger(g[k - 1], d(k)) /\ d(k) \in Nat BY <1>1, <1>2, <3>1
    <3>4. g[k] \in Int /\ g[k - 1] \in Int BY <3>1
    <3>5. g[k] >= 0 /\ g[k] >= g[k - 1] /\ g[k] >= d(k)
      BY <3>2, <3>3, <3>4 DEF Larger
    <3>6. \A r \in 1..k : d(r) <= g[k]
      <4> TAKE r \in 1..k
      <4>1. r = k \/ r \in 1..k - 1 BY <3>1
      <4>2. d(r) \in Nat BY <1>2, <3>1
      <4>3. CASE r = k BY <3>5, <4>3
      <4>4. CASE r \in 1..k - 1
        <5>1. d(r) <= g[k - 1] BY <3>2, <4>4
        <5> QED BY <3>4, <3>5, <4>2, <5>1
      <4> QED BY <4>1, <4>3, <4>4
    <3>7. \E r \in 1..k : d(r) = g[k]
      <4>1. CASE g[k] = d(k) BY <3>1, <4>1
      <4>2. CASE g[k] # d(k)
        <5>1. g[k] = g[k - 1] /\ g[k - 1] > d(k)
          BY <3>3, <3>4, <4>2 DEF Larger
        <5>2. CASE k - 1 = 0 BY <1>1, <3>3, <5>1, <5>2
        <5>3. CASE k - 1 > 0
          <6>1. \E r \in 1..k - 1 : d(r) = g[k - 1] BY <3>2, <5>3
          <6> QED BY <3>1, <5>1, <6>1
        <5> QED BY <3>1, <5>2, <5>3
      <4> QED BY <4>1, <4>2
    <3>8. Holds(k) BY <3>5, <3>6, <3>7
    <3> QED BY <3>8
  <2> QED BY <2>1, <2>2
<1>4. T \in SUBSET Nat OBVIOUS
<1>5. T = {}
  <2> HIDE DEF T
  <2> QED BY <1>3, <1>4, LeastNat
<1>6. Holds(n)
  <2>1. n \in 0..n OBVIOUS
  <2> HIDE DEF Holds
  <2> QED BY <1>5, <2>1
<1> QED BY <1>1, <1>6 DEF d

LEMMA IntervalSize ==
  ASSUME NEW a \in Int, NEW b \in Int, a <= b
  PROVE  IsFiniteSet(a + 1..b) /\ Cardinality(a + 1..b) = b - a
<1> DEFINE c == a + 1
<1>1. c \in Int OBVIOUS
<1> HIDE DEF c
<1>2. IsFiniteSet(c..b) /\ Cardinality(c..b) = IF c > b THEN 0 ELSE b - c + 1
  BY <1>1, FS_Interval
<1> QED BY <1>2 DEF c

(* Neighbours in order put any two elements in order.                      *)
LEMMA Ascending ==
  ASSUME NEW f, NEW lo \in Nat, NEW hi \in Nat,
         \A k \in lo..hi : f[k] \in Int,
         \A k \in lo + 1..hi : f[k - 1] <= f[k]
  PROVE  \A j, k \in lo..hi : j < k => f[j] <= f[k]
<1> SUFFICES ASSUME NEW j \in lo..hi
             PROVE  \A k \in lo..hi : j < k => f[j] <= f[k]
  OBVIOUS
<1> DEFINE T == {k \in lo..hi : j < k /\ ~(f[j] <= f[k])}
<1>1. ASSUME NEW k \in T, \A i \in Nat : i < k => i \notin T
      PROVE  FALSE
  <2>1. k \in lo + 1..hi /\ k - 1 \in lo..hi /\ k - 1 \in Nat /\ k - 1 < k
    OBVIOUS
  <2>2. f[j] <= f[k - 1] BY <1>1, <2>1
  <2>3. f[k - 1] <= f[k] /\ f[k - 1] \in Int /\ f[k] \in Int /\ f[j] \in Int
    BY <2>1
  <2> QED BY <2>2, <2>3
<1>2. T \in SUBSET Nat OBVIOUS
<1>3. T = {}
  <2> HIDE DEF T
  <2> QED BY <1>1, <1>2, LeastNat
<1> QED BY <1>3

(* The same, strictly.                                                     *)
LEMMA StrictlyAscending ==
  ASSUME NEW f, NEW lo \in Nat, NEW hi \in Nat,
         \A k \in lo..hi : f[k] \in Int,
         \A k \in lo + 1..hi : f[k - 1] < f[k]
  PROVE  \A j, k \in lo..hi : j < k => f[j] < f[k]
<1> SUFFICES ASSUME NEW j \in lo..hi, NEW k \in lo..hi, j < k
             PROVE  f[j] < f[k]
  OBVIOUS
<1>1. \A i \in lo + 1..hi : f[i - 1] <= f[i]
  <2> TAKE i \in lo + 1..hi
  <2>1. f[i - 1] < f[i] /\ f[i - 1] \in Int /\ f[i] \in Int OBVIOUS
  <2> QED BY <2>1
<1>2. \A i, l \in lo..hi : i < l => f[i] <= f[l] BY <1>1, Ascending
<1>3. k - 1 \in lo..hi /\ k \in lo + 1..hi OBVIOUS
<1>4. f[j] <= f[k - 1] BY <1>2, <1>3
<1> QED BY <1>3, <1>4

----------------------------------------------------------------------------
(* The invariant *)

Outcome ==
  CASE kind = "arrays" -> Built(input)
    [] kind = "dense"  -> IF Taken(input) THEN <<SUCCESS>> ELSE <<INVALID>>
    [] OTHER           -> <<SUCCESS>>

(* The input stays one of its kind, and what a step returned is what the   *)
(* functions give for it.                                                  *)
IInv ==
  /\ kind \in Kinds
  /\ input \in InputsOf(kind)
  /\ output # <<>> => output = Outcome

(* What a behaviour returns is a function of the input it started with.    *)
THEOREM Evaluated == Spec => []IInv
<1>1. Init => IInv BY DEF Init, IInv
<1>2. IInv /\ [Next]_vars => IInv'
  <2> SUFFICES ASSUME IInv, [Next]_vars PROVE IInv' OBVIOUS
  <2>1. kind' = kind /\ input' = input
    BY DEF Next, Build, Validate, Plan, Done, vars
  <2>2. /\ kind' \in Kinds
        /\ input' \in InputsOf(kind')
    BY <2>1 DEF IInv
  <2>3. Outcome' = Outcome BY <2>1 DEF Outcome
  <2>4. output' = output \/ output' = Outcome
    <3>1. CASE Build BY <3>1 DEF Build, Outcome
    <3>2. CASE Validate BY <3>2 DEF Validate, Outcome
    <3>3. CASE Plan
      <4>1. kind # "arrays" /\ kind # "dense" /\ output' = <<SUCCESS>>
        BY <3>3 DEF Plan
      <4> QED BY <4>1 DEF Outcome
    <3>4. CASE Done \/ UNCHANGED vars BY <3>4 DEF Done, vars
    <3> QED BY <3>1, <3>2, <3>3, <3>4 DEF Next
  <2> QED BY <2>2, <2>3, <2>4 DEF IInv
<1> QED BY <1>1, <1>2, PTL DEF Spec

----------------------------------------------------------------------------
(* Index arrays *)

LEMMA ArraysTyped ==
  ASSUME NEW a \in CooArrays
  PROVE  /\ a.m \in Nat \ {0}
         /\ a.rows \in Seq(Int) /\ a.columns \in Seq(Int)
         /\ Len(a.rows) = Len(a.columns)
BY HostAssumption

Sorted(rows, m) ==
  /\ \A k \in 1..Len(rows) : rows[k] \in 0..m - 1
  /\ \A j, k \in 1..Len(rows) : j < k => rows[j] <= rows[k]

(* The scan compares neighbours, which orders the whole array.             *)
LEMMA ScanIsSorted ==
  ASSUME NEW m \in Nat, NEW rows \in Seq(Int)
  PROVE  ScanRows(rows, m) = (IF Sorted(rows, m) THEN SUCCESS ELSE INVALID)
<1> DEFINE n == Len(rows)
<1>1. n \in Nat /\ \A k \in 1..n : rows[k] \in Int OBVIOUS
<1>2. CASE ScanRows(rows, m) = SUCCESS
  <2>1. \A k \in 1..n : /\ rows[k] \in 0..m - 1
                        /\ k # 1 => rows[k - 1] <= rows[k]
    <3> TAKE k \in 1..n
    <3>1. /\ ~(rows[k] < 0) /\ ~(rows[k] >= m)
          /\ k # 1 => ~(rows[k] < rows[k - 1])
      BY <1>2 DEF ScanRows, SUCCESS, INVALID
    <3>2. k # 1 => rows[k - 1] \in Int BY <1>1
    <3> QED BY <1>1, <3>1, <3>2
  <2>2. \A j, k \in 1..n : j < k => rows[j] <= rows[k]
    <3>1. \A k \in 1 + 1..n : rows[k - 1] <= rows[k] BY <1>1, <2>1
    <3> HIDE DEF n
    <3> QED BY <1>1, <3>1, Ascending
  <2> QED BY <1>2, <2>1, <2>2 DEF Sorted
<1>3. CASE ScanRows(rows, m) # SUCCESS
  <2>1. /\ ScanRows(rows, m) = INVALID
        /\ \E k \in 1..n : \/ rows[k] < 0 \/ rows[k] >= m
                           \/ rows[k] < (IF k = 1 THEN 0 ELSE rows[k - 1])
    BY <1>3 DEF ScanRows
  <2>2. PICK k \in 1..n : \/ rows[k] < 0 \/ rows[k] >= m
                          \/ rows[k] < (IF k = 1 THEN 0 ELSE rows[k - 1])
    BY <2>1
  <2>3. ~ Sorted(rows, m)
    <3> SUFFICES ASSUME Sorted(rows, m) PROVE FALSE OBVIOUS
    <3>1. rows[k] \in 0..m - 1 BY DEF Sorted
    <3>2. k # 1 => rows[k - 1] <= rows[k] /\ rows[k - 1] \in Int
      BY <1>1 DEF Sorted
    <3> QED BY <2>2, <3>1, <3>2
  <2> QED BY <2>1, <2>3
<1> QED BY <1>2, <1>3

(* An accepted matrix has sorted rows, and what was built for it delimits  *)
(* them.                                                                   *)
LEMMA AcceptedOutcome ==
  ASSUME IInv, Accepted
  PROVE  /\ input \in CooArrays
         /\ Sorted(input.rows, input.m)
         /\ output[2] = BuiltOffsets(input.rows, input.m)
         /\ output[3] = LongestRun(output[2], input.m)
         /\ output[4] = ColumnsSorted(output[2], input.columns, input.m, input.m)
<1>1. input \in CooArrays BY DEF IInv, Accepted, Returned, InputsOf
<1>2. output = Built(input) BY DEF IInv, Accepted, Returned, Outcome
<1>3. ScanRows(input.rows, input.m) # INVALID
  <2> SUFFICES ASSUME ScanRows(input.rows, input.m) = INVALID PROVE FALSE
    OBVIOUS
  <2>1. output = <<INVALID>> BY <1>2 DEF Built
  <2> QED BY <2>1 DEF Accepted, INVALID, SUCCESS
<1>4. Sorted(input.rows, input.m)
  BY <1>1, <1>3, ArraysTyped, ScanIsSorted
<1>5. LET offsets == BuiltOffsets(input.rows, input.m)
      IN  output = <<SUCCESS, offsets, LongestRun(offsets, input.m),
                     ColumnsSorted(offsets, input.columns, input.m, input.m)>>
  BY <1>2, <1>3 DEF Built
<1> QED BY <1>1, <1>4, <1>5

LEMMA AcceptedOffsets ==
  ASSUME IInv, Accepted
  PROVE  LET n == Len(input.rows)
             o == output[2]
         IN  /\ input.m \in Nat \ {0} /\ n \in Nat
             /\ o \in [0..input.m -> Nat]
             /\ \A r \in 0..input.m - 1 :
                  /\ o[r] \in 0..n /\ o[r + 1] \in 0..n /\ o[r] <= o[r + 1]
                  /\ EntriesOf(r) = o[r] + 1..o[r + 1]
<1> DEFINE n == Len(input.rows)
           m == input.m
           o == output[2]
<1>1. /\ m \in Nat \ {0} /\ n \in Nat /\ input.rows \in Seq(Int)
      /\ Sorted(input.rows, m) /\ o = BuiltOffsets(input.rows, m)
  BY AcceptedOutcome, ArraysTyped
<1>2. \A k \in 1..n : input.rows[k] \in Int BY <1>1
<1>3. /\ o \in [0..m -> Nat]
      /\ \A r \in 0..m : /\ o[r] \in 0..n
                         /\ \A k \in 1..n : k <= o[r] <=> input.rows[k] < r
  BY <1>1, OffsetsSplit DEF Sorted
<1> HIDE DEF m, n, o
<1>4. ASSUME NEW r \in 0..m - 1
      PROVE  /\ o[r] \in 0..n /\ o[r + 1] \in 0..n /\ o[r] <= o[r + 1]
             /\ EntriesOf(r) = o[r] + 1..o[r + 1]
  <2>1. r \in 0..m /\ r + 1 \in 0..m /\ r \in Int BY <1>1
  <2>2. o[r] \in 0..n /\ o[r + 1] \in 0..n BY <1>3, <2>1
  <2>3. o[r] <= o[r + 1]
    <3> SUFFICES ASSUME o[r] > o[r + 1] PROVE FALSE BY <2>2
    <3>1. o[r] \in 1..n BY <1>1, <2>2
    <3>2. input.rows[o[r]] < r BY <1>3, <2>1, <2>2, <3>1
    <3>3. input.rows[o[r]] < r + 1 BY <1>2, <2>1, <3>1, <3>2
    <3>4. o[r] <= o[r + 1] BY <1>3, <2>1, <3>1, <3>3
    <3> QED BY <2>2, <3>4
  <2>4. \A k \in 1..n : k \in EntriesOf(r) <=> k > o[r] /\ k <= o[r + 1]
    <3> TAKE k \in 1..n
    <3>1. k <= o[r] <=> input.rows[k] < r BY <1>3, <2>1
    <3>2. k <= o[r + 1] <=> input.rows[k] < r + 1 BY <1>3, <2>1
    <3>3. k \in EntriesOf(r) <=> input.rows[k] = r BY DEF EntriesOf, n
    <3> QED BY <1>1, <1>2, <2>1, <2>2, <3>1, <3>2, <3>3
  <2>5. EntriesOf(r) \subseteq 1..n BY DEF EntriesOf, n
  <2>6. \A k \in o[r] + 1..o[r + 1] :
          k \in 1..n /\ k > o[r] /\ k <= o[r + 1]
    BY <1>1, <2>2
  <2>7. \A k \in 1..n : k > o[r] /\ k <= o[r + 1] => k \in o[r] + 1..o[r + 1]
    BY <2>2
  <2> QED BY <2>2, <2>3, <2>4, <2>5, <2>6, <2>7
<1> QED BY <1>1, <1>3, <1>4 DEF m, n, o

(* build_coo_row_offsets gives row r exactly the entries whose row index   *)
(* is r, whatever the arrays.                                              *)
THEOREM OffsetsDelimit == Spec => []OffsetsDelimitRows
<1>1. IInv => OffsetsDelimitRows
  <2> SUFFICES ASSUME IInv, Accepted, NEW r \in 0..input.m - 1
               PROVE  {k \in 1..Len(input.rows) :
                         k > output[2][r] /\ k <= output[2][r + 1]} = EntriesOf(r)
    BY DEF OffsetsDelimitRows
  <2> DEFINE lo == output[2][r]
             hi == output[2][r + 1]
             n == Len(input.rows)
  <2>1. n \in Nat /\ lo \in 0..n /\ hi \in 0..n /\ EntriesOf(r) = lo + 1..hi
    BY AcceptedOffsets
  <2> HIDE DEF lo, hi, n
  <2>2. {k \in 1..n : k > lo /\ k <= hi} = lo + 1..hi
    <3>1. \A k \in lo + 1..hi : k \in 1..n /\ k > lo /\ k <= hi BY <2>1
    <3>2. \A k \in 1..n : k > lo /\ k <= hi => k \in lo + 1..hi BY <2>1
    <3> QED BY <3>1, <3>2
  <2> QED BY <2>1, <2>2 DEF lo, hi, n
<1> QED BY <1>1, Evaluated, PTL

(* The scan refuses exactly the arrays with a row out of range or out of   *)
(* order.                                                                  *)
THEOREM ScanAccepts == Spec => []AcceptsExactlySorted
<1>1. IInv => AcceptsExactlySorted
  <2> SUFFICES ASSUME IInv, Returned("arrays")
               PROVE  Accepted <=> Sorted(input.rows, input.m)
    BY DEF AcceptsExactlySorted, Sorted
  <2>1. input \in CooArrays /\ output = Built(input)
    BY DEF IInv, Returned, InputsOf, Outcome
  <2>2. CASE Sorted(input.rows, input.m)
    <3>1. ScanRows(input.rows, input.m) = SUCCESS
      BY <2>1, <2>2, ArraysTyped, ScanIsSorted
    <3>2. output[1] = SUCCESS BY <2>1, <3>1 DEF Built, SUCCESS, INVALID
    <3> QED BY <2>2, <3>2 DEF Accepted
  <2>3. CASE ~ Sorted(input.rows, input.m)
    <3>1. ScanRows(input.rows, input.m) = INVALID
      BY <2>1, <2>3, ArraysTyped, ScanIsSorted
    <3>2. output = <<INVALID>> BY <2>1, <3>1 DEF Built
    <3> QED BY <2>3, <3>2 DEF Accepted, SUCCESS, INVALID
  <2> QED BY <2>2, <2>3
<1> QED BY <1>1, Evaluated, PTL

(* max_row_nnz is the number of entries of the largest row: no row has     *)
(* more, and some row has as many.                                         *)
THEOREM LongestRowFound == Spec => []LongestIsLargestRow
<1>1. IInv => LongestIsLargestRow
  <2> SUFFICES ASSUME IInv, Accepted
               PROVE  /\ \A r \in 0..input.m - 1 :
                           Cardinality(EntriesOf(r)) <= output[3]
                      /\ \E r \in 0..input.m - 1 :
                           Cardinality(EntriesOf(r)) = output[3]
    BY DEF LongestIsLargestRow
  <2> DEFINE m == input.m
             o == output[2]
             n == Len(input.rows)
  <2>1. /\ m \in Nat \ {0} /\ n \in Nat
        /\ o \in [0..m -> Nat]
        /\ \A r \in 0..m - 1 : /\ o[r] <= o[r + 1]
                               /\ EntriesOf(r) = o[r] + 1..o[r + 1]
    BY AcceptedOffsets
  <2>2. output[3] = LongestRun(o, m) BY AcceptedOutcome
  <2> HIDE DEF m, o, n
  <2>3. ASSUME NEW r \in 0..m - 1
        PROVE  Cardinality(EntriesOf(r)) = o[r + 1] - o[r]
    <3>1. o[r] \in Nat /\ o[r + 1] \in Nat /\ o[r] <= o[r + 1] BY <2>1
    <3>2. Cardinality(o[r] + 1..o[r + 1]) = o[r + 1] - o[r]
      BY <3>1, IntervalSize
    <3> QED BY <2>1, <3>2
  <2>4. \A r \in 1..m : o[r - 1] <= o[r]
    <3> TAKE r \in 1..m
    <3>1. r - 1 \in 0..m - 1 /\ (r - 1) + 1 = r BY <2>1
    <3> QED BY <2>1, <3>1
  <2>5. /\ \A r \in 1..m : o[r] - o[r - 1] <= output[3]
        /\ \E r \in 1..m : o[r] - o[r - 1] = output[3]
    BY <2>1, <2>2, <2>4, LongestRunIs
  <2>6. \A r \in 0..m - 1 : Cardinality(EntriesOf(r)) <= output[3]
    <3> TAKE r \in 0..m - 1
    <3>1. r + 1 \in 1..m /\ (r + 1) - 1 = r BY <2>1
    <3> QED BY <2>3, <2>5, <3>1
  <2>7. \E r \in 0..m - 1 : Cardinality(EntriesOf(r)) = output[3]
    <3>1. PICK r \in 1..m : o[r] - o[r - 1] = output[3] BY <2>5
    <3>2. r - 1 \in 0..m - 1 /\ (r - 1) + 1 = r BY <2>1
    <3> QED BY <2>3, <3>1, <3>2
  <2> QED BY <2>6, <2>7 DEF m
<1> QED BY <1>1, Evaluated, PTL

(* On a matrix that passes check_csr_columns_sorted, an entry at or past   *)
(* the diagonal is followed, in its row, by entries past it only, which is *)
(* why a scan may stop there.                                              *)
THEOREM ScanMayStop == Spec => []ScanStopsPastDependencies
<1>1. IInv => ScanStopsPastDependencies
  <2> SUFFICES ASSUME IInv, Accepted, output[4] = SUCCESS,
                      NEW r \in 0..input.m - 1,
                      NEW i \in EntriesOf(r), NEW j \in EntriesOf(r),
                      i < j, input.columns[i] >= r
               PROVE  input.columns[j] > r
    BY DEF ScanStopsPastDependencies
  <2> DEFINE m == input.m
             o == output[2]
             n == Len(input.rows)
             lo == o[r] + 1
             hi == o[r + 1]
  <2>1. /\ m \in Nat \ {0} /\ n \in Nat
        /\ o[r] \in 0..n /\ hi \in 0..n /\ EntriesOf(r) = lo..hi
    BY AcceptedOffsets
  <2>2. input.columns \in Seq(Int) /\ Len(input.columns) = n
    BY AcceptedOutcome, ArraysTyped
  <2>3. \A p \in o[r] .. hi - 1 :
          p > o[r] => input.columns[p + 1] > input.columns[p]
    <3>1. n # 0 BY <2>1
    <3>2. ColumnsSorted(o, input.columns, m, m) = SUCCESS BY AcceptedOutcome
    <3> HIDE DEF m, n, o
    <3> QED BY <2>1, <2>2, <3>1, <3>2 DEF ColumnsSorted, SUCCESS, INVALID, m
  <2> HIDE DEF m, n, o
  <2>4. \A k \in lo..hi : k \in 1..n /\ input.columns[k] \in Int BY <2>1, <2>2
  <2>5. \A k \in lo + 1..hi : input.columns[k - 1] < input.columns[k]
    <3> TAKE k \in lo + 1..hi
    <3>1. k - 1 \in o[r] .. hi - 1 /\ k - 1 > o[r] /\ (k - 1) + 1 = k BY <2>1
    <3>2. input.columns[(k - 1) + 1] > input.columns[k - 1] BY <2>3, <3>1
    <3>3. k \in lo..hi /\ k - 1 \in lo..hi BY <2>1
    <3>4. input.columns[k] \in Int /\ input.columns[k - 1] \in Int
      BY <2>4, <3>3
    <3> QED BY <3>1, <3>2, <3>4
  <2>6. lo \in Nat /\ hi \in Nat BY <2>1
  <2> HIDE DEF lo, hi
  <2>7. input.columns[i] < input.columns[j]
    BY <2>1, <2>4, <2>5, <2>6, StrictlyAscending
  <2>8. r \in Int /\ input.columns[i] \in Int /\ input.columns[j] \in Int
    BY <2>1, <2>4 DEF m
  <2> QED BY <2>7, <2>8
<1> QED BY <1>1, Evaluated, PTL

----------------------------------------------------------------------------
(* Quotients and places *)

LEMMA Division ==
  ASSUME NEW c \in Nat, NEW b \in Nat \ {0}
  PROVE  /\ c \div b \in Nat /\ c % b \in 0..b - 1
         /\ c = b * (c \div b) + (c % b)
<1> DEFINE q == c \div b
           l == c % b
<1>1. q \in Int /\ l \in 0..b - 1 /\ c = b * q + l OBVIOUS
<1> HIDE DEF q, l
<1>2. q >= 0
  <2> SUFFICES ASSUME q <= -1 PROVE FALSE BY <1>1
  <2>1. b * q <= -b BY <1>1
  <2> QED BY <1>1, <2>1
<1> QED BY <1>1, <1>2 DEF q, l

(* A number is a multiple of n and a remainder in one way.                 *)
LEMMA OneDivision ==
  ASSUME NEW n \in Nat \ {0}, NEW t \in Int, NEW u \in Int,
         NEW k \in 0..n - 1, NEW l \in 0..n - 1,
         t * n + k = u * n + l
  PROVE  t = u /\ k = l
<1>1. n * (t - u) = l - k OBVIOUS
<1>2. CASE t - u >= 1
  <2>1. n * (t - u) >= n BY <1>2
  <2> QED BY <1>1, <2>1
<1>3. CASE t - u <= -1
  <2>1. n * (t - u) <= -n BY <1>3
  <2> QED BY <1>1, <2>1
<1>4. CASE t = u BY <1>4
<1> QED BY <1>2, <1>3, <1>4

(* The block of an element is one of those that CeilDiv counts.            *)
LEMMA BlockOfElement ==
  ASSUME NEW n \in Nat, NEW c \in 0..n - 1, NEW b \in Nat \ {0}
  PROVE  c \div b \in 0..CeilDiv(n, b) - 1 /\ CeilDiv(n, b) \in Nat
<1> DEFINE q == c \div b
           h == n + b - 1
           p == h \div b
<1>1. q \in Nat /\ c % b \in 0..b - 1 /\ c = b * q + (c % b)
  <2>1. c \in Nat OBVIOUS
  <2> QED BY <2>1, Division
<1>2. h \in Nat OBVIOUS
<1> HIDE DEF h
<1>3. p \in Nat /\ h % b \in 0..b - 1 /\ h = b * p + (h % b) BY <1>2, Division
<1> HIDE DEF p, q
<1>4. p > q
  <2> SUFFICES ASSUME p <= q PROVE FALSE BY <1>1, <1>3
  <2>1. b * p <= b * q BY <1>1, <1>3
  <2> QED BY <1>1, <1>3, <2>1 DEF h
<1> QED BY <1>1, <1>3, <1>4 DEF CeilDiv, p, q, h

(* A launch over x rows and n columns pays each element one visit.         *)
LEMMA VisitsOf ==
  ASSUME NEW x \in Nat, NEW n \in Nat, NEW b \in Nat \ {0}
  PROVE  /\ \A v \in Visits(x, n, b) :
              /\ v[1] \in 0..x - 1 /\ v[3] \in 0..n - 1
              /\ v = <<v[1], v[3] \div b, v[3]>>
         /\ \A i \in 0..x - 1, c \in 0..n - 1 :
              <<i, c \div b, c>> \in Visits(x, n, b)
<1>1. ASSUME NEW v \in Visits(x, n, b)
      PROVE  /\ v[1] \in 0..x - 1 /\ v[3] \in 0..n - 1
             /\ v = <<v[1], v[3] \div b, v[3]>>
  <2>1. PICK g \in Programs(x, n, b) :
          v \in {<<g[1], g[2], c>> : c \in Slice(g[2], n, b)}
    BY DEF Visits
  <2>2. g[1] \in 0..x - 1 BY DEF Programs
  <2>3. PICK c \in Slice(g[2], n, b) : v = <<g[1], g[2], c>> BY <2>1
  <2>4. c \in 0..n - 1 /\ c \div b = g[2] BY DEF Slice
  <2> QED BY <2>2, <2>3, <2>4
<1>2. ASSUME NEW i \in 0..x - 1, NEW c \in 0..n - 1
      PROVE  <<i, c \div b, c>> \in Visits(x, n, b)
  <2> DEFINE g == <<i, c \div b>>
  <2>1. g \in Programs(x, n, b) BY BlockOfElement DEF Programs
  <2>2. c \in Slice(g[2], n, b) BY DEF Slice
  <2>3. <<g[1], g[2], c>> \in Visits(x, n, b) BY <2>1, <2>2 DEF Visits
  <2> QED BY <2>3
<1> QED BY <1>1, <1>2

LEMMA VisitsCount ==
  ASSUME NEW x \in Nat, NEW n \in Nat, NEW b \in Nat \ {0}
  PROVE  /\ IsFiniteSet(Visits(x, n, b))
         /\ Cardinality(Visits(x, n, b)) =
              Cardinality((0..x - 1) \X (0..n - 1))
<1> DEFINE S == (0..x - 1) \X (0..n - 1)
           f == [e \in S |-> <<e[1], e[2] \div b, e[2]>>]
           W == Visits(x, n, b)
<1>1. IsFiniteSet(S)
  <2>1. IsFiniteSet(0..x - 1) /\ IsFiniteSet(0..n - 1) BY FS_Interval
  <2> QED BY <2>1, FS_Product
<1>2. f \in [S -> W]
  <2> SUFFICES ASSUME NEW e \in S PROVE f[e] \in W OBVIOUS
  <2> QED BY VisitsOf
<1>3. \A d, e \in S : f[d] = f[e] => d = e
  <2> TAKE d, e \in S
  <2>1. /\ d = <<d[1], d[2]>> /\ f[d] = <<d[1], d[2] \div b, d[2]>>
        /\ e = <<e[1], e[2]>> /\ f[e] = <<e[1], e[2] \div b, e[2]>>
    OBVIOUS
  <2> HIDE DEF f
  <2> QED BY <2>1
<1>4. \A v \in W : \E e \in S : f[e] = v
  <2> TAKE v \in W
  <2>1. /\ v[1] \in 0..x - 1 /\ v[3] \in 0..n - 1
        /\ v = <<v[1], v[3] \div b, v[3]>>
    BY VisitsOf
  <2>2. <<v[1], v[3]>> \in S BY <2>1
  <2>3. f[<<v[1], v[3]>>] = <<v[1], v[3] \div b, v[3]>> BY <2>2
  <2> QED BY <2>1, <2>2, <2>3
<1> HIDE DEF f, S, W
<1>5. ExistsBijection(S, W)
  BY <1>2, <1>3, <1>4
  DEF ExistsBijection, Bijection, Injection, Surjection, IsInjective
<1> QED BY <1>1, <1>5, FS_Bijection DEF S, W

----------------------------------------------------------------------------
(* Dense operands *)

(* What validation has checked of operands whose launches the properties   *)
(* speak of.                                                               *)
LEMMA DenseOutcome ==
  ASSUME IInv, Dense
  PROVE  /\ input.m \in Nat /\ input.k \in Nat
         /\ input.B \in DnMat /\ input.C \in DnMat
         /\ input.trans \in BOOLEAN /\ input.unit \in {1, 2}
         /\ CreateDnMat(input.B) /\ CreateDnMat(input.C)
         /\ input.C.rows = input.m
         /\ OpRows(input.B, input.trans) = input.k
         /\ OpCols(input.B, input.trans) = input.C.cols
<1>1. input \in Operands BY DEF IInv, Dense, Returned, InputsOf
<1>2. Taken(input)
  <2> SUFFICES ASSUME ~ Taken(input) PROVE FALSE OBVIOUS
  <2>1. output = <<INVALID>> BY DEF IInv, Dense, Returned, Outcome
  <2> QED BY <2>1 DEF Dense, INVALID, SUCCESS
<1> QED BY <1>1, <1>2, HostAssumption DEF Taken, Validated

(* A place is the element's, its components side by side.                  *)
LEMMA PlaceOf ==
  ASSUME NEW D \in DnMat, NEW unit \in {1, 2}, NEW i \in Int, NEW c \in Int,
         NEW r \in Int
  PROVE  /\ Stored(D, i, c) \in Int
         /\ At(StridesOf(D), unit, i, c, r) = Stored(D, i, c) * unit + r
<1>1. D.ld \in Int /\ D.order \in {"ROW", "COL"} BY DEF DnMat
<1>2. CASE D.order = "ROW"
  <2>1. StridesOf(D) = [row |-> D.ld, col |-> 1] BY <1>2 DEF StridesOf
  <2>2. Stored(D, i, c) = i * D.ld + c BY <1>2 DEF Stored
  <2>3. (i * D.ld + c * 1) * unit + r = (i * D.ld + c) * unit + r BY <1>1
  <2> QED BY <1>1, <2>1, <2>2, <2>3 DEF At
<1>3. CASE D.order = "COL"
  <2>1. StridesOf(D) = [row |-> 1, col |-> D.ld] BY <1>3 DEF StridesOf
  <2>2. Stored(D, i, c) = c * D.ld + i BY <1>3 DEF Stored
  <2>3. (i * 1 + c * D.ld) * unit + r = (c * D.ld + i) * unit + r BY <1>1
  <2> QED BY <1>1, <2>1, <2>2, <2>3 DEF At
<1> QED BY <1>1, <1>2, <1>3

(* Swapping the strides swaps the indices.                                 *)
LEMMA OpPlaceOf ==
  ASSUME NEW D \in DnMat, NEW trans \in BOOLEAN, NEW unit \in {1, 2},
         NEW i \in Int, NEW c \in Int, NEW r \in Int
  PROVE  /\ OpStored(D, trans, i, c) \in Int
         /\ At(OpStrides(D, trans), unit, i, c, r) =
              OpStored(D, trans, i, c) * unit + r
<1>1. CASE ~trans BY <1>1, PlaceOf DEF OpStrides, OpStored
<1>2. CASE trans
  <2> DEFINE s == StridesOf(D)
             t == OpStrides(D, trans)
  <2>1. t.row = s.col /\ t.col = s.row BY <1>2 DEF OpStrides
  <2>2. s.row \in Int /\ s.col \in Int BY DEF StridesOf, DnMat
  <2> HIDE DEF s, t
  <2>3. i * t.row + c * t.col = c * s.row + i * s.col BY <2>1, <2>2
  <2>4. At(t, unit, i, c, r) = At(s, unit, c, i, r) BY <2>3 DEF At
  <2>5. OpStored(D, trans, i, c) = Stored(D, c, i) BY <1>2 DEF OpStored
  <2> QED BY <2>4, <2>5, PlaceOf DEF s, t
<1> QED BY <1>1, <1>2

(* The elements of a matrix that was created lie inside its extent, apart. *)
LEMMA StoredInside ==
  ASSUME NEW D \in DnMat, CreateDnMat(D),
         NEW i \in 0..D.rows - 1, NEW j \in 0..D.cols - 1
  PROVE  Stored(D, i, j) \in 0..Extent(D) - 1 /\ Extent(D) \in Nat
<1> DEFINE rows == D.rows
           cols == D.cols
           ld == D.ld
<1>1. /\ rows \in Nat \ {0} /\ cols \in Nat \ {0} /\ ld \in Nat
      /\ D.order \in {"ROW", "COL"}
  BY DEF DnMat, CreateDnMat
<1>2. Extent(D) = Stored(D, rows - 1, cols - 1) + 1 BY <1>1 DEF Extent
<1>3. i \in 0..rows - 1 /\ j \in 0..cols - 1 OBVIOUS
<1>4. CASE D.order = "ROW"
  <2>1. /\ Stored(D, i, j) = i * ld + j
        /\ Stored(D, rows - 1, cols - 1) = (rows - 1) * ld + (cols - 1)
    BY <1>4 DEF Stored
  <2> HIDE DEF rows, cols, ld
  <2>2. i * ld <= (rows - 1) * ld /\ i * ld \in Nat /\ (rows - 1) * ld \in Nat
    BY <1>1, <1>3
  <2> QED BY <1>1, <1>2, <1>3, <2>1, <2>2
<1>5. CASE D.order = "COL"
  <2>1. /\ Stored(D, i, j) = j * ld + i
        /\ Stored(D, rows - 1, cols - 1) = (cols - 1) * ld + (rows - 1)
    BY <1>5 DEF Stored
  <2> HIDE DEF rows, cols, ld
  <2>2. j * ld <= (cols - 1) * ld /\ j * ld \in Nat /\ (cols - 1) * ld \in Nat
    BY <1>1, <1>3
  <2> QED BY <1>1, <1>2, <1>3, <2>1, <2>2
<1> QED BY <1>1, <1>4, <1>5

LEMMA StoredApart ==
  ASSUME NEW D \in DnMat, CreateDnMat(D),
         NEW i \in 0..D.rows - 1, NEW j \in 0..D.cols - 1,
         NEW k \in 0..D.rows - 1, NEW l \in 0..D.cols - 1,
         Stored(D, i, j) = Stored(D, k, l)
  PROVE  i = k /\ j = l
<1>1. CASE D.order = "ROW"
  <2>1. i * D.ld + j = k * D.ld + l BY <1>1 DEF Stored
  <2>2. /\ D.ld \in Nat \ {0} /\ i \in Int /\ k \in Int
        /\ j \in 0..D.ld - 1 /\ l \in 0..D.ld - 1
    BY <1>1 DEF CreateDnMat, DnMat
  <2> QED BY <2>1, <2>2, OneDivision
<1>2. CASE D.order = "COL"
  <2>1. j * D.ld + i = l * D.ld + k BY <1>2 DEF Stored
  <2>2. /\ D.ld \in Nat \ {0} /\ j \in Int /\ l \in Int
        /\ i \in 0..D.ld - 1 /\ k \in 0..D.ld - 1
    BY <1>2 DEF CreateDnMat, DnMat
  <2> QED BY <2>1, <2>2, OneDivision
<1> QED BY <1>1, <1>2 DEF DnMat

(* Element (i, c) of op(B), for a row of op(B) and a column of C, is an    *)
(* element of B.                                                           *)
LEMMA OpInside ==
  ASSUME NEW D \in DnMat, CreateDnMat(D), NEW trans \in BOOLEAN,
         NEW i \in 0..OpRows(D, trans) - 1, NEW c \in 0..OpCols(D, trans) - 1
  PROVE  OpStored(D, trans, i, c) \in 0..Extent(D) - 1 /\ Extent(D) \in Nat
<1>1. CASE trans BY <1>1, StoredInside DEF OpStored, OpRows, OpCols
<1>2. CASE ~trans BY <1>2, StoredInside DEF OpStored, OpRows, OpCols
<1> QED BY <1>1, <1>2

(* An SpMM reads element (k, c) of op(B) where B keeps it, inside B.       *)
THEOREM ReadsWhatItShould == Spec => []ReadsOpOfB
<1>1. IInv => ReadsOpOfB
  <2> SUFFICES ASSUME IInv, Dense,
                      NEW k \in 0..input.k - 1, NEW c \in 0..input.C.cols - 1,
                      NEW r \in 0..input.unit - 1
               PROVE  LET at == At(OpStrides(input.B, input.trans), input.unit, k, c, r)
                      IN  /\ at = OpStored(input.B, input.trans, k, c) * input.unit + r
                          /\ at < Extent(input.B) * input.unit
    BY DEF ReadsOpOfB
  <2> DEFINE B == input.B
             t == input.trans
             u == input.unit
             p == OpStored(B, t, k, c)
             x == Extent(B)
  <2>1. /\ B \in DnMat /\ CreateDnMat(B) /\ t \in BOOLEAN /\ u \in {1, 2}
        /\ k \in 0..OpRows(B, t) - 1 /\ c \in 0..OpCols(B, t) - 1
    BY DenseOutcome
  <2>2. k \in Int /\ c \in Int /\ r \in 0..u - 1
    BY DenseOutcome DEF DnMat
  <2> HIDE DEF B, t, u
  <2>3. At(OpStrides(B, t), u, k, c, r) = p * u + r BY <2>1, <2>2, OpPlaceOf
  <2>4. p \in 0..x - 1 /\ x \in Nat BY <2>1, OpInside
  <2> HIDE DEF p, x
  <2>5. p * u + r < x * u BY <2>1, <2>2, <2>4
  <2> QED BY <2>3, <2>5 DEF p, x, B, t, u
<1> QED BY <1>1, Evaluated, PTL

(* A launch over C visits as many components as C has, each at the place   *)
(* of one element, and no two at the same place.                           *)
THEOREM WritesAreDisjoint == Spec => []WritesEachElementOnce
<1>1. IInv => WritesEachElementOnce
  <2> SUFFICES ASSUME IInv, Dense PROVE WritesEachElementOnce
    BY DEF WritesEachElementOnce
  <2> DEFINE C == input.C
             u == input.unit
             W == Visits(input.m, C.cols, kBlockN)
             visits == W \X (0..u - 1)
             Place(w) == At(StridesOf(C), u, w[1][1], w[1][3], w[2])
             At2(e, r) == Stored(C, e[1], e[2]) * u + r
  <2>1. /\ C \in DnMat /\ CreateDnMat(C) /\ u \in {1, 2}
        /\ C.rows \in Nat /\ C.cols \in Nat /\ input.m = C.rows
        /\ kBlockN \in Nat \ {0}
    BY DenseOutcome, DenseLaunchAssumption DEF DnMat, CreateDnMat
  <2> HIDE DEF C, u
  <2>2. /\ IsFiniteSet(W)
        /\ Cardinality(W) = Cardinality(Elements(C))
    <3> DEFINE S == (0..C.rows - 1) \X (0..C.cols - 1)
    <3>1. W = Visits(C.rows, C.cols, kBlockN) /\ Elements(C) = S
      BY <2>1 DEF Elements
    <3>2. /\ IsFiniteSet(Visits(C.rows, C.cols, kBlockN))
          /\ Cardinality(Visits(C.rows, C.cols, kBlockN)) = Cardinality(S)
      BY <2>1, VisitsCount
    <3> HIDE DEF W, S
    <3> QED BY <3>1, <3>2
  <2>3. IsFiniteSet(0..u - 1) /\ Cardinality(0..u - 1) = u
    <3>1. u - 1 \in Int /\ ~(0 > u - 1) /\ (u - 1) - 0 + 1 = u BY <2>1
    <3> QED BY <3>1, FS_Interval
  <2>4. Cardinality(visits) = u * Cardinality(Elements(C))
    <3>1. Cardinality(visits) = Cardinality(W) * Cardinality(0..u - 1)
      BY <2>2, <2>3, FS_Product
    <3>2. Cardinality(W) \in Nat BY <2>2, FS_CardinalityType
    <3> HIDE DEF W
    <3> QED BY <2>1, <2>2, <2>3, <3>1, <3>2
  <2>5. ASSUME NEW w \in visits
        PROVE  /\ w[1][1] \in 0..C.rows - 1 /\ w[1][3] \in 0..C.cols - 1
               /\ w[2] \in 0..u - 1
               /\ w = <<<<w[1][1], w[1][3] \div kBlockN, w[1][3]>>, w[2]>>
               /\ Stored(C, w[1][1], w[1][3]) \in Int
               /\ Place(w) = Stored(C, w[1][1], w[1][3]) * u + w[2]
    <3>1. w[1] \in W /\ w[2] \in 0..u - 1 /\ w = <<w[1], w[2]>> OBVIOUS
    <3> HIDE DEF W, visits
    <3>2. /\ w[1][1] \in 0..C.rows - 1 /\ w[1][3] \in 0..C.cols - 1
          /\ w[1] = <<w[1][1], w[1][3] \div kBlockN, w[1][3]>>
      BY <2>1, <3>1, VisitsOf DEF W
    <3>3. /\ Stored(C, w[1][1], w[1][3]) \in Int
          /\ Place(w) = Stored(C, w[1][1], w[1][3]) * u + w[2]
      <4>1. w[1][1] \in Int /\ w[1][3] \in Int /\ w[2] \in Int
        BY <2>1, <3>1, <3>2
      <4> QED BY <2>1, <4>1, PlaceOf
    <3>4. w = <<<<w[1][1], w[1][3] \div kBlockN, w[1][3]>>, w[2]>>
      BY <3>1, <3>2, Zenon
    <3> QED BY <3>1, <3>2, <3>3, <3>4
  <2>6. ASSUME NEW e \in Elements(C), NEW r \in 0..u - 1
        PROVE  \E w \in visits : Place(w) = At2(e, r)
    <3> DEFINE w == <<<<e[1], e[2] \div kBlockN, e[2]>>, r>>
    <3>1. /\ e[1] \in 0..C.rows - 1 /\ e[2] \in 0..C.cols - 1
          /\ e[1] \in Int /\ e[2] \in Int /\ r \in Int
      BY <2>1 DEF Elements
    <3>2. <<e[1], e[2] \div kBlockN, e[2]>> \in W BY <2>1, <3>1, VisitsOf
    <3>3. w \in visits BY <3>2
    <3>4. w[1][1] = e[1] /\ w[1][3] = e[2] /\ w[2] = r OBVIOUS
    <3> HIDE DEF w, visits
    <3>5. Place(w) = At2(e, r) BY <2>1, <3>1, <3>4, PlaceOf
    <3> QED BY <3>3, <3>5
  <2> HIDE DEF visits, Place, W
  <2>7. {Place(w) : w \in visits} =
          {At2(e, r) : e \in Elements(C), r \in 0..u - 1}
    <3>1. ASSUME NEW w \in visits
          PROVE  \E e \in Elements(C), r \in 0..u - 1 : Place(w) = At2(e, r)
      <4> DEFINE e == <<w[1][1], w[1][3]>>
      <4>1. e \in Elements(C) /\ e[1] = w[1][1] /\ e[2] = w[1][3]
        BY <2>5 DEF Elements
      <4>2. Place(w) = At2(e, w[2]) BY <2>5, <4>1
      <4>3. w[2] \in 0..u - 1 BY <2>5
      <4> HIDE DEF e
      <4> QED BY <4>1, <4>2, <4>3
    <3> HIDE DEF At2
    <3> QED BY <2>6, <3>1
  <2>8. \A v, w \in visits : v # w => Place(v) # Place(w)
    <3> SUFFICES ASSUME NEW v \in visits, NEW w \in visits,
                        Place(v) = Place(w)
                 PROVE  v = w
      OBVIOUS
    <3> DEFINE s == Stored(C, v[1][1], v[1][3])
               t == Stored(C, w[1][1], w[1][3])
    <3>1. /\ s \in Int /\ t \in Int /\ s * u + v[2] = t * u + w[2]
          /\ v[2] \in 0..u - 1 /\ w[2] \in 0..u - 1 /\ u \in Nat \ {0}
      BY <2>1, <2>5
    <3> HIDE DEF s, t
    <3>2. s = t /\ v[2] = w[2] BY <3>1, OneDivision
    <3>3. v[1][1] = w[1][1] /\ v[1][3] = w[1][3]
      BY <2>1, <2>5, <3>2, StoredApart DEF s, t
    <3>4. /\ v = <<<<v[1][1], v[1][3] \div kBlockN, v[1][3]>>, v[2]>>
          /\ w = <<<<w[1][1], w[1][3] \div kBlockN, w[1][3]>>, w[2]>>
      BY <2>5
    <3> QED BY <3>2, <3>3, <3>4, Zenon
  <2> QED BY <2>4, <2>7, <2>8 DEF WritesEachElementOnce, C, u, visits, Place, W
<1> QED BY <1>1, Evaluated, PTL

(* copy_dense moves each component of each element, and nothing else.      *)
MovesEach(moves, src, dst, unit, n, m) ==
  /\ \A x \in moves :
       \E i \in 0..n - 1, c \in 0..m - 1, r \in 0..unit - 1 :
         x = [to |-> At(dst, unit, i, c, r), from |-> At(src, unit, i, c, r)]
  /\ \A i \in 0..n - 1, c \in 0..m - 1, r \in 0..unit - 1 :
       [to |-> At(dst, unit, i, c, r), from |-> At(src, unit, i, c, r)] \in moves

LEMMA CopyOf ==
  ASSUME NEW src, NEW dst, NEW unit, NEW n \in Nat, NEW m \in Nat
  PROVE  MovesEach(CopyDense(src, dst, unit, n, m), src, dst, unit, n, m)
<1> DEFINE Move(i, c, r) ==
             [to |-> At(dst, unit, i, c, r), from |-> At(src, unit, i, c, r)]
           W == Visits(n, m, kBlockN)
<1>1. CopyDense(src, dst, unit, n, m) =
        {Move(v[1], v[3], r) : v \in W, r \in 0..unit - 1}
  BY DEF CopyDense
<1>2. /\ \A v \in W : v[1] \in 0..n - 1 /\ v[3] \in 0..m - 1
      /\ \A i \in 0..n - 1, c \in 0..m - 1 : <<i, c \div kBlockN, c>> \in W
  BY VisitsOf, DenseLaunchAssumption
<1> HIDE DEF Move, W
<1>3. \A x \in CopyDense(src, dst, unit, n, m) :
        \E i \in 0..n - 1, c \in 0..m - 1, r \in 0..unit - 1 : x = Move(i, c, r)
  BY <1>1, <1>2
<1>4. ASSUME NEW i \in 0..n - 1, NEW c \in 0..m - 1, NEW r \in 0..unit - 1
      PROVE  Move(i, c, r) \in CopyDense(src, dst, unit, n, m)
  <2> DEFINE v == <<i, c \div kBlockN, c>>
  <2>1. v \in W /\ v[1] = i /\ v[3] = c BY <1>2
  <2> HIDE DEF v
  <2> QED BY <1>1, <2>1
<1> QED BY <1>3, <1>4 DEF Move, MovesEach

(* The work array is packed: one place for each component of each element  *)
(* of n rows of m columns, and no other.                                   *)
PackedExactly(n, m, unit) ==
  /\ \A i \in 0..n - 1, c \in 0..m - 1, r \in 0..unit - 1 :
       At(Packed(m), unit, i, c, r) \in 0..n * m * unit - 1
  /\ \A i, j \in 0..n - 1, c, d \in 0..m - 1, q, r \in 0..unit - 1 :
       At(Packed(m), unit, i, c, q) = At(Packed(m), unit, j, d, r)
         => i = j /\ c = d /\ q = r
  /\ \A w \in 0..n * m * unit - 1 :
       \E i \in 0..n - 1, c \in 0..m - 1, r \in 0..unit - 1 :
         w = At(Packed(m), unit, i, c, r)

LEMMA PackedPlaces ==
  ASSUME NEW n \in Nat, NEW m \in Nat, NEW unit \in {1, 2}
  PROVE  PackedExactly(n, m, unit)
<1>1. \A i, c, r \in Int : At(Packed(m), unit, i, c, r) = (i * m + c) * unit + r
  BY DEF At, Packed
<1>2. ASSUME NEW i \in 0..n - 1, NEW c \in 0..m - 1, NEW r \in 0..unit - 1
      PROVE  (i * m + c) * unit + r \in 0..n * m * unit - 1
  <2>1. i * m <= (n - 1) * m /\ i * m \in Nat /\ n * m \in Nat OBVIOUS
  <2> DEFINE a == i * m + c
             b == n * m
  <2>2. a \in 0..b - 1 /\ b \in Nat BY <2>1
  <2> HIDE DEF a, b
  <2>3. a * unit + r \in 0..b * unit - 1 BY <2>2
  <2> QED BY <2>3 DEF a, b
<1>3. ASSUME NEW i \in 0..n - 1, NEW c \in 0..m - 1, NEW q \in 0..unit - 1,
             NEW j \in 0..n - 1, NEW d \in 0..m - 1, NEW r \in 0..unit - 1,
             (i * m + c) * unit + q = (j * m + d) * unit + r
      PROVE  i = j /\ c = d /\ q = r
  <2> DEFINE a == i * m + c
             b == j * m + d
  <2>1. a \in Int /\ b \in Int /\ unit \in Nat \ {0} /\ m \in Nat \ {0}
        /\ i \in Int /\ j \in Int
    OBVIOUS
  <2> HIDE DEF a, b
  <2>2. a = b /\ q = r BY <1>3, <2>1, OneDivision DEF a, b
  <2>3. i * m + c = j * m + d BY <2>2 DEF a, b
  <2>4. i = j /\ c = d BY <2>1, <2>3, OneDivision
  <2> QED BY <2>2, <2>4
<1>4. ASSUME NEW w \in 0..n * m * unit - 1
      PROVE  \E i \in 0..n - 1, c \in 0..m - 1, r \in 0..unit - 1 :
               w = (i * m + c) * unit + r
  <2> DEFINE b == n * m
  <2>1. b \in Nat /\ w \in 0..b * unit - 1 BY Z3
  <2> HIDE DEF b
  <2>2. PICK a \in 0..b - 1, r \in 0..unit - 1 : w = a * unit + r
    <3>1. CASE unit = 1
      <4>1. w \in 0..b - 1 /\ 0 \in 0..unit - 1 /\ w = w * unit + 0
        BY <2>1, <3>1
      <4> QED BY <4>1
    <3>2. CASE unit = 2
      <4>1. /\ w \div 2 \in 0..b - 1 /\ w % 2 \in 0..unit - 1
            /\ w = (w \div 2) * unit + (w % 2)
        BY <2>1, <3>2
      <4> QED BY <4>1
    <3> QED BY <3>1, <3>2
  <2>3. a \in Nat /\ m \in Nat \ {0}
    <3>1. CASE m = 0
      <4>1. b = 0 BY <3>1 DEF b
      <4> QED BY <4>1
    <3> QED BY <3>1
  <2> DEFINE i == a \div m
             c == a % m
  <2>4. i \in Nat /\ c \in 0..m - 1 /\ a = m * i + c BY <2>3, Division
  <2> HIDE DEF i, c
  <2>5. i \in 0..n - 1
    <3> SUFFICES ASSUME i >= n PROVE FALSE BY <2>4
    <3>1. m * i >= m * n BY <2>3, <2>4
    <3>2. b = m * n BY DEF b
    <3> QED BY <2>1, <2>3, <2>4, <3>1, <3>2
  <2>6. w = (i * m + c) * unit + r BY <2>2, <2>3, <2>4
  <2> QED BY <2>4, <2>5, <2>6
<1>5. /\ \A i \in 0..n - 1 : i \in Int
      /\ \A c \in 0..m - 1 : c \in Int
      /\ \A r \in 0..unit - 1 : r \in Int
  OBVIOUS
<1>6. \A i \in 0..n - 1, c \in 0..m - 1, r \in 0..unit - 1 :
        At(Packed(m), unit, i, c, r) = (i * m + c) * unit + r
  BY <1>1, <1>5
<1>7. \A i \in 0..n - 1, c \in 0..m - 1, r \in 0..unit - 1 :
        At(Packed(m), unit, i, c, r) \in 0..n * m * unit - 1
  BY <1>2, <1>6
<1>8. ASSUME NEW i \in 0..n - 1, NEW c \in 0..m - 1, NEW q \in 0..unit - 1,
             NEW j \in 0..n - 1, NEW d \in 0..m - 1, NEW r \in 0..unit - 1,
             At(Packed(m), unit, i, c, q) = At(Packed(m), unit, j, d, r)
      PROVE  i = j /\ c = d /\ q = r
  <2>1. (i * m + c) * unit + q = (j * m + d) * unit + r BY <1>6, <1>8
  <2> QED BY <1>3, <2>1
<1>9. ASSUME NEW w \in 0..n * m * unit - 1
      PROVE  \E i \in 0..n - 1, c \in 0..m - 1, r \in 0..unit - 1 :
               w = At(Packed(m), unit, i, c, r)
  <2>1. PICK i \in 0..n - 1, c \in 0..m - 1, r \in 0..unit - 1 :
          w = (i * m + c) * unit + r
    BY <1>4
  <2>2. w = At(Packed(m), unit, i, c, r) BY <1>6, <2>1
  <2> QED BY <2>2
<1> QED BY <1>7, <1>8, <1>9 DEF PackedExactly

(* The copies around an SpSM solve fill the work array exactly, and carry  *)
(* each element of op(B) to its element of C, whatever the orders, the     *)
(* leading dimensions and op.                                              *)
THEOREM WorkCarries == Spec => []WorkCarriesTheOperand
<1>1. IInv => WorkCarriesTheOperand
  <2> SUFFICES ASSUME IInv, Dense PROVE WorkCarriesTheOperand
    BY DEF WorkCarriesTheOperand
  <2> DEFINE B == input.B
             C == input.C
             t == input.trans
             u == input.unit
             n == C.rows
             m == C.cols
             in == CopyIn(B, C, t, u)
             out == CopyOut(B, C, t, u)
             P(i, c, r) == At(Packed(m), u, i, c, r)
             From(i, c, r) == OpStored(B, t, i, c) * u + r
             To(i, c, r) == Stored(C, i, c) * u + r
  <2>1. /\ B \in DnMat /\ C \in DnMat /\ CreateDnMat(C)
        /\ t \in BOOLEAN /\ u \in {1, 2} /\ n \in Nat /\ m \in Nat
        /\ input.m = n
    BY DenseOutcome DEF DnMat, CreateDnMat
  <2> HIDE DEF B, C, t, u
  <2>2. /\ \A x \in in :
             \E i \in 0..n - 1, c \in 0..m - 1, r \in 0..u - 1 :
               x = [to |-> P(i, c, r), from |-> From(i, c, r)]
        /\ \A i \in 0..n - 1, c \in 0..m - 1, r \in 0..u - 1 :
             [to |-> P(i, c, r), from |-> From(i, c, r)] \in in
    <3>1. \A i \in 0..n - 1, c \in 0..m - 1, r \in 0..u - 1 :
            At(OpStrides(B, t), u, i, c, r) = From(i, c, r)
      <4> TAKE i \in 0..n - 1, c \in 0..m - 1, r \in 0..u - 1
      <4>1. i \in Int /\ c \in Int /\ r \in Int BY <2>1
      <4> QED BY <2>1, <4>1, OpPlaceOf
    <3>2. in = CopyDense(OpStrides(B, t), Packed(m), u, n, m) BY DEF CopyIn
    <3> HIDE DEF in, From, P, n, m
    <3>3. MovesEach(in, OpStrides(B, t), Packed(m), u, n, m)
      BY <2>1, <3>2, CopyOf
    <3> QED BY <3>1, <3>3 DEF P, MovesEach
  <2>3. /\ \A x \in out :
             \E i \in 0..n - 1, c \in 0..m - 1, r \in 0..u - 1 :
               x = [to |-> To(i, c, r), from |-> P(i, c, r)]
        /\ \A i \in 0..n - 1, c \in 0..m - 1, r \in 0..u - 1 :
             [to |-> To(i, c, r), from |-> P(i, c, r)] \in out
    <3>1. \A i \in 0..n - 1, c \in 0..m - 1, r \in 0..u - 1 :
            At(StridesOf(C), u, i, c, r) = To(i, c, r)
      <4> TAKE i \in 0..n - 1, c \in 0..m - 1, r \in 0..u - 1
      <4>1. i \in Int /\ c \in Int /\ r \in Int BY <2>1
      <4> QED BY <2>1, <4>1, PlaceOf
    <3>2. out = CopyDense(Packed(m), StridesOf(C), u, n, m) BY DEF CopyOut
    <3> HIDE DEF out, To, P, n, m
    <3>3. MovesEach(out, Packed(m), StridesOf(C), u, n, m)
      BY <2>1, <3>2, CopyOf
    <3> QED BY <3>1, <3>3 DEF P, MovesEach
  <2>4. /\ \A i \in 0..n - 1, c \in 0..m - 1, r \in 0..u - 1 :
             P(i, c, r) \in 0..n * m * u - 1
        /\ \A i, j \in 0..n - 1, c, d \in 0..m - 1, q, r \in 0..u - 1 :
             P(i, c, q) = P(j, d, r) => i = j /\ c = d /\ q = r
        /\ \A w \in 0..n * m * u - 1 :
             \E i \in 0..n - 1, c \in 0..m - 1, r \in 0..u - 1 : w = P(i, c, r)
    <3>1. n \in Nat /\ m \in Nat /\ u \in {1, 2} BY <2>1
    <3> HIDE DEF n, m, P
    <3>2. PackedExactly(n, m, u) BY <3>1, PackedPlaces
    <3> QED BY <3>2 DEF PackedExactly, P
  <2>5. \A i, j \in 0..n - 1, c, d \in 0..m - 1, q, r \in 0..u - 1 :
          To(i, c, q) = To(j, d, r) => i = j /\ c = d /\ q = r
    <3> SUFFICES ASSUME NEW i \in 0..n - 1, NEW c \in 0..m - 1, NEW q \in 0..u - 1,
                        NEW j \in 0..n - 1, NEW d \in 0..m - 1, NEW r \in 0..u - 1,
                        To(i, c, q) = To(j, d, r)
                 PROVE  i = j /\ c = d /\ q = r
      OBVIOUS
    <3> DEFINE a == Stored(C, i, c)
               b == Stored(C, j, d)
    <3>1. a \in Int /\ b \in Int /\ u \in Nat \ {0}
      <4>1. i \in Int /\ c \in Int /\ j \in Int /\ d \in Int /\ 0 \in Int
        BY <2>1
      <4> QED BY <2>1, <4>1, PlaceOf
    <3>2. a * u + q = b * u + r OBVIOUS
    <3> HIDE DEF a, b
    <3>3. a = b /\ q = r BY <3>1, <3>2, OneDivision
    <3> QED BY <2>1, <3>3, StoredApart DEF a, b
  <2> HIDE DEF in, out, P, From, To
  <2>6. {x.to : x \in in} = 0..n * m * u - 1
    <3>1. ASSUME NEW x \in in PROVE x.to \in 0..n * m * u - 1
      <4>1. PICK i \in 0..n - 1, c \in 0..m - 1, r \in 0..u - 1 :
              x = [to |-> P(i, c, r), from |-> From(i, c, r)]
        BY <2>2
      <4>2. x.to = P(i, c, r) BY <4>1
      <4> QED BY <2>4, <4>2
    <3>2. ASSUME NEW w \in 0..n * m * u - 1 PROVE \E x \in in : x.to = w
      <4>1. PICK i \in 0..n - 1, c \in 0..m - 1, r \in 0..u - 1 : w = P(i, c, r)
        BY <2>4
      <4> DEFINE x == [to |-> P(i, c, r), from |-> From(i, c, r)]
      <4>2. x \in in /\ x.to = w BY <2>2, <4>1
      <4> QED BY <4>2
    <3> HIDE DEF n, m
    <3> QED BY <3>1, <3>2
  <2>7. ASSUME NEW i \in 0..n - 1, NEW c \in 0..m - 1, NEW r \in 0..u - 1
        PROVE  UNION {{z.from : z \in {y \in in : y.to = x.from}} :
                        x \in {y \in out : y.to = To(i, c, r)}} = {From(i, c, r)}
    <3> DEFINE o == [to |-> To(i, c, r), from |-> P(i, c, r)]
               e == [to |-> P(i, c, r), from |-> From(i, c, r)]
    <3>1. {y \in out : y.to = To(i, c, r)} = {o}
      <4>1. o \in out /\ o.to = To(i, c, r) BY <2>3
      <4>2. ASSUME NEW y \in out, y.to = To(i, c, r) PROVE y = o
        <5>1. PICK j \in 0..n - 1, d \in 0..m - 1, q \in 0..u - 1 :
                y = [to |-> To(j, d, q), from |-> P(j, d, q)]
          BY <2>3
        <5>2. To(j, d, q) = To(i, c, r) BY <4>2, <5>1
        <5>3. j = i /\ d = c /\ q = r BY <2>5, <5>2
        <5> QED BY <5>1, <5>3
      <4> HIDE DEF o
      <4> QED BY <4>1, <4>2
    <3>2. {y \in in : y.to = P(i, c, r)} = {e}
      <4>1. e \in in /\ e.to = P(i, c, r) BY <2>2
      <4>2. ASSUME NEW y \in in, y.to = P(i, c, r) PROVE y = e
        <5>1. PICK j \in 0..n - 1, d \in 0..m - 1, q \in 0..u - 1 :
                y = [to |-> P(j, d, q), from |-> From(j, d, q)]
          BY <2>2
        <5>2. P(j, d, q) = P(i, c, r) BY <4>2, <5>1
        <5>3. j = i /\ d = c /\ q = r BY <2>4, <5>2
        <5> QED BY <5>1, <5>3
      <4> HIDE DEF e
      <4> QED BY <4>1, <4>2
    <3>3. o.from = P(i, c, r) /\ e.from = From(i, c, r) OBVIOUS
    <3> HIDE DEF o, e
    <3>4. {z.from : z \in {y \in in : y.to = o.from}} = {From(i, c, r)}
      BY <3>2, <3>3
    <3> QED BY <3>1, <3>4
  <2>8. ASSUME NEW e \in Elements(C), NEW r \in 0..u - 1
        PROVE  UNION {{z.from : z \in {y \in in : y.to = x.from}} :
                        x \in {y \in out : y.to = Stored(C, e[1], e[2]) * u + r}}
                 = {OpStored(B, t, e[1], e[2]) * u + r}
    <3>1. e[1] \in 0..n - 1 /\ e[2] \in 0..m - 1 BY DEF Elements
    <3> HIDE DEF n, m
    <3> QED BY <2>7, <3>1 DEF To, From
  <2> QED BY <2>1, <2>6, <2>8
    DEF WorkCarriesTheOperand, in, out, B, C, t, u
<1> QED BY <1>1, Evaluated, PTL

----------------------------------------------------------------------------
(* How beta is applied *)

(* A launch over the elements of a vector visits each of them once.        *)
LEMMA VectorVisits ==
  ASSUME NEW n \in Nat, NEW y \in 0..n - 1
  PROVE  Cardinality({v \in Visits(1, n, kBlockN) : v[3] = y}) = 1
<1> DEFINE w == <<0, y \div kBlockN, y>>
           V == {v \in Visits(1, n, kBlockN) : v[3] = y}
<1>1. /\ \A v \in Visits(1, n, kBlockN) :
           v[1] \in 0..0 /\ v = <<v[1], v[3] \div kBlockN, v[3]>>
      /\ w \in Visits(1, n, kBlockN)
  <2> DEFINE x == 1
  <2>1. x \in Nat /\ 0 \in 0..x - 1 /\ \A i \in 0..x - 1 : i \in 0..0 OBVIOUS
  <2> HIDE DEF x
  <2>2. /\ \A v \in Visits(x, n, kBlockN) :
             v[1] \in 0..x - 1 /\ v = <<v[1], v[3] \div kBlockN, v[3]>>
        /\ w \in Visits(x, n, kBlockN)
    BY <2>1, VisitsOf, DenseLaunchAssumption
  <2> QED BY <2>1, <2>2 DEF x
<1>2. w[3] = y OBVIOUS
<1>3. \A v \in V : v = w
  <2> TAKE v \in V
  <2>1. v[1] = 0 /\ v[3] = y /\ v = <<v[1], v[3] \div kBlockN, v[3]>>
    BY <1>1
  <2> QED BY <2>1
<1> HIDE DEF w
<1>4. V = {w} BY <1>1, <1>2, <1>3
<1> QED BY <1>4, FS_Singleton

(* Each element of y is scaled by the launch before the product or by the  *)
(* product's own program for it, never by both, whatever the format, the   *)
(* direction and the number of entries.                                    *)
THEOREM BetaOnce == Spec => []BetaAppliedOnce
<1>1. IInv => BetaAppliedOnce
  <2> SUFFICES ASSUME IInv, kind = "beta", Takes(input, input.trans),
                      NEW y \in 0..YLen(input, input.trans) - 1
               PROVE  Cardinality({v \in Prologue(input, input.trans) : v[3] = y})
                        + (IF y \in InKernel(input, input.trans) THEN 1 ELSE 0) = 1
    BY DEF BetaAppliedOnce, Returned
  <2> DEFINE A == input
             t == input.trans
             n == YLen(A, t)
  <2>1. /\ A.format \in {"CSR", "COO", "CSC", "BSR"} /\ A.rows \in Nat
        /\ A.cols \in Nat /\ A.block_dim \in Nat \ {0} /\ t \in BOOLEAN
    BY HostAssumption DEF IInv, InputsOf
  <2> HIDE DEF A, t
  <2>2. CASE A.format = "BSR" \/ (A.format = "CSC" /\ ~t)
    <3>1. Prologue(A, t) = Visits(1, n, kBlockN) BY <2>2 DEF Prologue
    <3>2. InKernel(A, t) = {} BY <2>2 DEF InKernel
    <3>3. n \in Nat
      <4>1. A.format = "BSR" => A.block_dim * A.cols \in Nat /\ A.block_dim * A.rows \in Nat
        BY <2>1
      <4>2. A.format # "BSR" => BlockDim(A) = 1 BY DEF BlockDim
      <4> QED BY <2>1, <4>1, <4>2 DEF YLen, BlockDim
    <3>4. y \in 0..n - 1 BY DEF A, t
    <3> HIDE DEF n
    <3>5. Cardinality({v \in Visits(1, n, kBlockN) : v[3] = y}) = 1
      BY <3>3, <3>4, VectorVisits
    <3> QED BY <3>1, <3>2, <3>5 DEF A, t
  <2>3. CASE ~(A.format = "BSR" \/ (A.format = "CSC" /\ ~t))
    <3>1. Prologue(A, t) = {} BY <2>3 DEF Prologue
    <3>2. {v \in Prologue(A, t) : v[3] = y} = {} BY <3>1
    <3>3. BlockDim(A) = 1 BY <2>3 DEF BlockDim
    <3>4. Takes(A, t) /\ y \in 0..YLen(A, t) - 1 BY DEF A, t
    <3>5. y \in InKernel(A, t)
      BY <2>1, <2>3, <3>3, <3>4 DEF InKernel, Takes, YLen
    <3> QED BY <3>2, <3>5, FS_EmptySet DEF A, t
  <2> QED BY <2>2, <2>3
<1> QED BY <1>1, Evaluated, PTL

----------------------------------------------------------------------------
(* The size of a launch *)

LEMMA LargestWarps ==
  ASSUME NEW S \in SUBSET {1, 2, 4, 8, 16}, 1 \in S
  PROVE  LargestOf(S) \in S
<1>1. \E x \in S : \A y \in S : y <= x
  <2>1. CASE 16 \in S BY <2>1
  <2>2. CASE 16 \notin S /\ 8 \in S BY <2>2
  <2>3. CASE 16 \notin S /\ 8 \notin S /\ 4 \in S BY <2>3
  <2>4. CASE 16 \notin S /\ 8 \notin S /\ 4 \notin S /\ 2 \in S BY <2>4
  <2>5. CASE 16 \notin S /\ 8 \notin S /\ 4 \notin S /\ 2 \notin S BY <2>5
  <2> QED BY <2>1, <2>2, <2>3, <2>4, <2>5
<1> QED BY <1>1 DEF LargestOf

LEMMA LeastOfTwo ==
  ASSUME NEW a \in Int, NEW b \in Int
  PROVE  /\ LeastOf({a, b}) \in {a, b}
         /\ LeastOf({a, b}) <= a /\ LeastOf({a, b}) <= b
<1>1. \E x \in {a, b} : \A y \in {a, b} : x <= y
  <2>1. CASE a <= b BY <2>1
  <2>2. CASE b <= a BY <2>2
  <2> QED BY <2>1, <2>2
<1> QED BY <1>1 DEF LeastOf

LEMMA LeastOfThree ==
  ASSUME NEW a \in Int, NEW b \in Int, NEW c \in Int
  PROVE  /\ LeastOf({a, b, c}) \in {a, b, c}
         /\ LeastOf({a, b, c}) <= b /\ LeastOf({a, b, c}) <= c
<1>1. \E x \in {a, b, c} : \A y \in {a, b, c} : x <= y
  <2>1. CASE a <= b /\ a <= c BY <2>1
  <2>2. CASE b <= a /\ b <= c BY <2>2
  <2>3. CASE c <= a /\ c <= b BY <2>3
  <2> QED BY <2>1, <2>2, <2>3
<1> QED BY <1>1 DEF LeastOf

LEMMA BlockSizes ==
  ASSUME NEW n \in Nat
  PROVE  /\ WarpSize(n) \in {4, 8, 16, 32}
         /\ WarpSize(n) * Factor(n) \in {4, 8, 16, 32, 64, 128}
<1> DEFINE S == {w \in {4, 8, 16} : n <= w} \cup {32}
<1>1. \E x \in S : \A y \in S : x <= y
  <2>1. CASE n <= 4
    <3>1. 4 \in S /\ \A y \in S : 4 <= y BY <2>1
    <3> QED BY <3>1
  <2>2. CASE ~(n <= 4) /\ n <= 8
    <3>1. 8 \in S /\ \A y \in S : 8 <= y BY <2>2
    <3> QED BY <3>1
  <2>3. CASE ~(n <= 8) /\ n <= 16
    <3>1. 16 \in S /\ \A y \in S : 16 <= y BY <2>3
    <3> QED BY <3>1
  <2>4. CASE ~(n <= 16)
    <3>1. 32 \in S /\ \A y \in S : 32 <= y BY <2>4
    <3> QED BY <3>1
  <2> QED BY <2>1, <2>2, <2>3, <2>4
<1>2. WarpSize(n) \in S /\ \A y \in S : WarpSize(n) <= y
  BY <1>1 DEF WarpSize, LeastOf
<1>3. WarpSize(n) \in {4, 8, 16, 32} BY <1>2
<1>4. Factor(n) \in {1, 2, 4} BY DEF Factor
<1> QED BY <1>3, <1>4

LEMMA ClippedWarps ==
  ASSUME NEW desired, NEW dev \in Device
  PROVE  LET num_warps == ClipNumWarps(desired, dev)
         IN  /\ num_warps \in {1, 2, 4, 8, 16}
             /\ num_warps * dev.warp <= 1024
             /\ num_warps > 1 => num_warps * dev.warp <= dev.threads
<1> DEFINE warp == dev.warp
           a == 1024 \div warp
           b == dev.threads \div warp
           cap == LeastOf({16, AtLeastOne(a), AtLeastOne(b)})
           S == {1} \cup {w \in {1, 2, 4, 8, 16} : w <= cap /\ w <= AtLeastOne(desired)}
           num_warps == ClipNumWarps(desired, dev)
<1>1. warp \in Pow2 /\ dev.threads \in Int BY DEF Device
<1>2. AtLeastOne(warp) = warp /\ warp \in Nat \ {0} BY <1>1 DEF AtLeastOne, Pow2
<1>3. a \in Nat \ {0} /\ a * warp <= 1024 BY <1>1 DEF Pow2
<1>4. b \in Int /\ b * warp <= dev.threads
  <2> DEFINE h == dev.threads
             l == h % warp
  <2>1. h \in Int BY <1>1
  <2> HIDE DEF h, warp
  <2>2. h \div warp \in Int /\ l \in 0..warp - 1 /\ h = warp * (h \div warp) + l
    BY <1>2, <2>1
  <2> HIDE DEF l
  <2> QED BY <1>2, <2>1, <2>2 DEF h
<1>5. num_warps = LargestOf(S) BY <1>2 DEF ClipNumWarps
<1>6. cap \in Int /\ cap <= AtLeastOne(a) /\ cap <= AtLeastOne(b)
  <2>1. AtLeastOne(a) \in Int /\ AtLeastOne(b) \in Int
    BY <1>3, <1>4 DEF AtLeastOne
  <2> DEFINE c == AtLeastOne(a)
             d == AtLeastOne(b)
  <2> HIDE DEF c, d
  <2>2. c \in Int /\ d \in Int BY <2>1 DEF c, d
  <2>3. LET l == LeastOf({16, c, d})
        IN  l \in {16, c, d} /\ l <= c /\ l <= d
    BY <2>2, LeastOfThree
  <2> QED BY <2>2, <2>3 DEF c, d
<1>7. S \in SUBSET {1, 2, 4, 8, 16} /\ 1 \in S OBVIOUS
<1>8. \A w \in S : w = 1 \/ w <= cap OBVIOUS
<1> HIDE DEF S, num_warps, cap, a, b, warp
<1>9. num_warps \in S BY <1>5, <1>7, LargestWarps
<1>10. num_warps \in {1, 2, 4, 8, 16} BY <1>7, <1>9
<1>11. num_warps <= a
  <2>1. num_warps = 1 \/ num_warps <= cap BY <1>8, <1>9
  <2> QED BY <1>3, <1>6, <1>10, <2>1 DEF AtLeastOne
<1>12. num_warps > 1 => num_warps <= b
  <2>1. num_warps = 1 \/ num_warps <= cap BY <1>8, <1>9
  <2> QED BY <1>4, <1>6, <1>10, <2>1 DEF AtLeastOne
<1>13. num_warps * warp <= a * warp BY <1>2, <1>3, <1>10, <1>11
<1>14. num_warps > 1 => num_warps * warp <= b * warp
  BY <1>2, <1>4, <1>10, <1>12
<1>15. num_warps * warp \in Int /\ a * warp \in Int /\ b * warp \in Int
  BY <1>2, <1>3, <1>4, <1>10
<1> QED BY <1>1, <1>3, <1>4, <1>10, <1>13, <1>14, <1>15 DEF num_warps, warp

(* The launches of SpMM fit the block and the multiprocessor, and their    *)
(* sizes are powers of two.  The COO launch is why a warp has to be one:   *)
(* its warps are what the columns of a block hold of them.                 *)
THEOREM LaunchesFit == Spec => []FitsTheDevice
<1>1. IInv => FitsTheDevice
  <2> SUFFICES ASSUME IInv, kind = "size" PROVE FitsTheDevice
    BY DEF FitsTheDevice, Returned
  <2> DEFINE csr == ResolveLaunch(input.n, input.longest, input.wide, input.dev)
             coo == ResolveCooLaunch(input.n, input.dev)
             warp == input.dev.warp
             block == WarpSize(input.n) * Factor(input.n)
  <2>1. input.n \in Nat /\ input.dev \in Device
    BY HostAssumption DEF IInv, InputsOf
  <2>2. warp \in Pow2 /\ AtLeastOne(warp) = warp
    BY <2>1 DEF Device, Pow2, AtLeastOne
  <2>3. WarpSize(input.n) \in {4, 8, 16, 32} /\ block \in {4, 8, 16, 32, 64, 128}
    BY <2>1, BlockSizes
  <2>4. /\ csr.block_n = block /\ csr.block_nnz = WarpSize(input.n)
        /\ csr.num_warps \in {1, 2, 4, 8, 16}
        /\ csr.num_warps * warp <= 1024
        /\ csr.num_warps > 1 => csr.num_warps * warp <= input.dev.threads
    BY <2>1, ClippedWarps DEF ResolveLaunch
  <2>5. /\ coo.block_n = block /\ coo.block_nnz = 4
        /\ coo.num_warps = AtLeastOne(block \div warp)
    BY <2>2 DEF ResolveCooLaunch
  <2> HIDE DEF csr, coo, warp, block
  <2>6. /\ coo.num_warps \in Pow2
        /\ coo.num_warps > 1 => coo.num_warps * warp <= block
    <3>1. CASE block = 4 BY <2>2, <2>5, <3>1 DEF Pow2, AtLeastOne
    <3>2. CASE block = 8 BY <2>2, <2>5, <3>2 DEF Pow2, AtLeastOne
    <3>3. CASE block = 16 BY <2>2, <2>5, <3>3 DEF Pow2, AtLeastOne
    <3>4. CASE block = 32 BY <2>2, <2>5, <3>4 DEF Pow2, AtLeastOne
    <3>5. CASE block = 64 BY <2>2, <2>5, <3>5 DEF Pow2, AtLeastOne
    <3>6. CASE block = 128 BY <2>2, <2>5, <3>6 DEF Pow2, AtLeastOne
    <3> QED BY <2>3, <3>1, <3>2, <3>3, <3>4, <3>5, <3>6
  <2>7. {csr.block_n, csr.block_nnz, csr.num_warps,
         coo.block_n, coo.block_nnz, coo.num_warps} \subseteq Pow2
    BY <2>3, <2>4, <2>5, <2>6 DEF Pow2
  <2> QED BY <2>2, <2>4, <2>5, <2>6, <2>7 DEF FitsTheDevice, csr, coo, warp
<1> QED BY <1>1, Evaluated, PTL

----------------------------------------------------------------------------
(* Gather and scatter *)

LEMMA GridOf ==
  ASSUME NEW nnz \in Nat \ {0}, NEW dev \in Device
  PROVE  GatherGrid(nnz, dev) \in Nat \ {0} /\ Tiles(nnz) \in Nat
<1> DEFINE q == dev.threads \div AtLeastOne(kNumWarps * dev.warp)
<1>1. Tiles(nnz) \in Nat \ {0}
  <2>1. 0 \in 0..nnz - 1 /\ kBlockSize \in Nat \ {0}
    BY DenseLaunchAssumption
  <2>2. 0 \div kBlockSize \in 0..Tiles(nnz) - 1 /\ Tiles(nnz) \in Nat
    BY <2>1, BlockOfElement DEF Tiles
  <2> QED BY <2>2
<1>2. dev.warp \in Pow2 /\ dev.threads \in Int /\ dev.sm \in Int BY DEF Device
<1>3. q \in Int
  <2>1. AtLeastOne(kNumWarps * dev.warp) \in Nat \ {0}
    BY <1>2 DEF AtLeastOne, kNumWarps, Pow2
  <2> QED BY <1>2, <2>1
<1>4. GatherMaxPrograms(dev) =
        IF dev.sm <= 0 THEN 1024 ELSE AtLeastOne(dev.sm * AtLeastOne(q))
  BY <1>2 DEF GatherMaxPrograms, Pow2
<1> HIDE DEF q
<1>5. GatherMaxPrograms(dev) \in Nat \ {0}
  <2>1. dev.sm * AtLeastOne(q) \in Int BY <1>2, <1>3 DEF AtLeastOne
  <2> QED BY <1>4, <2>1 DEF AtLeastOne
<1>6. GatherGrid(nnz, dev) \in {Tiles(nnz), GatherMaxPrograms(dev)}
  BY <1>1, <1>5, LeastOfTwo DEF GatherGrid
<1> QED BY <1>1, <1>5, <1>6

(* Of g programs, p alone visits entry i.                                  *)
OnlyVisits(S, g, n, i, p) ==
  /\ S \subseteq (0..g - 1) \X (0..n - 1)
  /\ \A v \in (0..g - 1) \X (0..n - 1) : v[2] = i => (v \in S <=> v[1] = p)

LEMMA OneVisit ==
  ASSUME NEW S, NEW g \in Nat, NEW n \in Nat, NEW i \in 0..n - 1,
         NEW p \in 0..g - 1, OnlyVisits(S, g, n, i, p)
  PROVE  Cardinality({v \in S : v[2] = i}) = 1
<1> DEFINE w == <<p, i>>
           V == {v \in S : v[2] = i}
<1>1. w \in V BY DEF OnlyVisits
<1>2. \A v \in V : v = w
  <2> TAKE v \in V
  <2>1. v \in (0..g - 1) \X (0..n - 1) /\ v[2] = i /\ v[1] = p
    BY DEF OnlyVisits
  <2> QED BY <2>1
<1> HIDE DEF w, V
<1>3. V = {w} BY <1>1, <1>2
<1>4. Cardinality(V) = 1 BY <1>3, FS_Singleton
<1> QED BY <1>4 DEF V

(* Every entry of the sparse vector has one program that visits it, also   *)
(* where gather's grid is capped.                                          *)
THEOREM EveryEntryOnce == Spec => []EntriesVisitedOnce
<1>1. IInv => EntriesVisitedOnce
  <2> SUFFICES ASSUME IInv, kind = "gather", NEW i \in 0..input.nnz - 1
               PROVE
      /\ Cardinality({v \in GatherVisits(input.nnz, input.dev) : v[2] = i}) = 1
      /\ Cardinality({v \in ScatterVisits(input.nnz, input.dev) : v[2] = i}) = 1
    BY DEF EntriesVisitedOnce, Returned
  <2> DEFINE n == input.nnz
             dev == input.dev
             g == GatherGrid(n, dev)
             s == ScatterGrid(n, dev)
             q == i \div kBlockSize
  <2>1. n \in Nat \ {0} /\ dev \in Device /\ i \in 0..n - 1
    BY HostAssumption DEF IInv, InputsOf
  <2> HIDE DEF n, dev
  <2>2. g \in Nat \ {0} /\ s \in Nat BY <2>1, GridOf DEF ScatterGrid
  <2>3. q \in 0..s - 1
    BY <2>1, BlockOfElement, DenseLaunchAssumption DEF ScatterGrid, Tiles
  <2>4. q % g \in 0..g - 1
    <3> HIDE DEF q, g
    <3>1. q \in Int BY <2>2, <2>3
    <3> QED BY <2>2, <3>1
  <2>5. Cardinality({v \in GatherVisits(n, dev) : v[2] = i}) = 1
    <3> DEFINE S == GatherVisits(n, dev)
               p == q % g
    <3>1. OnlyVisits(S, g, n, i, p) BY DEF GatherVisits, OnlyVisits
    <3>2. p \in 0..g - 1 /\ g \in Nat BY <2>2, <2>4
    <3> HIDE DEF S, p, g
    <3> QED BY <2>1, <3>1, <3>2, OneVisit DEF S
  <2>6. Cardinality({v \in ScatterVisits(n, dev) : v[2] = i}) = 1
    <3> DEFINE S == ScatterVisits(n, dev)
    <3>1. OnlyVisits(S, s, n, i, q) BY DEF ScatterVisits, OnlyVisits
    <3> HIDE DEF S, s, q
    <3> QED BY <2>1, <2>2, <2>3, <3>1, OneVisit DEF S
  <2> QED BY <2>5, <2>6 DEF n, dev
<1> QED BY <1>1, Evaluated, PTL
=============================================================================
