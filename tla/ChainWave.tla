----------------------------- MODULE ChainWave -----------------------------
(***************************************************************************)
(* One launch of the chain-wave kernels that solve a triangular system     *)
(* (src/ops/spsv.cpp solve and solve_sell, src/flagsparse_codegen/spsv.py). *)
(* A grid of worker programs takes units of rows from one atomic counter;  *)
(* a program spins on the ready flag of every row its row depends on, then *)
(* stores the row's value and sets the row's own flag.  The device keeps   *)
(* only some of the programs resident at a time and starts another when    *)
(* one exits, in any order.                                                *)
(*                                                                         *)
(* The dispatch is the repository's; the kernels come from the flagsparse  *)
(* Python package and are modelled from the contract the repository states *)
(* for them.  A definition whose comment begins "Slip" is a mistake the    *)
(* code could have made; nothing uses it.                                  *)
(***************************************************************************)
EXTENDS TriangularSystems, FiniteSets

CONSTANTS
  DeviceMax,  \* programs the dispatch believes the device holds at once
  MaxWorkers, \* kMaxWorkers, the width past which a launch gains nothing
  Resident    \* programs the device really keeps resident

ASSUME ChainWaveAssumption ==
  /\ DeviceMax \in Nat \ {0}
  /\ MaxWorkers \in Nat \ {0}
  /\ Resident \in Nat \ {0}

VARIABLES
  A,        \* the system the launch solves
  counter,  \* row_counter
  ready,    \* ready[r]: row r's flag
  value,    \* value[r]: row r's value has been stored
  got,      \* got[r]: rows whose value row r has read
  pc,       \* pc[w]: where program w is
  unit      \* unit[w]: the unit program w holds

vars == <<A, counter, ready, value, got, pc, unit>>

Lesser(x, y) == IF x < y THEN x ELSE y

(* resolve_worker_count of the units to hand out.                          *)
WorkerCount(n) ==
  LET k == Lesser(n, Lesser(DeviceMax, MaxWorkers)) IN IF k < 1 THEN 1 ELSE k

Programs == 1..MaxWorkers
Grid == 1..WorkerCount(Units(A))

(* The solve clears the flags and the counter, then launches.              *)
Init ==
  /\ A \in Accepted
  /\ counter = 0
  /\ ready = [r \in Rows |-> FALSE]
  /\ value = [r \in Rows |-> FALSE]
  /\ got = [r \in Rows |-> {}]
  /\ pc = [w \in Programs |-> "waiting"]
  /\ unit = [w \in Programs |-> 0]

IsResident(w) == pc[w] \in {"claiming", "solving"}

Start(w) ==
  /\ pc[w] = "waiting"
  /\ Cardinality({v \in Grid : IsResident(v)}) < Resident
  /\ pc' = [pc EXCEPT ![w] = "claiming"]
  /\ UNCHANGED <<A, counter, ready, value, got, unit>>

(* Slip: two programs read the counter before either writes it back.       *)
RacyAdd == counter' \in {counter, counter + 1}

AtomicAdd == counter' = counter + 1
Fetched == counter

(* atomic_add on the counter, which returns the value it found; a program  *)
(* that gets none of the units exits.                                      *)
Claim(w) ==
  /\ pc[w] = "claiming"
  /\ AtomicAdd
  /\ IF counter < Units(A)
     THEN /\ pc' = [pc EXCEPT ![w] = "solving"]
          /\ unit' = [unit EXCEPT ![w] = Fetched]
     ELSE /\ pc' = [pc EXCEPT ![w] = "exited"]
          /\ UNCHANGED unit
  /\ UNCHANGED <<A, ready, value, got>>

Solving(w, r) == pc[w] = "solving" /\ unit[w] = UnitOf(A, r)

(* The spin on row c's flag ends and its value is read.                    *)
Read(w, r, c) ==
  /\ Solving(w, r)
  /\ c \in Consumed(A, r) \ got[r]
  /\ ready[c]
  /\ got' = [got EXCEPT ![r] = @ \cup {c}]
  /\ UNCHANGED <<A, counter, ready, value, pc, unit>>

Store(w, r) ==
  /\ Solving(w, r)
  /\ ~value[r]
  /\ got[r] = Consumed(A, r)
  /\ value' = [value EXCEPT ![r] = TRUE]
  /\ UNCHANGED <<A, counter, ready, got, pc, unit>>

Publish(w, r) ==
  /\ Solving(w, r)
  /\ value[r] /\ ~ready[r]
  /\ ready' = [ready EXCEPT ![r] = TRUE]
  /\ UNCHANGED <<A, counter, value, got, pc, unit>>

(* Every row of the unit is published: back to the counter.                *)
Finish(w) ==
  /\ pc[w] = "solving"
  /\ \A r \in Rows : UnitOf(A, r) = unit[w] => ready[r]
  /\ pc' = [pc EXCEPT ![w] = "claiming"]
  /\ UNCHANGED <<A, counter, ready, value, got, unit>>

Step(w) ==
  \/ Claim(w)
  \/ \E r, c \in Rows : Read(w, r, c)
  \/ \E r \in Rows : Store(w, r)
  \/ \E r \in Rows : Publish(w, r)
  \/ Finish(w)

Over == \A w \in Grid : pc[w] = "exited"
Ended == Over /\ UNCHANGED vars

Next ==
  \/ \E w \in Grid : Start(w)
  \/ \E w \in Grid : Step(w)
  \/ Ended

Safety == Init /\ [][Next]_vars

(* The device runs every program it keeps resident and fills a place that  *)
(* becomes free; a spinning program is not promised an end.                *)
Fairness ==
  /\ \A w \in Programs : WF_vars(w \in Grid /\ Step(w))
  /\ WF_vars(\E w \in Grid : Start(w))

Spec == Safety /\ Fairness

----------------------------------------------------------------------------
TypeOK ==
  /\ A \in Accepted
  /\ counter \in Nat
  /\ ready \in [Rows -> BOOLEAN]
  /\ value \in [Rows -> BOOLEAN]
  /\ got \in [Rows -> SUBSET Rows]
  /\ pc \in [Programs -> {"waiting", "claiming", "solving", "exited"}]
  /\ unit \in [Programs -> Nat]

(* "a program only ever waits on rows with a LOWER logical index and those *)
(* can only have been claimed by a program that already ran its            *)
(* atomic_add, i.e. a resident one" (src/ops/spsv.cpp): whatever row a     *)
(* program may spin on is published, or in the hands of a resident one.    *)
WaitsOnlyOnResident ==
  \A w \in Grid, r \in Rows : Solving(w, r) =>
    \A c \in Triangle(A, r) : ready[c] \/ \E v \in Grid : Solving(v, c)

(* No unit is handed to two programs, so that no row is written twice.     *)
HeldByOne ==
  \A v, w \in Programs :
    pc[v] = "solving" /\ pc[w] = "solving" /\ unit[v] = unit[w] => v = w

(* A published value was computed from every entry of the row's triangle,  *)
(* each from a row published before: no term is dropped by a scan that     *)
(* stops early (src/ops/spsv.cpp analysis and solve, SCAN_BACKWARD).       *)
NoTermDropped ==
  \A r \in Rows : ready[r] =>
    /\ value[r] /\ got[r] = Triangle(A, r)
    /\ \A c \in got[r] : ready[c]

(* When the last program exits, every row has been solved: the counter     *)
(* never runs past a unit nobody holds (solve_sell's units and workers).   *)
CompleteAtExit == Over => \A r \in Rows : ready[r]

(* The launch ends, however few of its programs are resident and however   *)
(* long the chain of dependencies: spinning programs never starve the one  *)
(* they wait for.                                                          *)
Terminates == <>Over

(* The launch computes what a triangular solve promises.                   *)
Abs == INSTANCE TriangularSolve
         WITH Given <- Accepted,
              solved <- {r \in Rows : ready[r]},
              from <- [r \in Rows |-> IF ready[r] THEN got[r] ELSE {}]
RefinesSolve == Abs!Spec
=============================================================================
