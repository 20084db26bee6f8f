---------------------------- MODULE PollingSolve ----------------------------
(***************************************************************************)
(* One launch of the polling kernel that solves a triangular system for    *)
(* several right-hand sides (src/ops/spsm.cpp solve,                       *)
(* src/flagsparse_codegen/spsm.py).  There is no pool of workers as in     *)
(* ChainWave: the grid has one block for each row and each tile of         *)
(* right-hand sides, and a block spins on the done flags of the rows its   *)
(* row depends on.  A tile's rows are solved apart from the other tiles'.  *)
(*                                                                         *)
(* "progress depends on blocks being scheduled roughly in launch order"    *)
(* (spsm.py): the device keeps Resident blocks resident and starts one at  *)
(* most Ahead places before its turn.                                      *)
(*                                                                         *)
(* The dispatch is the repository's; the kernel comes from the flagsparse  *)
(* Python package and is modelled from the contract the repository states  *)
(* for it.  A definition whose comment begins "Slip" is a mistake the code *)
(* could have made; nothing uses it.                                       *)
(***************************************************************************)
EXTENDS TriangularSystems, FiniteSets

CONSTANTS
  Tiles,     \* tiles of right-hand sides
  Resident,  \* blocks the device keeps resident at once
  Watched,   \* any one tile, whose solve RefinesSolve follows
  Ahead      \* how many earlier blocks a starting one may leave behind

ASSUME PollingAssumption ==
  /\ Tiles \in Nat \ {0}
  /\ Watched \in 0 .. Tiles - 1
  /\ Resident \in Nat \ {0}
  /\ Ahead \in Nat
  /\ Ahead < Resident

VARIABLES
  A,      \* the system the launch solves
  done,   \* done[t][r]: row r's flag for tile t
  value,  \* value[t][r]: row r's values for tile t are stored in work
  got,    \* got[t][r]: rows whose values block (t, r) has read
  pc      \* pc[b]: where block b is

vars == <<A, done, value, got, pc>>

(* validate takes CSR and COO in either triangle, in any column order.     *)
Solvable == {B \in Candidates : ~B.sell}

(* The blocks in launch order: the row varies fastest.                     *)
Blocks == 0 .. N * Tiles - 1
TileIds == 0 .. Tiles - 1

(* Slip: the grid's second dimension is not used.                          *)
FirstTile(b) == 0

Tile(b) == b \div N

(* Slip: the block index is the row, whichever triangle it is.             *)
RowIsIndex(B, b) == b % N

(* pid_row for a lower triangle, n_rows - 1 - pid_row for an upper one.    *)
RowOf(B, b) == LogicalIndex(B, b % N)

(* Slip: the filter keeps one side of the diagonal, whichever is solved.   *)
KeepsLower(B, r) == {c \in Columns(B, r) : c < r}

(* The whole row is scanned and filtered by col < row or col > row.        *)
Kept(B, r) ==
  {c \in Columns(B, r) : (B.lower /\ c < r) \/ (~B.lower /\ c > r)}

(* The solve clears the flags, then launches.                              *)
Init ==
  /\ A \in Solvable
  /\ done = [t \in TileIds |-> [r \in Rows |-> FALSE]]
  /\ value = [t \in TileIds |-> [r \in Rows |-> FALSE]]
  /\ got = [t \in TileIds |-> [r \in Rows |-> {}]]
  /\ pc = [b \in Blocks |-> "waiting"]

ResidentBlocks == {b \in Blocks : pc[b] = "resident"}

(* A place is free and all but the last Ahead blocks before b have started.*)
CanStart(b) ==
  /\ pc[b] = "waiting"
  /\ Cardinality(ResidentBlocks) < Resident
  /\ \A e \in Blocks : e + Ahead < b => pc[e] # "waiting"

Start(b) ==
  /\ CanStart(b)
  /\ pc' = [pc EXCEPT ![b] = "resident"]
  /\ UNCHANGED <<A, done, value, got>>

(* The spin on row c's flag ends and its values are read.                  *)
Read(b, t, r, c) ==
  /\ c \in Kept(A, r) \ got[t][r]
  /\ done[t][c]
  /\ got' = [got EXCEPT ![t][r] = @ \cup {c}]
  /\ UNCHANGED <<A, done, value, pc>>

(* Slip: the values are stored before the last dependency was read.        *)
StoreEarly(b, t, r) ==
  /\ ~value[t][r]
  /\ \A c \in Kept(A, r) \ got[t][r] : \A k \in Kept(A, r) : c >= k
  /\ value' = [value EXCEPT ![t][r] = TRUE]
  /\ UNCHANGED <<A, done, got, pc>>

Store(b, t, r) ==
  /\ ~value[t][r]
  /\ got[t][r] = Kept(A, r)
  /\ value' = [value EXCEPT ![t][r] = TRUE]
  /\ UNCHANGED <<A, done, got, pc>>

(* Slip: the flag is raised for every tile at once.                        *)
PublishAllTiles(b, t, r) ==
  /\ value[t][r]
  /\ done' = [u \in TileIds |-> [done[u] EXCEPT ![r] = TRUE]]
  /\ pc' = [pc EXCEPT ![b] = "exited"]
  /\ UNCHANGED <<A, value, got>>

(* The flag is the last thing a block writes.                              *)
Publish(b, t, r) ==
  /\ value[t][r]
  /\ done' = [done EXCEPT ![t][r] = TRUE]
  /\ pc' = [pc EXCEPT ![b] = "exited"]
  /\ UNCHANGED <<A, value, got>>

Step(b) ==
  /\ pc[b] = "resident"
  /\ LET t == Tile(b)
         r == RowOf(A, b)
     IN  \/ \E c \in Rows : Read(b, t, r, c)
         \/ Store(b, t, r)
         \/ Publish(b, t, r)

Over == \A b \in Blocks : pc[b] = "exited"
Ended == Over /\ UNCHANGED vars

Next ==
  \/ \E b \in Blocks : Start(b)
  \/ \E b \in Blocks : Step(b)
  \/ Ended

Safety == Init /\ [][Next]_vars

(* The device runs the blocks it keeps resident and fills a place that     *)
(* becomes free; a spin is not promised an end.                            *)
Fairness ==
  /\ \A b \in Blocks : WF_vars(Step(b))
  /\ WF_vars(\E b \in Blocks : Start(b))

Spec == Safety /\ Fairness

----------------------------------------------------------------------------
TypeOK ==
  /\ A \in Solvable
  /\ done \in [TileIds -> [Rows -> BOOLEAN]]
  /\ value \in [TileIds -> [Rows -> BOOLEAN]]
  /\ got \in [TileIds -> [Rows -> SUBSET Rows]]
  /\ pc \in [Blocks -> {"waiting", "resident", "exited"}]

(* A raised flag stands for values computed from the whole triangle of the *)
(* row, in the same tile, each from a row whose flag was up ("filters each *)
(* row by col < row / col > row and scans the whole row either way",       *)
(* spsm.py).                                                               *)
NoTermDropped ==
  \A t \in TileIds, r \in Rows : done[t][r] =>
    /\ value[t][r] /\ got[t][r] = Triangle(A, r)
    /\ \A c \in got[t][r] : done[t][c]

(* Spinning blocks never fill the device while what they wait for is still *)
(* to start: as long as the launch is not over, a block can start, or a    *)
(* resident one has every flag it spins on ("block 0 is always the row     *)
(* with no dependencies", spsm.py).                                        *)
NeverStuck ==
  Over \/ \E b \in Blocks :
            \/ CanStart(b)
            \/ /\ pc[b] = "resident"
               /\ \A c \in Triangle(A, RowOf(A, b)) : done[Tile(b)][c]

(* When the launch is over every row of every tile has been solved, by     *)
(* exactly one block (the grid n x tiles of src/ops/spsm.cpp solve).       *)
CompleteAtExit == Over => \A t \in TileIds, r \in Rows : done[t][r]

(* The launch ends, however long the chain of dependencies.                *)
Terminates == <>Over

(* A tile of the launch, whichever it is, is a triangular solve of its     *)
(* own.                                                                    *)
Abs == INSTANCE TriangularSolve
         WITH Given <- Solvable,
              solved <- {r \in Rows : done[Watched][r]},
              from <- [r \in Rows |->
                         IF done[Watched][r] THEN got[Watched][r] ELSE {}]
RefinesSolve == Abs!Spec
=============================================================================
