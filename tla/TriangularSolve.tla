-------------------------- MODULE TriangularSolve --------------------------
(***************************************************************************)
(* What a triangular solve promises (flagsparseSpSV_solve, and for each    *)
(* tile of right-hand sides flagsparseSpSM_solve): every row is computed   *)
(* once, from all the entries of its strict triangle and nothing else,     *)
(* each taken from a row already computed.                                 *)
(***************************************************************************)
EXTENDS TriangularSystems

CONSTANT
  Given    \* the systems the solve takes

VARIABLES
  A,       \* the system
  solved,  \* rows whose value is known
  from     \* from[r]: the rows the value of r was computed from

absVars == <<A, solved, from>>

Init ==
  /\ A \in Given
  /\ solved = {}
  /\ from = [r \in Rows |-> {}]

Solve(r) ==
  /\ r \notin solved
  /\ Triangle(A, r) \subseteq solved
  /\ solved' = solved \cup {r}
  /\ from' = [from EXCEPT ![r] = Triangle(A, r)]
  /\ UNCHANGED A

Next == \E r \in Rows : Solve(r)

Safety == Init /\ [][Next]_absVars

Spec == Safety /\ WF_absVars(Next)
=============================================================================
