------------------------------- MODULE MCPool -------------------------------
(* A small instance of PoolSafety for the model checker.                   *)
EXTENDS PoolSafety, TLC

CONSTANTS parent, child

\* No task pushes another, or parent pushes child.
FollowNone == [t \in Tasks |-> {}]
FollowOne == [t \in Tasks |-> IF t = parent THEN {child} ELSE {}]

Threads == Permutations(Callers \ {Owner})
               \cup Permutations(Tasks \ {parent, child})
=============================================================================
