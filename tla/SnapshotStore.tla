--------------------------- MODULE SnapshotStore ---------------------------
(***************************************************************************)
(* What a run's state.json stands for.  The states of a run are numbered   *)
(* by the changes made to its DAG; the file holds one of them, is never    *)
(* ahead of the run and, while the run lives, only moves forward.  A       *)
(* process that dies takes the run back to what the file holds.            *)
(***************************************************************************)
EXTENDS Naturals

VARIABLES
  reached,   \* the state the run has reached
  stored     \* the state the file holds

storeVars == <<reached, stored>>

Init == reached = 0 /\ stored = 0

Proceed ==
  /\ reached' = reached + 1
  /\ UNCHANGED stored

Store ==
  /\ stored' \in stored .. reached
  /\ UNCHANGED reached

Resume ==
  /\ reached' = stored
  /\ UNCHANGED stored

Next == Proceed \/ Store \/ Resume

Spec == Init /\ [][Next]_storeVars
=============================================================================
