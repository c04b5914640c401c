---------------------------- MODULE CallContract ----------------------------
(***************************************************************************)
(* What a caller may expect of a request to another process, whichever     *)
(* class sends it: a call is opened once and settled once, nothing settles *)
(* it a second time, and only so many calls are open together.             *)
(***************************************************************************)
EXTENDS Naturals, FiniteSets

CONSTANTS
  Call,     \* the calls
  MaxOpen   \* how many may be open together

VARIABLE status

Init == status = [c \in Call |-> "new"]

Opened == {c \in Call : status[c] = "open"}

(* A call that cannot be sent fails at once.                               *)
Refuse(c) ==
  /\ status[c] = "new"
  /\ status' = [status EXCEPT ![c] = "failed"]

Open(c) ==
  /\ status[c] = "new"
  /\ Cardinality(Opened) < MaxOpen
  /\ status' = [status EXCEPT ![c] = "open"]

Answer(c) ==
  /\ status[c] = "open"
  /\ status' = [status EXCEPT ![c] = "answered"]

(* Whatever goes wrong may end several open calls together.                *)
Fail(S) ==
  /\ S # {} /\ S \subseteq Opened
  /\ status' = [c \in Call |-> IF c \in S THEN "failed" ELSE status[c]]

Next ==
  \/ \E c \in Call : Refuse(c) \/ Open(c) \/ Answer(c)
  \/ \E S \in SUBSET Call : Fail(S)

Spec == Init /\ [][Next]_status
=============================================================================
