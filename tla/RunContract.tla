---------------------------- MODULE RunContract ----------------------------
(***************************************************************************)
(* What the promise returned by execute() stands for, seen by its caller:  *)
(* a pool of at most Workers attempts, results that are never taken back,  *)
(* and one verdict.  Nothing here depends on how tick() decides what to    *)
(* run, on retries, fallbacks, kills or failure policies.                  *)
(***************************************************************************)
EXTENDS Naturals, FiniteSets

CONSTANTS
  Node,      \* nodes of the DAG
  Workers    \* size of the pool

VARIABLES
  inFlight,   \* nodes with an attempt in the pool
  delivered,  \* nodes whose result has been accepted
  cancelled,  \* the run has been cancelled
  outcome     \* "none" until the promise is settled

contractVars == <<inFlight, delivered, cancelled, outcome>>

Init ==
  /\ inFlight = {}
  /\ delivered = {}
  /\ cancelled = FALSE
  /\ outcome = "none"

(* An attempt in the pool has its result accepted.                         *)
Deliver(n) ==
  /\ n \in inFlight \ delivered
  /\ delivered' = delivered \cup {n}
  /\ UNCHANGED <<inFlight, cancelled, outcome>>

(* At most one attempt leaves the pool and others enter it: nodes without  *)
(* a result and without another attempt, while the run is still open.      *)
Advance(gone, new) ==
  /\ \A m, n \in gone : m = n
  /\ new \cap delivered = {}
  /\ new \cap (inFlight \ gone) = {}
  /\ new # {} => outcome = "none" /\ ~cancelled
  /\ inFlight' = (inFlight \ gone) \cup new
  /\ Cardinality(inFlight') <= Workers
  /\ UNCHANGED <<delivered, cancelled, outcome>>

(* The run is cancelled: nothing is started any more, what is in flight    *)
(* may go on.                                                              *)
Cancel(gone) ==
  /\ outcome = "none" /\ ~cancelled
  /\ cancelled' = TRUE
  /\ inFlight' = inFlight \ gone
  /\ UNCHANGED <<delivered, outcome>>

(* The promise settles: a cancelled run as a failure, any other run once   *)
(* its pool is empty.                                                      *)
End(verdict) ==
  /\ outcome = "none"
  /\ IF cancelled THEN verdict = "failure" ELSE inFlight = {}
  /\ outcome' = verdict
  /\ UNCHANGED <<inFlight, delivered, cancelled>>

Next ==
  \/ \E n \in Node : Deliver(n)
  \/ \E gone \in SUBSET inFlight, new \in SUBSET Node : Advance(gone, new)
  \/ \E gone \in SUBSET inFlight : Cancel(gone)
  \/ \E verdict \in {"success", "failure"} : End(verdict)

Spec == Init /\ [][Next]_contractVars
=============================================================================
