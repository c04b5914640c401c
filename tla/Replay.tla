------------------------------- MODULE Replay -------------------------------
(***************************************************************************)
(* "omk dag replay" (src/commands/dag.ts) of a run of the executor: the    *)
(* run ended, was cancelled, or its process died; the nodes chosen by the  *)
(* mode of the replay are reset in the saved state, a DAG is built from it *)
(* (src/orchestration/run-state.ts) and a new execute() call resumes.      *)
(*                                                                         *)
(* state.json always holds the state of some earlier moment (CommitQueue), *)
(* so that a process that may die at any moment leaves every state that a  *)
(* replay can be given.                                                    *)
(***************************************************************************)
EXTENDS Executor

CONSTANT MaxReplays   \* bound on the replays of a run

ASSUME ReplayAssumption == MaxReplays \in Nat

VARIABLE replays      \* replays so far

replayVars == <<vars, replays>>

ReplayTypeOK == TypeOK /\ replays \in 0 .. MaxReplays

ReplayInit == Init /\ replays = 0

(* addTransitiveDependents: a walk over every dependency, required or not. *)
(* Mutant: the direct dependents only.                                     *)
DirectDependents(n) == {m \in InDag(status) : n \in dependsOn[m]}

Dependents(n) == Reached(n, AllEdges(def, dependsOn, InDag(status)))

(* The nodes a replay resets: one node or the failed and blocked ones,     *)
(* with everything behind them, or all.  Mode "from failure" refuses a run *)
(* without a failure.                                                      *)
Broken == {n \in InDag(status) : status[n] \in {"failed", "blocked"}}

WithDependents(S) == S \cup UNION {Dependents(n) : n \in S}

ResetChoices ==
  {WithDependents({n}) : n \in InDag(status)}
    \cup {WithDependents(S) : S \in {Broken} \ {{}}}
    \cup {InDag(status)}

(* The reset of the saved state and the start of execute() on it: a node   *)
(* saved as running is pending again, every other status is kept, with its *)
(* retries and attempts; the new call knows of no abort and no kill.       *)
(* A second fallback for one node, which would need another id, is beyond  *)
(* this model: replays are of runs without a fallback.                     *)
(* Mutant: a running node is taken over as running.                        *)
ReplayKeepsRunning(reset) ==
  /\ replays < MaxReplays /\ reset \in ResetChoices
  /\ \A n \in Node : ~HasFallback(status, n)
  /\ replays' = replays + 1
  /\ status' = Mark(status, reset, "pending")
  /\ retries' = [n \in Node |-> IF n \in reset THEN 0 ELSE retries[n]]
  /\ attempts' = [n \in Node |-> IF n \in reset THEN 0 ELSE attempts[n]]
  /\ phase' = [n \in Node |-> "idle"] /\ stalled' = {} /\ pendingTicks' = 1
  /\ aborted' = FALSE /\ aborting' = FALSE
  /\ finals' = {} /\ outcome' = "none"
  /\ UNCHANGED <<def, dependsOn, kills>>

DagReplay(reset) ==
  /\ replays < MaxReplays /\ reset \in ResetChoices
  /\ \A n \in Node : ~HasFallback(status, n)
  /\ replays' = replays + 1
  /\ status' = Mark(status, reset \cup {n \in Node : status[n] = "running"}, "pending")
  /\ retries' = [n \in Node |-> IF n \in reset THEN 0 ELSE retries[n]]
  /\ attempts' = [n \in Node |-> IF n \in reset THEN 0 ELSE attempts[n]]
  /\ phase' = [n \in Node |-> "idle"] /\ stalled' = {} /\ pendingTicks' = 1
  /\ aborted' = FALSE /\ aborting' = FALSE
  /\ finals' = {} /\ outcome' = "none"
  /\ UNCHANGED <<def, dependsOn, kills>>

(* The executor goes on.  A replay passes it no signal.                    *)
Goes == Next /\ (replays > 0 => ~aborted') /\ UNCHANGED replays

ReplayNext == Goes \/ \E reset \in SUBSET Node : DagReplay(reset)

ReplaySpec == ReplayInit /\ [][ReplayNext]_replayVars

-----------------------------------------------------------------------------
(* Safety, with DependenciesMet of the executor, which has to hold in the  *)
(* replays of a run as well: no node keeps a result that is older than a   *)
(* dependency reset under it.                                              *)

(* A run that nobody cancelled, replayed or not, reports failure only with *)
(* a node that failed or was blocked, in this call or in an earlier one    *)
(* whose verdict on it was kept, or with a reset node that requires a node *)
(* that stays skipped.  What was running when a process died is none of    *)
(* them: it is run again.                                                  *)
Unreachable(n) ==
  /\ status[n] = "pending"
  /\ \E d \in dependsOn[n] : status[d] = "skipped" /\ Requires(def, dependsOn, n, d)

ReplayFailsForCause ==
  outcome = "failure" /\ ~aborting /\ (\A n \in BaseNode : ~HasFallback(status, n)) =>
    Broken # {} \/ \E n \in InDag(status) : Unreachable(n)
=============================================================================
