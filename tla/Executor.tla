------------------------------ MODULE Executor ------------------------------
(***************************************************************************)
(* One execute() call of src/orchestration/executor.ts: the tick function  *)
(* that drives a DAG, the asynchronous life of every node attempt, the     *)
(* stall monitor, the abort signal and the promise the call returns.       *)
(*                                                                         *)
(* JavaScript runs one event-loop turn at a time, so a step of this module *)
(* is what happens between two awaits.  In particular tick() runs to its   *)
(* first await without interruption, in the same turn as the               *)
(* runningMap.delete or the monitor kill that calls it.                    *)
(*                                                                         *)
(* runningMap is the set of nodes whose phase is not "idle".  A phase says *)
(* which await of runNode the attempt is parked at:                        *)
(*   starting  the first commitState and getOmkResourceSettings            *)
(*   running   registered with the monitor, runner call raced with timers  *)
(*   checking  checkNodeEvidence                                           *)
(*   closing   the last commitState, its result already applied            *)
(***************************************************************************)
EXTENDS DagScheduler

CONSTANTS
  Workers,       \* options.workers
  Definitions,   \* the DAG definitions a run may be started with
  MaxKills,      \* bound on stall-monitor kills in a behavior
  MayAbort,      \* whether the abort signal may fire
  TraceMayFail   \* whether an append to decisions.jsonl may throw

ASSUME ExecutorAssumption ==
  /\ Workers \in Nat \ {0}
  /\ Definitions \subseteq {d \in Definition : Acyclic(d)}
  /\ MaxKills \in Nat
  /\ MayAbort \in BOOLEAN
  /\ TraceMayFail \in BOOLEAN

VARIABLES
  def,           \* the static part of the DAG
  status,        \* node.status
  retries,       \* node.retries: failures charged to the node
  dependsOn,     \* node.dependsOn, redirected when a fallback is created
  attempts,      \* length of node.attempts
  phase,         \* runningMap and the await each attempt is parked at
  stalled,       \* nodes whose monitor entry has status "stalled"
  kills,         \* stall kills so far
  pendingTicks,  \* tick() calls made but not yet begun
  aborted,       \* executorOptions.signal.aborted
  aborting,      \* the executor has seen the signal
  finals,        \* verdicts whose final snapshot is being saved
  outcome        \* what the returned promise resolved to

vars == <<def, status, retries, dependsOn, attempts, phase, stalled, kills,
          pendingTicks, aborted, aborting, finals, outcome>>

Phase == {"idle", "starting", "running", "checking", "closing"}
Verdict == {"success", "failure"}

TypeOK ==
  /\ def \in Definition
  /\ status \in [Node -> Status]
  /\ retries \in [Node -> Nat]
  /\ dependsOn \in [Node -> SUBSET Node]
  /\ attempts \in [Node -> Nat]
  /\ phase \in [Node -> Phase]
  /\ stalled \in SUBSET Node
  /\ kills \in Nat
  /\ pendingTicks \in Nat
  /\ aborted \in BOOLEAN
  /\ aborting \in BOOLEAN
  /\ finals \in SUBSET Verdict
  /\ outcome \in Verdict \cup {"none"}

Init ==
  /\ def \in Definitions
  /\ status = [n \in Node |-> IF n \in BaseNode THEN "pending" ELSE "absent"]
  /\ retries = [n \in Node |-> 0]
  /\ dependsOn = [n \in Node |-> IF n \in BaseNode THEN def.dependsOn[n] ELSE {}]
  /\ attempts = [n \in Node |-> 0]
  /\ phase = [n \in Node |-> "idle"]
  /\ stalled = {}
  /\ kills = 0
  /\ pendingTicks = 1
  /\ aborted \in {FALSE, MayAbort}   \* the signal may be set beforehand
  /\ aborting = FALSE
  /\ finals = {}
  /\ outcome = "none"

-----------------------------------------------------------------------------
(* tick(), on the values its caller has just computed: statuses st, retry  *)
(* counts rt, phases ph and tk other ticks still to begin.  Each operator  *)
(* below is one of its branches, guarded as the branch is.                 *)

InFlight(ph) == {n \in Node : ph[n] # "idle"}

HasFallback(st, n) == n \in BaseNode /\ st[fallbackId[n]] # "absent"

FallbackDue(st, rt) ==
  {n \in def.fallback : /\ st[n] = "failed"
                        /\ Exhausted(def, n, rt[n])
                        /\ ~HasFallback(st, n)}

(* settled: nothing happens.                                               *)
TickAfterEnd(st, ph, tk) ==
  /\ outcome # "none"
  /\ status' = st /\ phase' = ph /\ pendingTicks' = tk
  /\ UNCHANGED <<dependsOn, attempts, aborting, finals>>

(* A fallback for every exhausted node that names a fallback role: the     *)
(* node counts as skipped, its direct dependents wait for the fallback     *)
(* instead and are unblocked, and another tick follows.                    *)
Redirect(D, F) == (D \ F) \cup {fallbackId[n] : n \in D \cap F}

(* Mutant: the tick that is to follow is not called.                       *)
FallbackWithoutTick(st, rt, ph, tk) ==
  LET F == FallbackDue(st, rt)
      new == {fallbackId[n] : n \in F}
      freed == {d \in InDag(st) : st[d] = "blocked" /\ dependsOn[d] \cap F # {}}
  IN /\ outcome = "none" /\ F # {}
     /\ status' = Mark(Mark(st, F, "skipped"), new \cup freed, "pending")
     /\ dependsOn' = [n \in Node |->
          Redirect(dependsOn[IF n \in new THEN Original(n) ELSE n], F)]
     /\ phase' = ph /\ pendingTicks' = tk
     /\ UNCHANGED <<attempts, aborting, finals>>

TickCreatesFallbacks(st, rt, ph, tk) ==
  LET F == FallbackDue(st, rt)
      new == {fallbackId[n] : n \in F}
      freed == {d \in InDag(st) : st[d] = "blocked" /\ dependsOn[d] \cap F # {}}
  IN /\ outcome = "none" /\ F # {}
     /\ status' = Mark(Mark(st, F, "skipped"), new \cup freed, "pending")
     /\ dependsOn' = [n \in Node |->
          Redirect(dependsOn[IF n \in new THEN Original(n) ELSE n], F)]
     /\ phase' = ph /\ pendingTicks' = tk + 1
     /\ UNCHANGED <<attempts, aborting, finals>>

(* The abort signal: whatever is pending or running is cancelled.          *)
(* Mutant: a cancellation that also takes finished nodes.                  *)
CancelsDoneToo(st, rt, ph, tk) ==
  /\ outcome = "none" /\ FallbackDue(st, rt) = {} /\ aborted
  /\ aborting' = TRUE
  /\ status' = Mark(st, InDag(st), "blocked")
  /\ finals' = finals \cup {"failure"}
  /\ phase' = ph /\ pendingTicks' = tk
  /\ UNCHANGED <<dependsOn, attempts>>

TickCancels(st, rt, ph, tk) ==
  /\ outcome = "none" /\ FallbackDue(st, rt) = {} /\ aborted
  /\ aborting' = TRUE
  /\ status' = Mark(st, {n \in Node : st[n] \in {"running", "pending"}}, "blocked")
  /\ finals' = finals \cup {"failure"}
  /\ phase' = ph /\ pendingTicks' = tk
  /\ UNCHANGED <<dependsOn, attempts>>

(* What the later branches have in common: not settled, no fallback to     *)
(* create, not cancelled.  Mutant: the signal is not read.                 *)
ProceedsUnsignalled(st, rt) ==
  outcome = "none" /\ FallbackDue(st, rt) = {}

Proceeds(st, rt) ==
  outcome = "none" /\ FallbackDue(st, rt) = {} /\ ~aborted

(* The DAG is complete or has failed and no attempt is in flight.          *)
(* Mutant: a failed DAG does not wait for its running siblings.            *)
EndsOnFailure(st, rt, ph, tk, verdict) ==
  /\ Proceeds(st, rt)
  /\ IsComplete(def, st) => InFlight(ph) = {}
  /\ verdict = (IF IsComplete(def, st) THEN "success" ELSE "failure")
  /\ IsComplete(def, st) \/ IsFailed(def, st, rt)
  /\ finals' = finals \cup {verdict}
  /\ status' = st /\ phase' = ph /\ pendingTicks' = tk
  /\ UNCHANGED <<dependsOn, attempts, aborting>>

TickEnds(st, rt, ph, tk, verdict) ==
  /\ Proceeds(st, rt)
  /\ InFlight(ph) = {}
  /\ verdict = (IF IsComplete(def, st) THEN "success" ELSE "failure")
  /\ IsComplete(def, st) \/ IsFailed(def, st, rt)
  /\ finals' = finals \cup {verdict}
  /\ status' = st /\ phase' = ph /\ pendingTicks' = tk
  /\ UNCHANGED <<dependsOn, attempts, aborting>>

(* The DAG has failed but attempts are in flight: wait for them.           *)
TickHolds(st, rt, ph, tk) ==
  /\ Proceeds(st, rt)
  /\ InFlight(ph) # {} /\ IsFailed(def, st, rt)
  /\ status' = st /\ phase' = ph /\ pendingTicks' = tk
  /\ UNCHANGED <<dependsOn, attempts, aborting, finals>>

(* Mutant: a node that is still in runningMap may be taken.                *)
Busy(ph) == Cardinality(InFlight(ph))

EligibleInFlight(st, ph) == {n \in Runnable(def, st, dependsOn) : ~HasFallback(st, n)}

Eligible(st, ph) ==
  {n \in Runnable(def, st, dependsOn) : ph[n] = "idle" /\ ~HasFallback(st, n)}

(* Start as many of the runnable nodes as there are free workers.  The     *)
(* code takes them by rank; any choice is allowed here.  With nothing in   *)
(* flight, nothing started and nothing runnable the run ends as a failure. *)
TickDispatches(st, rt, ph, tk) ==
  LET runnable == Runnable(def, st, dependsOn)
      eligible == Eligible(st, ph)
      busy == Busy(ph)
  IN /\ Proceeds(st, rt)
     /\ ~IsFailed(def, st, rt)
     /\ InFlight(ph) = {} => ~IsComplete(def, st)
     /\ \E toRun \in SUBSET eligible :
          /\ toRun # {} => Cardinality(toRun) + busy <= Workers
          /\ toRun = eligible \/ Cardinality(toRun) + busy >= Workers
          /\ status' = Mark(st, toRun, "running")
          /\ phase' = [n \in Node |-> IF n \in toRun THEN "starting" ELSE ph[n]]
          /\ attempts' = [n \in Node |-> IF n \in toRun THEN attempts[n] + 1 ELSE attempts[n]]
          /\ finals' = IF InFlight(ph) = {} /\ toRun = {} /\ runnable = {}
                       THEN finals \cup {"failure"} ELSE finals
     /\ pendingTicks' = tk
     /\ UNCHANGED <<dependsOn, aborting>>

Tick(st, rt, ph, tk) ==
  \/ TickAfterEnd(st, ph, tk)
  \/ TickCreatesFallbacks(st, rt, ph, tk)
  \/ TickCancels(st, rt, ph, tk)
  \/ \E verdict \in Verdict : TickEnds(st, rt, ph, tk, verdict)
  \/ TickHolds(st, rt, ph, tk)
  \/ TickDispatches(st, rt, ph, tk)

-----------------------------------------------------------------------------
(* The steps of one attempt, runNode.                                      *)

(* Microtasks run before the next timer, signal or I/O completion, and a   *)
(* tick that another tick has called is one: it is never overtaken by      *)
(* them.                                                                   *)
NextTurn == pendingTicks = 0

MoveTo(n, p) == phase' = [phase EXCEPT ![n] = p]

(* Resources are loaded, the monitor entry is fresh and the runner call is *)
(* made.  Nothing looks at the node's status or at the abort signal here.  *)
RunnerCall(n) ==
  /\ phase[n] = "starting"
  /\ MoveTo(n, "running")
  /\ stalled' = stalled \ {n}
  /\ UNCHANGED <<def, status, retries, dependsOn, attempts, kills,
                 pendingTicks, aborted, aborting, finals, outcome>>

(* Mutant: the result is accepted before its evidence is checked.          *)
AcceptsUnchecked(n) ==
  /\ NextTurn /\ phase[n] = "running"
  /\ status' = [status EXCEPT ![n] = "done"]
  /\ MoveTo(n, "checking")
  /\ UNCHANGED <<def, retries, dependsOn, attempts, stalled, kills,
                 pendingTicks, aborted, aborting, finals, outcome>>

RunnerSucceeds(n) ==
  /\ NextTurn /\ phase[n] = "running"
  /\ MoveTo(n, "checking")
  /\ UNCHANGED <<def, status, retries, dependsOn, attempts, stalled, kills,
                 pendingTicks, aborted, aborting, finals, outcome>>

(* updateNodeStatus(n, "failed") and the end of the attempt.               *)
Fail(n, charges) ==
  /\ retries' = [retries EXCEPT ![n] = @ + charges]
  /\ status' = AfterFailure(def, status, dependsOn, n, retries[n] + charges)
  /\ MoveTo(n, "closing")
  /\ stalled' = stalled \ {n}
  /\ UNCHANGED <<def, dependsOn, attempts, kills,
                 pendingTicks, aborted, aborting, finals, outcome>>

(* A result with success = false, or an unmet gate.  When this failure is  *)
(* terminal and its decision record cannot be written, the catch clause    *)
(* reports the same failure a second time.                                 *)
FailByResult(n) ==
  \/ Fail(n, 1)
  \/ /\ TraceMayFail /\ Exhausted(def, n, retries[n] + 1)
     /\ AfterFailure(def, status, dependsOn, n, retries[n] + 1)[n] # status[n]
     /\ Fail(n, 2)

(* The runner resolves with a failed result, rejects, or loses the race    *)
(* with the node's timeout or the 30 minute hard limit.  Nothing cancels a *)
(* runner call that lost; what it does later is no longer seen here.       *)
RunnerFails(n) ==
  /\ NextTurn /\ phase[n] = "running"
  /\ FailByResult(n)

EvidencePasses(n) ==
  /\ phase[n] = "checking"
  /\ status' = [status EXCEPT ![n] = "done"]
  /\ MoveTo(n, "closing")
  /\ stalled' = stalled \ {n}
  /\ UNCHANGED <<def, retries, dependsOn, attempts, kills,
                 pendingTicks, aborted, aborting, finals, outcome>>

(* Mutant: an unmet gate is not charged as a failure.                      *)
EvidenceNotCharged(n) ==
  /\ phase[n] = "checking" /\ Gated(def, n)
  /\ Fail(n, 0)

EvidenceFails(n) ==
  /\ phase[n] = "checking" /\ Gated(def, n)
  /\ FailByResult(n)

(* The node passed, but the decision record of its "done" threw: the catch *)
(* clause turns the success into a failure.                                *)
DoneRecordFails(n) ==
  /\ phase[n] = "checking" /\ TraceMayFail
  /\ Fail(n, 1)

(* runningMap.delete(n) and the tick it triggers, in one turn.             *)
Close(n) ==
  /\ phase[n] = "closing"
  /\ Tick(status, retries, [phase EXCEPT ![n] = "idle"], pendingTicks)
  /\ UNCHANGED <<def, retries, stalled, kills, aborted, outcome>>

NodeStep(n) ==
  \/ RunnerCall(n)
  \/ RunnerSucceeds(n)
  \/ RunnerFails(n)
  \/ EvidencePasses(n)
  \/ EvidenceFails(n)
  \/ DoneRecordFails(n)
  \/ Close(n)

-----------------------------------------------------------------------------
(* Steps that belong to no attempt.                                        *)

(* Mutant: a tick that nobody called begins.                               *)
UncalledTick ==
  /\ Tick(status, retries, phase, pendingTicks - 1)
  /\ UNCHANGED <<def, retries, stalled, kills, aborted, outcome>>

RunTick ==
  /\ pendingTicks > 0
  /\ Tick(status, retries, phase, pendingTicks - 1)
  /\ UNCHANGED <<def, retries, stalled, kills, aborted, outcome>>

(* The monitor misses heartbeats for 90 s (the event loop or the machine   *)
(* was suspended) and onKill fails the node, while its runner call and its *)
(* place in runningMap stay.  A decision record that throws skips the      *)
(* tick: the handler swallows the error.                                   *)
Kill(n) ==
  /\ NextTurn /\ kills < MaxKills /\ outcome = "none"
  /\ phase[n] \in {"running", "checking"}
  /\ status[n] = "running" /\ n \notin stalled
  /\ kills' = kills + 1
  /\ stalled' = stalled \cup {n}
  /\ retries' = [retries EXCEPT ![n] = @ + 1]
  /\ LET failed == AfterFailure(def, status, dependsOn, n, retries[n] + 1) IN
       \/ Tick(failed, retries', phase, pendingTicks)
       \/ /\ TraceMayFail /\ Exhausted(def, n, retries[n] + 1)
          /\ status' = failed
          /\ UNCHANGED <<dependsOn, attempts, phase, pendingTicks, aborting, finals>>
  /\ UNCHANGED <<def, aborted, outcome>>

(* SIGINT or SIGTERM: the signal is set, nobody listens to it; the next    *)
(* tick reads it.                                                          *)
Abort ==
  /\ NextTurn /\ MayAbort /\ ~aborted /\ outcome = "none"
  /\ aborted' = TRUE
  /\ UNCHANGED <<def, status, retries, dependsOn, attempts, phase, stalled, kills,
                 pendingTicks, aborting, finals, outcome>>

(* The awaited final save is over, whether it worked or not: resolveOnce.  *)
Resolve(verdict) ==
  /\ NextTurn /\ outcome = "none" /\ verdict \in finals
  /\ outcome' = verdict
  /\ UNCHANGED <<def, status, retries, dependsOn, attempts, phase, stalled, kills,
                 pendingTicks, aborted, aborting, finals>>

(* The process has nothing left to do.                                     *)
Terminated ==
  /\ outcome # "none" /\ InFlight(phase) = {} /\ pendingTicks = 0
  /\ UNCHANGED vars

Next ==
  \/ RunTick
  \/ \E n \in Node : NodeStep(n) \/ Kill(n)
  \/ Abort
  \/ \E verdict \in Verdict : Resolve(verdict)
  \/ Terminated

Spec == Init /\ [][Next]_vars

(* Every attempt comes to an end: a runner call is raced with the hard     *)
(* limit, gate commands have time limits, and the saves in between settle. *)
Fairness ==
  /\ WF_vars(RunTick)
  /\ \A n \in Node : WF_vars(NodeStep(n))
  /\ WF_vars(\E verdict \in Verdict : Resolve(verdict))

FairSpec == Spec /\ Fairness

-----------------------------------------------------------------------------
(* Safety.                                                                 *)

(* At most options.workers nodes are in runningMap.                        *)
WorkerLimit == Cardinality(InFlight(phase)) <= Workers

(* Nodes a fallback was created for, and the runs that do not mix the two  *)
(* ways around a missing result: fallbacks and optional inputs.            *)
Replaced(st) == {n \in BaseNode : HasFallback(st, n)}

Unmixed(st) == def.weak = {} \/ Replaced(st) = {}

(* n consumes what d, or the node d replaces, delivers only optionally.    *)
Weakly(n, d) == <<Original(n), Original(d)>> \in def.weak

(* A node that was ever started still has every dependency it waited for   *)
(* done, or excused in the way runnableNodes accepts: neither a late       *)
(* block or skip walk nor the redirection to a fallback takes a dependency *)
(* away under a started node.  Only an optional input may come back to     *)
(* life under it, when a fallback unblocks the node it comes from.         *)
DependenciesMet ==
  \A n \in Node : attempts[n] > 0 =>
    \A d \in dependsOn[n] :
      \/ Satisfied(def, status, dependsOn, n, d)
      \/ Replaced(status) # {} /\ Weakly(n, d)

(* A node is skipped only because a fallback took its place, because it    *)
(* used up its tries and is allowed to be skipped, or because a node it    *)
(* requires was skipped, and has not come to a result since: it is still   *)
(* skipped, was blocked by another failure as well, or waits in vain after *)
(* a fallback unblocked it.                                                *)
Excused(n) ==
  \/ HasFallback(status, n)
  \/ Exhausted(def, n, retries[n]) /\ FailsSoftly(def, n)
  \/ \E d \in dependsOn[n] :
       /\ Requires(def, dependsOn, n, d)
       /\ status[d] \in {"skipped", "blocked"} \/ (status[d] = "pending" /\ Replaced(status) # {})

SkippedJustified ==
  kills = 0 /\ Unmixed(status) => \A n \in Node : status[n] = "skipped" => Excused(n)

(* A run reports success only when every node is done, or excused with its *)
(* fallback (if it got one) done or excused too; no node of a successful   *)
(* run used up its tries and simply failed.                                *)
AccountedFor(n) == status[n] = "done" \/ (status[n] = "skipped" /\ Excused(n))

HonestSuccess ==
  outcome = "success" /\ kills = 0 /\ Unmixed(status) =>
    \A n \in InDag(status) :
      AccountedFor(n) \/ (HasFallback(status, n) /\ AccountedFor(fallbackId[n]))

(* A run that was neither cancelled nor given a fallback, and in which no  *)
(* node was killed, reports failure only for a node that used up its tries *)
(* and was not excused: the "deadlock or nothing to do" branch of tick()   *)
(* never decides it.                                                       *)
FailsForCause ==
  outcome = "failure" /\ ~aborting /\ kills = 0 /\ Replaced(status) = {} =>
    \E n \in Node :
      status[n] = "failed" /\ Exhausted(def, n, retries[n]) /\ ~FailsSoftly(def, n)

(* When the promise of an uncancelled run resolves no attempt is in        *)
(* flight, and none can still be started ("executor waits for running      *)
(* siblings before terminal failure resolution").                          *)
SettledQuiescent ==
  outcome # "none" /\ ~aborting => InFlight(phase) = {}

(* The ends of a run that can race (a completing DAG and the abort signal, *)
(* ticks repeated during the final save) never disagree on the verdict,    *)
(* and the returned promise carries it.                                    *)
OneVerdict ==
  /\ Cardinality(finals) <= 1
  /\ outcome # "none" => finals = {outcome}
  /\ aborting => finals = {"failure"}

(* Each finished attempt charged the node exactly one retry or made it     *)
(* done, so maxRetries really is the number of attempts.  (Without kills   *)
(* and with a working decision log; see RetryBudget for the rest.)         *)
Open(ph, n) == ph[n] \in {"starting", "running", "checking"}

AttemptsAccounted ==
  kills = 0 /\ ~TraceMayFail =>
    \A n \in Node :
      attempts[n] = retries[n] + (IF Open(phase, n) \/ status[n] = "done" THEN 1 ELSE 0)

(* Whatever is killed or fails to be logged, a node is never started more  *)
(* often than maxRetries allows.                                           *)
RetryBudget ==
  Unmixed(status) => \A n \in Node : attempts[n] <= MaxRetries(def, n)

(* A failed run has a failed node.  The comment on the fallback branch of  *)
(* tick() says a terminal failure with a fallback role does not fail the   *)
(* run; when it does, every node that failed has been replaced.            *)
FailureHasFailedNode ==
  outcome = "failure" /\ ~aborting => \E n \in Node : status[n] = "failed"

(* The test "scheduler keeps transitive optional dependents runnable after *)
(* a blocker": a run that was not cancelled does not end while some node   *)
(* is still runnable.                                                      *)
NothingRunnableLeft ==
  outcome = "failure" /\ ~aborting => Runnable(def, status, dependsOn) = {}

(* Steps.                                                                  *)

(* A done node stays done: no failure, kill, skip, block or cancellation   *)
(* that comes later takes the result back.                                 *)
DoneIsFinal ==
  [][\A n \in Node : status[n] = "done" => status'[n] = "done"]_vars

(* A node is not started again while an earlier attempt of it is in        *)
(* runningMap, even when a kill has set it back to pending.                *)
NoOverlappingAttempts ==
  [][\A n \in Node : attempts'[n] # attempts[n] => phase[n] \in {"idle", "closing"}]_vars

(* Once the signal is set no tick starts another node.                     *)
NoStartAfterAbort == [][aborted => attempts' = attempts]_vars

(* The stderr message of onKill says the node is "killed (no heartbeat     *)
(* for ...)".  A node killed at its last try does not come back: the       *)
(* answer of its runner call, when it arrives after all, changes nothing.  *)
KilledIsOver ==
  [][\A n \in Node :
       n \in stalled /\ status[n] \in {"failed", "skipped"} => status'[n] # "done"]_vars

(* The executor implements the contract of its promise: pool, accepted     *)
(* results and verdict change only as RunContract allows, whatever fails,  *)
(* is killed, is retried or is cancelled in the meantime.                  *)
Delivered == {n \in Node : status[n] = "done"}

Contract == INSTANCE RunContract WITH
  inFlight <- InFlight(phase), delivered <- Delivered,
  cancelled <- aborting

ImplementsContract == Contract!Spec

(* The inductive invariant behind OneVerdict and the contract, stated on   *)
(* the values a tick is called with: an attempt that is still open has no  *)
(* accepted result, and once a verdict of an uncancelled run is being      *)
(* saved, every further tick comes to the same one.                        *)
Over(st, rt, ph, tk) ==
  /\ InFlight(ph) = {} /\ FallbackDue(st, rt) = {}
  /\ aborted => tk = 0
  /\ \/ finals = {"success"} /\ IsComplete(def, st)
     \/ /\ finals = {"failure"} /\ ~IsComplete(def, st)
        /\ IsFailed(def, st, rt) \/ Runnable(def, st, dependsOn) = {}

Sound(st, rt, ph, tk) ==
  /\ Cardinality(InFlight(ph)) <= Workers
  /\ \A n \in Node : Open(ph, n) => st[n] # "done"
  /\ aborting => aborted /\ finals = {"failure"}
  /\ outcome # "none" => finals = {outcome}
  /\ finals # {} /\ ~aborting => Over(st, rt, ph, tk)

IInv == TypeOK /\ Sound(status, retries, phase, pendingTicks)

(* The inductive invariant behind the properties of the DAG, again on the  *)
(* values a tick is called with.                                           *)
(*                                                                         *)
(* What is in the DAG: dependencies are nodes of it that nothing replaced, *)
(* and as long as no fallback exists they are those of the definition.     *)
Enlisted(st, rt, ph) ==
  /\ def \in Definitions
  /\ \A n \in BaseNode : st[n] # "absent"
  /\ \A n \in Node : st[n] = "absent" => attempts[n] = 0 /\ rt[n] = 0 /\ ph[n] = "idle"
  /\ \A n \in Node : dependsOn[n] \subseteq InDag(st) \ Replaced(st)
  /\ Replaced(st) = {} => \A n \in BaseNode : dependsOn[n] = def.dependsOn[n]

(* Only a node that was started runs, is charged or is done.               *)
Begun(st, rt, ph) ==
  /\ \A n \in Node : st[n] = "running" => Open(ph, n)
  /\ \A n \in Node : st[n] = "done" \/ ph[n] # "idle" \/ rt[n] > 0 => attempts[n] > 0

(* A node that failed, or that was started and skipped, used up its tries. *)
Terminal(st, rt) ==
  /\ \A n \in Node : st[n] = "failed" =>
       attempts[n] > 0 /\ Exhausted(def, n, rt[n]) /\ ~FailsSoftly(def, n)
  /\ Replaced(st) = {} => \A n \in Node : st[n] = "skipped" =>
       attempts[n] = 0 \/ (Exhausted(def, n, rt[n]) /\ FailsSoftly(def, n))

(* What a started node consumes stays delivered; an optional input that    *)
(* was skipped stays so, unless a failure blocks the node that never ran.  *)
Fed(st) ==
  \A n \in Node : attempts[n] > 0 => \A d \in dependsOn[n] :
    \/ st[d] = "done"
    \/ /\ Weakly(n, d)
       /\ \/ Replaced(st) # {}
          \/ st[d] = "skipped"
          \/ st[d] = "blocked" /\ attempts[d] = 0

Graph(st, rt, ph) ==
  Enlisted(st, rt, ph) /\ Begun(st, rt, ph) /\ Terminal(st, rt) /\ Fed(st)

(* Every attempt that is over was charged or made its node done.           *)
Budget(st, rt, ph) ==
  /\ \A n \in Node : attempts[n] <= rt[n] + (IF Open(ph, n) \/ st[n] = "done" THEN 1 ELSE 0)
  /\ Unmixed(st) => \A n \in Node :
       /\ st[n] = "pending" => rt[n] < MaxRetries(def, n)
       /\ attempts[n] <= MaxRetries(def, n)

(* The nodes lost to a soft failure: the ones that failed, and behind them *)
(* nodes that never ran and require one of them.                           *)
LostSet(st, rt, ph, lost) ==
  /\ \A n \in Node : st[n] = "skipped" => n \in lost \/ HasFallback(st, n)
  /\ \A n \in lost :
       \/ /\ st[n] = "skipped" /\ attempts[n] > 0 /\ ~Open(ph, n)
          /\ Exhausted(def, n, rt[n]) /\ FailsSoftly(def, n)
       \/ /\ attempts[n] = 0
          /\ st[n] \in {"skipped", "blocked"} \/ (st[n] = "pending" /\ Replaced(st) # {})
          /\ \E d \in lost : Requires(def, dependsOn, n, d)

(* Without kills: the attempts of a node add up, a verdict on it is not    *)
(* taken while it is at work, and skipped and blocked nodes have a cause.  *)
Quiet(st, rt, ph) ==
  /\ ~TraceMayFail => \A n \in Node :
       attempts[n] = rt[n] + (IF Open(ph, n) \/ st[n] = "done" THEN 1 ELSE 0)
  /\ Unmixed(st) => \A n \in Node : Open(ph, n) => st[n] \in {"running", "blocked"}
  /\ Unmixed(st) => \E lost \in SUBSET Node : LostSet(st, rt, ph, lost)
  /\ Replaced(st) = {} /\ ~aborting /\ (\E n \in Node : st[n] = "blocked") =>
       \E n \in Node : st[n] = "failed"
  /\ Replaced(st) = {} => \A n \in Node : st[n] = "pending" =>
       \A d \in dependsOn[n] : Requires(def, dependsOn, n, d) => st[d] # "skipped"

GraphInv ==
  /\ Graph(status, retries, phase)
  /\ Budget(status, retries, phase)
  /\ kills = 0 => Quiet(status, retries, phase)

(* All of the executor's invariant.                                        *)
InductiveInv == IInv /\ GraphInv

(* Liveness.                                                               *)

(* The promise execute() returns is settled.                               *)
Settles == <>(outcome # "none")
=============================================================================
