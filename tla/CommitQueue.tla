---------------------------- MODULE CommitQueue ----------------------------
(***************************************************************************)
(* How a run reaches its state.json: commitState and its promise chain in  *)
(* src/orchestration/executor.ts, save in state-persister.ts.              *)
(*                                                                         *)
(* The DAG is reduced to the number of changes made to it, a RunState to   *)
(* the number of changes its nodes show.  The chain is the sequence of its *)
(* links that have not settled; only the first one can be saving.          *)
(***************************************************************************)
EXTENDS Integers, Sequences, FiniteSets

CONSTANTS
  MaxCommitQueue,   \* MAX_COMMIT_QUEUE
  MaxChanges,       \* bound on the changes made to the DAG
  MaxFinals,        \* bound on the mustPersist commits of one process
  MaxFailures,      \* bound on the failed saves of one process
  MaxCrashes        \* bound on the times the process dies

ASSUME CommitQueueAssumption ==
  /\ MaxCommitQueue \in Nat \ {0}
  /\ {MaxChanges, MaxFinals, MaxFailures, MaxCrashes} \subseteq Nat

VARIABLES
  dag,       \* changes made to dag.nodes
  state,     \* changes that state.nodes shows
  queue,     \* the links of commitQueue that have not settled
  stage,     \* where the save of the first link is
  size,      \* commitQueueSize
  disk,      \* changes that state.json shows
  finals,    \* mustPersist commits so far
  failures,  \* failed saves so far
  crashes,   \* deaths of the process so far
  acked      \* the mustPersist commits whose await is over

vars == <<dag, state, queue, stage, size, disk, finals, failures, crashes, acked>>

Link == [content : Nat, awaited : BOOLEAN]

TypeOK ==
  /\ dag \in Nat /\ state \in Nat /\ disk \in Nat
  /\ queue \in Seq(Link)
  /\ stage \in {"waiting", "writing", "renaming"}
  /\ size \in Int
  /\ finals \in Nat /\ failures \in Nat /\ crashes \in Nat
  /\ acked \in SUBSET [content : Nat, saved : BOOLEAN]

Init ==
  /\ dag = 0 /\ state = 0 /\ disk = 0
  /\ queue = <<>> /\ stage = "waiting" /\ size = 0
  /\ finals = 0 /\ failures = 0 /\ crashes = 0
  /\ acked = {}

-----------------------------------------------------------------------------
(* The callers of commitState.                                             *)

(* The DAG changes without a commit: onKill fails a node, a result is      *)
(* applied just before its runNode refreshes the state, or after the run   *)
(* was cancelled.                                                          *)
Change ==
  /\ dag < MaxChanges
  /\ dag' = dag + 1
  /\ UNCHANGED <<state, queue, stage, size, disk, finals, failures, crashes, acked>>

(* commitState: a clone of the state is queued, unless enough are waiting  *)
(* and the caller does not insist.                                         *)
(* Mutant: an awaited snapshot overtakes the rest.                         *)
CommitFinalFirst(content, awaited) ==
  IF ~awaited /\ size >= MaxCommitQueue
  THEN UNCHANGED <<queue, size>>
  ELSE /\ queue' = IF awaited /\ stage = "waiting"
                   THEN <<[content |-> content, awaited |-> awaited]>> \o queue
                   ELSE Append(queue, [content |-> content, awaited |-> awaited])
       /\ size' = size + 1

CommitState(content, awaited) ==
  IF ~awaited /\ size >= MaxCommitQueue
  THEN UNCHANGED <<queue, size>>
  ELSE /\ queue' = Append(queue, [content |-> content, awaited |-> awaited])
       /\ size' = size + 1

(* refreshState and commitState, where a node starts or ends and where     *)
(* fallbacks are created.                                                  *)
CommitProgress ==
  /\ state' = dag
  /\ CommitState(dag, FALSE)
  /\ UNCHANGED <<dag, stage, disk, finals, failures, crashes, acked>>

(* The persist timer of a running node commits without a refresh.          *)
CommitOnTimer ==
  /\ CommitState(state, FALSE)
  /\ UNCHANGED <<dag, state, stage, disk, finals, failures, crashes, acked>>

(* The end of a run: refreshState and an awaited commitState.              *)
CommitFinal ==
  /\ finals < MaxFinals
  /\ finals' = finals + 1
  /\ state' = dag
  /\ CommitState(dag, TRUE)
  /\ UNCHANGED <<dag, stage, disk, failures, crashes, acked>>

-----------------------------------------------------------------------------
(* The chain.                                                              *)

(* The first link's callback is called: the counter goes down, mkdir and   *)
(* writeFile are under way.  Mutant: without the catch clause a rejected   *)
(* chain calls no further callback.                                        *)
BeginSaveUncaught ==
  /\ queue # <<>> /\ stage = "waiting" /\ failures = 0
  /\ stage' = "writing"
  /\ size' = size - 1
  /\ UNCHANGED <<dag, state, queue, disk, finals, failures, crashes, acked>>

BeginSave ==
  /\ queue # <<>> /\ stage = "waiting"
  /\ stage' = "writing"
  /\ size' = size - 1
  /\ UNCHANGED <<dag, state, queue, disk, finals, failures, crashes, acked>>

WriteTemp ==
  /\ stage = "writing"
  /\ stage' = "renaming"
  /\ UNCHANGED <<dag, state, queue, size, disk, finals, failures, crashes, acked>>

(* The first link settles and, if someone awaits it, the await is over,    *)
(* whether the save worked or not.                                         *)
Settle(saved) ==
  /\ queue' = Tail(queue)
  /\ stage' = "waiting"
  /\ acked' = acked \cup
       {[content |-> l.content, saved |-> saved] : l \in {m \in {Head(queue)} : m.awaited}}

RenameTemp ==
  /\ stage = "renaming"
  /\ disk' = Head(queue).content
  /\ Settle(TRUE)
  /\ UNCHANGED <<dag, state, size, finals, failures, crashes>>

(* mkdir, writeFile or rename fails: the catch clause of the link takes    *)
(* the counter down a second time.  Mutant: save reports no error.         *)
SaveFailsSilently ==
  /\ stage \in {"writing", "renaming"} /\ failures < MaxFailures
  /\ failures' = failures + 1
  /\ size' = size - 1
  /\ Settle(TRUE)
  /\ UNCHANGED <<dag, state, disk, finals, crashes>>

SaveFails ==
  /\ stage \in {"writing", "renaming"} /\ failures < MaxFailures
  /\ failures' = failures + 1
  /\ size' = size - 1
  /\ Settle(FALSE)
  /\ UNCHANGED <<dag, state, disk, finals, crashes>>

(* The process dies (the forced exit after SIGINT, or a power cut) and the *)
(* run is resumed from the file.  Mutant: the file is not loaded.          *)
CrashAndRestart ==
  /\ crashes < MaxCrashes
  /\ crashes' = crashes + 1
  /\ dag' = 0 /\ state' = 0
  /\ queue' = <<>> /\ stage' = "waiting" /\ size' = 0
  /\ finals' = 0 /\ failures' = 0
  /\ UNCHANGED <<disk, acked>>

CrashAndResume ==
  /\ crashes < MaxCrashes
  /\ crashes' = crashes + 1
  /\ dag' = disk /\ state' = disk
  /\ queue' = <<>> /\ stage' = "waiting" /\ size' = 0
  /\ finals' = 0 /\ failures' = 0
  /\ UNCHANGED <<disk, acked>>

SaveStep == BeginSave \/ WriteTemp \/ RenameTemp \/ SaveFails

Next ==
  \/ Change
  \/ CommitProgress
  \/ CommitOnTimer
  \/ CommitFinal
  \/ SaveStep
  \/ CrashAndResume

Spec == Init /\ [][Next]_vars

(* File system calls come back, with a result or an error.                 *)
FairSpec == Spec /\ WF_vars(SaveStep)

-----------------------------------------------------------------------------
(* Safety.                                                                 *)

(* The links whose callback has not been called, and those of them that    *)
(* hold an intermediate snapshot.                                          *)
Waiting == (IF stage = "waiting" THEN 1 ELSE 2) .. Len(queue)

Intermediate == {i \in Waiting : ~queue[i].awaited}

(* The snapshots are queued in the order of their states, none older than  *)
(* the file and none newer than the state they were cloned from.           *)
QueueInOrder ==
  /\ disk <= state /\ state <= dag
  /\ \A i \in 1 .. Len(queue) : disk <= queue[i].content /\ queue[i].content <= state
  /\ \A i, j \in 1 .. Len(queue) : i <= j => queue[i].content <= queue[j].content

(* commitQueueSize is the number of waiting links less one for every save  *)
(* that failed: a failed save takes the counter down in its callback and   *)
(* again in its catch clause.                                              *)
NumWaiting == IF stage = "waiting" THEN Len(queue) ELSE Len(queue) - 1

CounterDrifts == size = NumWaiting - failures

SavingIsQueued == stage # "waiting" => queue # <<>>

(* A mustPersist commit whose save worked is on disk, and whatever is      *)
(* saved, fails or is killed later does not take it back: the next process *)
(* resumes from that state or a later one.                                 *)
AckedIsDurable == \A r \in acked : r.saved => r.content <= disk

(* The inductive invariant: all of the above.                              *)
IInv ==
  /\ TypeOK
  /\ SavingIsQueued
  /\ QueueInOrder
  /\ CounterDrifts
  /\ AckedIsDurable

(* The comment of commitState: "skip intermediate snapshots when queue is  *)
(* full".                                                                  *)
SkippedWhenFull == Cardinality(Intermediate) <= MaxCommitQueue

(* The comment on the await of commitState: it is there because the caller *)
(* "needs durability guarantee".                                           *)
DurableWhenAwaited == \A r \in acked : r.content <= disk

(* Through saves, failures, coalescing and crashes the file implements     *)
(* SnapshotStore.                                                          *)
Store == INSTANCE SnapshotStore WITH reached <- dag, stored <- disk

ImplementsStore == Store!Spec

(* Liveness.                                                               *)

(* Nobody awaits a mustPersist commit for ever, so that the end of a run   *)
(* is not held up by the chain.                                            *)
Awaited == \E i \in 1 .. Len(queue) : queue[i].awaited

AwaitsEnd == Awaited ~> ~Awaited
=============================================================================
