---------------------------- MODULE ChatSession ----------------------------
(***************************************************************************)
(* A chat: the files that src/commands/chat.ts keeps while Kimi runs in    *)
(* its terminal (runKimiInteractive of src/kimi/runner.ts), and how it     *)
(* ends.                                                                   *)
(*                                                                         *)
(* state.json of the chat is changed by patches, one heartbeat or activity *)
(* each, through the queue of src/util/chat-state.ts; todos parsed from    *)
(* the output are written, after a pause, by a sync of several awaits,     *)
(* which also writes session.json.  A chat that has ended or was killed    *)
(* may be resumed, over the files it left.  Left out are what the patches  *)
(* say, the banner and filters on the output, and the report about a chat  *)
(* that failed.                                                            *)
(***************************************************************************)
EXTENDS Naturals, Sequences, FiniteSets

CONSTANTS
  Todo,          \* todos the output may name
  MaxUpdates,    \* bound on heartbeats and activities
  MaxSyncs,      \* bound on the syncs of the todos in a session
  MaxIOFaults,   \* bound on the reads and writes that fail
  MaxResumes     \* bound on the resumptions

ASSUME ChatAssumption ==
  MaxUpdates \in Nat /\ MaxSyncs \in Nat /\ MaxIOFaults \in Nat /\ MaxResumes \in Nat

VARIABLES
  chatPhase,    \* of the chat
  exitOk,       \* Kimi exited with code 0
  ops,          \* patches in the queue of state.json; a patch is its number
  draining,     \* running: a loop takes patches from the queue
  drain,        \* patches read and not yet written, with the state found
  chatState,    \* state.json: its status and the patches it contains
  parses,       \* state.json can be parsed
  updates,      \* heartbeats and activities so far
  patches,      \* patches so far
  final,        \* the patch of finalizeChatState, 0 for none yet
  resolved,     \* patches whose promise is resolved
  dropped,      \* those of them that failed
  unfinished,   \* pendingUpdates: patches and syncs that the end waits for
  pausing,      \* the pause before a sync is running
  accumulated,  \* todos for the next sync
  sync,         \* the syncs
  todos,        \* todos.json
  meta,         \* the status in session.json
  parsed,       \* todos parsed in this session, on top of those it found
  ioFaults,     \* faults so far
  resumes       \* resumptions so far

queueVars == <<ops, draining, drain, chatState, parses, resolved, dropped>>
todoVars == <<pausing, accumulated, sync, todos, parsed>>
boundVars == <<updates, ioFaults, resumes>>
chatVars == <<chatPhase, exitOk, queueVars, patches, final, unfinished, todoVars, meta, boundVars>>

(* Every session adds a patch for each sync, and the last one.             *)
MaxPatches == MaxUpdates + (MaxResumes + 1) * (MaxSyncs + 1)

Patch == 1 .. MaxPatches
Sync == 1 .. MaxSyncs
Ended == {"completed", "failed"}

ChatFile == [status : {"running"} \cup Ended, applied : SUBSET Patch]

ChatTypeOK ==
  /\ chatPhase \in {"chatting", "closing", "finalizing", "marking", "closed", "killed"}
  /\ exitOk \in BOOLEAN
  /\ ops \in Seq(Patch) /\ draining \in BOOLEAN
  /\ drain \subseteq [patch : Patch, at : {"read", "open", "write"}, found : ChatFile]
  /\ chatState \in ChatFile /\ parses \in BOOLEAN
  /\ patches \in 0 .. MaxPatches /\ final \in 0 .. MaxPatches
  /\ resolved \subseteq Patch /\ dropped \subseteq resolved
  /\ unfinished \subseteq ({"patch"} \X Patch) \cup ({"sync"} \X Sync)
  /\ pausing \in BOOLEAN /\ accumulated \subseteq Todo
  /\ sync \in [Sync -> [at : {"none", "read", "write", "meta", "patch", "over"},
                        new : SUBSET Todo, merged : SUBSET Todo, patch : 0 .. MaxPatches]]
  /\ todos \subseteq Todo /\ parsed \subseteq Todo
  /\ meta \in {"active"} \cup Ended
  /\ updates \in 0 .. MaxUpdates /\ ioFaults \in 0 .. MaxIOFaults /\ resumes \in 0 .. MaxResumes

NoSync == [at |-> "none", new |-> {}, merged |-> {}, patch |-> 0]

(* ensureChatRunState has written the files of a new chat.                 *)
ChatInit ==
  /\ chatPhase = "chatting" /\ exitOk = FALSE
  /\ ops = <<>> /\ draining = FALSE /\ drain = {}
  /\ chatState = [status |-> "running", applied |-> {}] /\ parses = TRUE
  /\ patches = 0 /\ final = 0 /\ resolved = {} /\ dropped = {}
  /\ unfinished = {}
  /\ pausing = FALSE /\ accumulated = {}
  /\ sync = [s \in Sync |-> NoSync]
  /\ todos = {} /\ parsed = {} /\ meta = "active"
  /\ updates = 0 /\ ioFaults = 0 /\ resumes = 0

Alive == chatPhase \notin {"closed", "killed"}

-----------------------------------------------------------------------------
(* The queue of state.json.                                                *)

Reading(p) == [patch |-> p, at |-> "read", found |-> [status |-> "running", applied |-> {}]]

(* enqueue: the loop that drains the queue is started unless it runs, and  *)
(* takes its first patch at once.  Mutant: it is always started.           *)
EnqueueAndDrain(p) ==
  /\ draining' = TRUE
  /\ drain' = drain \cup {Reading(Head(Append(ops, p)))}
  /\ ops' = Tail(Append(ops, p))

Enqueue(p) ==
  IF draining THEN ops' = Append(ops, p) /\ UNCHANGED <<draining, drain>>
  ELSE /\ draining' = TRUE
       /\ drain' = drain \cup {Reading(Head(Append(ops, p)))}
       /\ ops' = Tail(Append(ops, p))

(* The loop goes on with the next patch or ends.                           *)
TakeNext(d) ==
  IF ops = <<>> THEN drain' = drain \ {d} /\ draining' = FALSE /\ UNCHANGED ops
  ELSE drain' = (drain \ {d}) \cup {Reading(Head(ops))} /\ ops' = Tail(ops) /\ UNCHANGED draining

(* The promise of a patch is resolved, whether it failed or not.  Mutant:  *)
(* without the finally, a failure is not answered.                         *)
AnsweredUnlessFailed(d, failed) ==
  /\ resolved' = IF failed THEN resolved ELSE resolved \cup {d.patch}
  /\ unfinished' = IF failed THEN unfinished ELSE unfinished \ {<<"patch", d.patch>>}
  /\ UNCHANGED dropped
  /\ TakeNext(d)

NextPatch(d, failed) ==
  /\ resolved' = resolved \cup {d.patch}
  /\ unfinished' = unfinished \ {<<"patch", d.patch>>}
  /\ dropped' = IF failed THEN dropped \cup {d.patch} ELSE dropped
  /\ TakeNext(d)

ReadState(d) ==
  /\ Alive /\ d.at = "read"
  /\ IF parses
     THEN /\ drain' = (drain \ {d}) \cup {[d EXCEPT !.at = "open", !.found = chatState]}
          /\ UNCHANGED <<ops, draining, resolved, dropped, unfinished>>
     ELSE NextPatch(d, TRUE)
  /\ UNCHANGED <<chatPhase, exitOk, chatState, parses, patches, final, todoVars, meta, boundVars>>

(* writeFile empties the file before it writes it.                         *)
OpenState(d) ==
  /\ Alive /\ d.at = "open"
  /\ parses' = FALSE
  /\ drain' = (drain \ {d}) \cup {[d EXCEPT !.at = "write"]}
  /\ UNCHANGED <<chatPhase, exitOk, ops, draining, chatState, patches, final, resolved, dropped,
                 unfinished, todoVars, meta, boundVars>>

Outcome == IF exitOk THEN "completed" ELSE "failed"

Patched(d) ==
  [status |-> IF d.patch = final THEN Outcome ELSE d.found.status,
   applied |-> d.found.applied \cup {d.patch}]

WriteState(d) ==
  /\ Alive /\ d.at = "write"
  /\ chatState' = Patched(d) /\ parses' = TRUE
  /\ NextPatch(d, FALSE)
  /\ UNCHANGED <<chatPhase, exitOk, patches, final, todoVars, meta, boundVars>>

(* A read fails, or a write, which may leave the file empty.               *)
StateFails(d) ==
  /\ Alive /\ ioFaults < MaxIOFaults
  /\ ioFaults' = ioFaults + 1
  /\ NextPatch(d, TRUE)
  /\ UNCHANGED <<chatPhase, exitOk, chatState, parses, patches, final, todoVars, meta, updates,
                 resumes>>

-----------------------------------------------------------------------------
(* While Kimi runs.                                                        *)

(* A heartbeat, or an activity seen in the output.                         *)
Update ==
  /\ chatPhase = "chatting" /\ updates < MaxUpdates
  /\ updates' = updates + 1 /\ patches' = patches + 1
  /\ Enqueue(patches + 1)
  /\ unfinished' = unfinished \cup {<<"patch", patches + 1>>}
  /\ UNCHANGED <<chatPhase, exitOk, chatState, parses, final, resolved, dropped, todoVars, meta,
                 ioFaults, resumes>>

(* scheduleTodoSync: todos in the output start the pause anew.             *)
TodosParsed(t) ==
  /\ chatPhase = "chatting" /\ \E s \in Sync : sync[s].at = "none"
  /\ accumulated' = accumulated \cup {t} /\ parsed' = parsed \cup {t}
  /\ pausing' = TRUE
  /\ UNCHANGED <<chatPhase, exitOk, queueVars, patches, final, unfinished, sync, todos, meta,
                 boundVars>>

(* flushTodoSync.  Mutant: the sync is not tracked.                        *)
FlushUntracked ==
  /\ pausing' = FALSE /\ accumulated' = {}
  /\ IF accumulated = {} THEN UNCHANGED <<sync, unfinished>>
     ELSE \E s \in Sync :
            /\ sync[s].at = "none" /\ \A r \in 1 .. s - 1 : sync[r].at # "none"
            /\ sync' = [sync EXCEPT ![s].at = "read", ![s].new = accumulated]
            /\ UNCHANGED unfinished

Flush ==
  /\ pausing' = FALSE /\ accumulated' = {}
  /\ IF accumulated = {} THEN UNCHANGED <<sync, unfinished>>
     ELSE \E s \in Sync :
            /\ sync[s].at = "none" /\ \A r \in 1 .. s - 1 : sync[r].at # "none"
            /\ sync' = [sync EXCEPT ![s].at = "read", ![s].new = accumulated]
            /\ unfinished' = unfinished \cup {<<"sync", s>>}

TimerFires ==
  /\ chatPhase = "chatting" /\ pausing
  /\ Flush
  /\ UNCHANGED <<chatPhase, exitOk, queueVars, patches, final, todos, parsed, meta, boundVars>>

-----------------------------------------------------------------------------
(* A sync of the todos.  Two of them may overlap.                          *)

(* A file that is being written, or whose write did not end, cannot be     *)
(* parsed and is read as one without todos.                                *)
TodosLeft == {todos} \cup (IF \E s \in Sync : sync[s].at = "write" THEN {{}} ELSE {})

SyncReads(s) ==
  /\ Alive /\ sync[s].at = "read"
  /\ \E found \in TodosLeft :
       sync' = [sync EXCEPT ![s].at = "write", ![s].merged = found \cup sync[s].new]
  /\ UNCHANGED <<chatPhase, exitOk, queueVars, patches, final, unfinished, pausing, accumulated,
                 todos, parsed,
                 meta, boundVars>>

SyncWrites(s) ==
  /\ Alive /\ sync[s].at = "write"
  /\ \/ todos' = sync[s].merged
     \/ (\E r \in Sync \ {s} : sync[r].at = "write") /\ todos' = {}
  /\ sync' = [sync EXCEPT ![s].at = "meta"]
  /\ UNCHANGED <<chatPhase, exitOk, queueVars, patches, final, unfinished, pausing, accumulated,
                 parsed, meta,
                 boundVars>>

(* It marks the session as active and then queues a patch, for which it    *)
(* waits.                                                                  *)
SyncMarks(s) ==
  /\ Alive /\ sync[s].at = "meta"
  /\ meta' = "active"
  /\ patches' = patches + 1
  /\ Enqueue(patches + 1)
  /\ sync' = [sync EXCEPT ![s].at = "patch", ![s].patch = patches + 1]
  /\ UNCHANGED <<chatPhase, exitOk, chatState, parses, final, resolved, dropped, unfinished,
                 pausing, accumulated,
                 todos, parsed, boundVars>>

SyncOver(s) ==
  /\ sync' = [sync EXCEPT ![s].at = "over"]
  /\ unfinished' = unfinished \ {<<"sync", s>>}

SyncEnds(s) ==
  /\ Alive /\ sync[s].at = "patch" /\ sync[s].patch \in resolved
  /\ SyncOver(s)
  /\ UNCHANGED <<chatPhase, exitOk, queueVars, patches, final, pausing, accumulated, todos,
                 parsed, meta, boundVars>>

SyncFails(s) ==
  /\ Alive /\ sync[s].at \in {"write", "meta"} /\ ioFaults < MaxIOFaults
  /\ ioFaults' = ioFaults + 1
  /\ SyncOver(s)
  /\ todos' \in TodosLeft
  /\ UNCHANGED <<chatPhase, exitOk, queueVars, patches, final, pausing, accumulated, parsed,
                 meta, updates, resumes>>

-----------------------------------------------------------------------------
(* The end.                                                                *)

(* Kimi exits or cannot be started, also after a signal that is handled:   *)
(* the heartbeat stops and the last todos are flushed.                     *)
KimiExits(ok) ==
  /\ chatPhase = "chatting"
  /\ chatPhase' = "closing" /\ exitOk' = ok
  /\ Flush
  /\ UNCHANGED <<queueVars, patches, final, todos, parsed, meta, boundVars>>

Finalize ==
  /\ chatPhase = "closing" /\ unfinished = {}
  /\ chatPhase' = "finalizing"
  /\ patches' = patches + 1 /\ final' = patches + 1
  /\ Enqueue(patches + 1)
  /\ UNCHANGED <<exitOk, chatState, parses, resolved, dropped, unfinished, todoVars, meta,
                 boundVars>>

Finalized ==
  /\ chatPhase = "finalizing" /\ final \in resolved
  /\ chatPhase' = "marking"
  /\ UNCHANGED <<exitOk, queueVars, patches, final, unfinished, todoVars, meta, boundVars>>

(* session.json is updated; failures are ignored.                          *)
CloseSession ==
  /\ chatPhase = "marking"
  /\ chatPhase' = "closed"
  /\ \/ meta' = Outcome /\ UNCHANGED ioFaults
     \/ ioFaults < MaxIOFaults /\ ioFaults' = ioFaults + 1 /\ UNCHANGED meta
  /\ UNCHANGED <<exitOk, queueVars, patches, final, unfinished, todoVars, updates, resumes>>

(* The process is killed, or ends at the signal handler that removes the   *)
(* runtime MCP configuration and exits.                                    *)
Killed ==
  /\ Alive /\ ioFaults < MaxIOFaults
  /\ ioFaults' = ioFaults + 1
  /\ chatPhase' = "killed"
  /\ todos' \in TodosLeft
  /\ UNCHANGED <<exitOk, queueVars, patches, final, unfinished, pausing, accumulated, sync,
                 parsed, meta, updates, resumes>>

(* omk chat --run-id: the files are taken as they are when state.json      *)
(* exists, also its status.                                                *)
Resume ==
  /\ ~Alive /\ resumes < MaxResumes
  /\ resumes' = resumes + 1
  /\ chatPhase' = "chatting" /\ final' = 0
  /\ ops' = <<>> /\ draining' = FALSE /\ drain' = {} /\ unfinished' = {}
  /\ pausing' = FALSE /\ accumulated' = {} /\ sync' = [s \in Sync |-> NoSync]
  /\ parsed' = todos
  /\ UNCHANGED <<exitOk, chatState, parses, patches, resolved, dropped, todos, meta, updates,
                 ioFaults>>

ChatNext ==
  \/ Update \/ \E t \in Todo : TodosParsed(t)
  \/ TimerFires
  \/ \E d \in drain : ReadState(d) \/ OpenState(d) \/ WriteState(d) \/ StateFails(d)
  \/ \E s \in Sync : SyncReads(s) \/ SyncWrites(s) \/ SyncMarks(s) \/ SyncEnds(s) \/ SyncFails(s)
  \/ \E ok \in BOOLEAN : KimiExits(ok)
  \/ Finalize \/ Finalized \/ CloseSession
  \/ Killed \/ Resume

(* Reads and writes of files end, and what awaits them goes on.            *)
ChatFairness ==
  /\ WF_chatVars(\E d \in drain : ReadState(d) \/ OpenState(d) \/ WriteState(d))
  /\ \A s \in Sync : WF_chatVars(SyncReads(s) \/ SyncWrites(s) \/ SyncMarks(s) \/ SyncEnds(s))
  /\ WF_chatVars(Finalize \/ Finalized \/ CloseSession)

ChatSpec == ChatInit /\ [][ChatNext]_chatVars /\ ChatFairness

-----------------------------------------------------------------------------
(* Safety.                                                                 *)

(* The patches in the queue and the one it is at.                          *)
Queued == {d.patch : d \in drain} \cup {ops[i] : i \in DOMAIN ops}

(* One patch at a time is read and written, each of them once.             *)
OnePatchAtATime ==
  /\ draining <=> drain # {}
  /\ ops # <<>> => draining
  /\ \A d, e \in drain : d = e
  /\ \A i, j \in DOMAIN ops : i # j => ops[i] # ops[j]
  /\ \A d \in drain, i \in DOMAIN ops : d.patch # ops[i]
  /\ \A d \in drain : d.at # "read" => d.found = chatState
  /\ \A d \in drain : d.at = "open" => parses
  /\ Queued \cap resolved = {} /\ Queued \cup resolved \subseteq 1 .. patches

(* Where patches come from.                                                *)
PatchesCounted ==
  /\ \A s \in Sync : sync[s].at \notin {"patch", "over"} => sync[s].patch = 0
  /\ patches <= updates + Cardinality({s \in Sync : sync[s].patch # 0})
                  + (IF final = 0 THEN 0 ELSE 1) + resumes * (MaxSyncs + 1)

(* The end waits for every patch but its own and for every sync, ...       *)
AwaitedAtEnd(p) ==
  \/ <<"patch", p>> \in unfinished \/ p = final
  \/ \E s \in Sync : sync[s].at = "patch" /\ sync[s].patch = p

EndAwaitsAll ==
  /\ \A p \in Queued : AwaitedAtEnd(p)
  /\ \A s \in Sync : sync[s].at \notin {"none", "over"} => <<"sync", s>> \in unfinished

(* ... so that the patch of the end is the last one.                       *)
FinalIsLast ==
  /\ chatPhase \in {"chatting", "closing"} => final = 0
  /\ chatPhase \in {"finalizing", "marking", "closed"} =>
       unfinished = {} /\ final # 0 /\ ops = <<>> /\ \A d \in drain : d.patch = final
  /\ chatPhase \in {"marking", "closed"} => final \in resolved
  /\ final \in resolved \ dropped => parses /\ chatState.status = Outcome
  /\ chatPhase = "closed" /\ ioFaults = 0 => meta = Outcome

(* A todo is on its way into a sync, has been through one or was found.    *)
OnItsWay(s, t) ==
  \/ sync[s].at = "read" /\ t \in sync[s].new
  \/ sync[s].at \notin {"none", "read"} /\ t \in sync[s].merged

TodosOnTheirWay ==
  /\ chatPhase \notin {"chatting", "killed"} => accumulated = {}
  /\ ioFaults = 0 => \A t \in parsed :
       \/ t \in accumulated
       \/ \E s \in Sync : OnItsWay(s, t)
       \/ t \in todos /\ \A s \in Sync : sync[s].at \in {"none", "read"}

(* A patch that was answered without a failure is in what state.json was   *)
(* last written to hold, over resumptions too: no patch read the file      *)
(* before another one was written.                                         *)
ChatInv ==
  /\ ChatTypeOK /\ OnePatchAtATime /\ PatchesCounted
  /\ EndAwaitsAll /\ FinalIsLast /\ TodosOnTheirWay
  /\ resolved \ dropped \subseteq chatState.applied

(* A chat that has ended leaves nothing behind that could still write:     *)
(* every patch and every sync, also the one that began as Kimi exited, is  *)
(* over, so that both files keep the end that was recorded last, unless    *)
(* recording it failed; and every todo has been through a sync, although   *)
(* one sync may have overwritten another's.                                *)
ChatCloses ==
  chatPhase = "closed" =>
    /\ ops = <<>> /\ drain = {} /\ ~draining
    /\ \A s \in Sync : sync[s].at \in {"none", "over"}
    /\ final \notin dropped => parses /\ chatState.status = Outcome
    /\ ioFaults = 0 =>
         meta = Outcome /\ parsed \subseteq todos \cup UNION {sync[s].merged : s \in Sync}

-----------------------------------------------------------------------------
(* Liveness.                                                               *)

(* The command that runs the chat comes to its end once Kimi has, whatever *)
(* patches and syncs are under way and whichever of them fail.             *)
ChatEnds == chatPhase = "closing" ~> ~Alive
=============================================================================
