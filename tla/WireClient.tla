----------------------------- MODULE WireClient -----------------------------
(***************************************************************************)
(* One KimiWireClient of src/kimi/wire-client.ts: JSON-RPC calls to a      *)
(* "kimi --wire" process, ended by a response, by their time limit, by the *)
(* exit of the process or by stop, whichever comes first.                  *)
(*                                                                         *)
(* A call is its id, the number nextId gave it; ids are counted for the    *)
(* whole program, so that no other client and no later process reuses one. *)
(* A response is no more than its id.  Events for the handlers (status     *)
(* messages, text, requests of the server) change no call and are left out.*)
(***************************************************************************)
EXTENDS Naturals, FiniteSets

CONSTANTS
  MaxPendingRpcs,  \* MAX_PENDING_RPCS
  MaxCalls,        \* bound on the calls made
  MaxKimis         \* bound on the processes spawned

ASSUME WireClientAssumption ==
  /\ MaxPendingRpcs \in Nat \ {0}
  /\ MaxCalls \in Nat /\ MaxKimis \in Nat

VARIABLES
  requestId,  \* ids given so far
  call,       \* what became of the promise of each call
  pending,    \* the keys of the pending map
  timers,     \* the calls whose time limit is running
  sentTo,     \* the process a call was written to
  spawned,    \* processes spawned so far
  proc,       \* this.proc, 0 when undefined
  rl,         \* the process whose lines are read, 0 when rl is undefined
  kimi        \* the life of each process

wireVars == <<requestId, call, pending, timers, sentTo, spawned, proc, rl, kimi>>

Id == 1 .. MaxCalls

Kimi == 1 .. MaxKimis

(* "exited": ended, the exit event still to be handled; "reaped": the      *)
(* event was handled; "detached": stop removed its listeners.              *)
WireTypeOK ==
  /\ requestId \in 0 .. MaxCalls
  /\ call \in [Id -> {"new", "open", "answered", "failed"}]
  /\ pending \subseteq Id /\ timers \subseteq Id
  /\ sentTo \in [Id -> 0 .. MaxKimis]
  /\ spawned \in 0 .. MaxKimis
  /\ proc \in 0 .. MaxKimis /\ rl \in 0 .. MaxKimis
  /\ kimi \in [Kimi -> {"none", "running", "exited", "reaped", "detached"}]

WireInit ==
  /\ requestId = 0
  /\ call = [i \in Id |-> "new"]
  /\ pending = {} /\ timers = {}
  /\ sentTo = [i \in Id |-> 0]
  /\ spawned = 0 /\ proc = 0 /\ rl = 0
  /\ kimi = [k \in Kimi |-> "none"]

-----------------------------------------------------------------------------
(* Sending.                                                                *)

(* The body of call() up to its await: a new id, a time limit, an entry in *)
(* the map and a line for process k; an exception takes both back.         *)
(* Mutant: one call too many.                                              *)
SendOneTooMany(k, stdinOpen) ==
  LET i == requestId + 1 IN
  /\ i \in Id /\ Cardinality(pending) <= MaxPendingRpcs
  /\ requestId' = i
  /\ call' = [call EXCEPT ![i] = IF stdinOpen THEN "open" ELSE "failed"]
  /\ sentTo' = [sentTo EXCEPT ![i] = k]
  /\ pending' = IF stdinOpen THEN pending \cup {i} ELSE pending
  /\ timers' = IF stdinOpen THEN timers \cup {i} ELSE timers

Send(k, stdinOpen) ==
  LET i == requestId + 1 IN
  /\ i \in Id /\ Cardinality(pending) < MaxPendingRpcs
  /\ requestId' = i
  /\ call' = [call EXCEPT ![i] = IF stdinOpen THEN "open" ELSE "failed"]
  /\ sentTo' = [sentTo EXCEPT ![i] = k]
  /\ pending' = IF stdinOpen THEN pending \cup {i} ELSE pending
  /\ timers' = IF stdinOpen THEN timers \cup {i} ELSE timers

(* start: spawn, attach the listeners, and call "initialize".  Its callers *)
(* start a client that has no process, or one whose process is gone.       *)
Start ==
  /\ proc # 0 => kimi[proc] = "reaped"
  /\ spawned < MaxKimis
  /\ spawned' = spawned + 1
  /\ proc' = spawned' /\ rl' = spawned'
  /\ kimi' = [kimi EXCEPT ![spawned'] = "running"]
  /\ Send(spawned', TRUE)

(* prompt, steer and cancel.  Node destroys the stdin of a child before it *)
(* emits exit: until then a line to a dead process is lost without a word. *)
CallKimi ==
  /\ proc # 0
  /\ Send(proc, kimi[proc] # "reaped")
  /\ UNCHANGED <<spawned, proc, rl, kimi>>

-----------------------------------------------------------------------------
(* Settling.                                                               *)

(* The line handler: a response whose id is in the map, from the process   *)
(* that is read, settles the call; any other is dropped.                   *)
Response(i) ==
  /\ rl # 0 /\ sentTo[i] = rl
  /\ i \in pending
  /\ call' = [call EXCEPT ![i] = "answered"]
  /\ pending' = pending \ {i}
  /\ timers' = timers \ {i}
  /\ UNCHANGED <<requestId, sentTo, spawned, proc, rl, kimi>>

(* The rejection of a promise: a settled promise stays as it is.           *)
Rejected(S) ==
  [i \in Id |-> IF i \in S /\ call[i] = "open" THEN "failed" ELSE call[i]]

(* The callback of the time limit of a call.                               *)
TimeLimit(i) ==
  /\ i \in timers
  /\ call' = Rejected({i})
  /\ pending' = pending \ {i}
  /\ timers' = timers \ {i}
  /\ UNCHANGED <<requestId, sentTo, spawned, proc, rl, kimi>>

(* The process ends, by itself or killed from outside.                     *)
KimiEnds(k) ==
  /\ kimi[k] = "running"
  /\ kimi' = [kimi EXCEPT ![k] = "exited"]
  /\ UNCHANGED <<requestId, call, pending, timers, sentTo, spawned, proc, rl>>

(* The exit event: the reader is closed and every pending call rejected.   *)
(* Mutant: the map is forgotten, not rejected.                             *)
ExitHandlerForgets(k) ==
  /\ kimi[k] = "exited"
  /\ kimi' = [kimi EXCEPT ![k] = "reaped"]
  /\ rl' = 0
  /\ pending' = {} /\ timers' = timers \ pending
  /\ UNCHANGED <<requestId, call, sentTo, spawned, proc>>

ExitHandler(k) ==
  /\ kimi[k] = "exited"
  /\ kimi' = [kimi EXCEPT ![k] = "reaped"]
  /\ rl' = 0
  /\ call' = Rejected(pending)
  /\ pending' = {} /\ timers' = timers \ pending
  /\ UNCHANGED <<requestId, sentTo, spawned, proc>>

(* stop: the same, and the process is left to end unobserved.              *)
(* Mutant: the calls are left to their time limits.                        *)
StopLeavesCalls ==
  /\ proc # 0
  /\ rl' = 0 /\ proc' = 0
  /\ kimi' = [kimi EXCEPT ![proc] = "detached"]
  /\ UNCHANGED <<requestId, call, pending, timers, sentTo, spawned>>

Stop ==
  /\ proc # 0
  /\ call' = Rejected(pending)
  /\ pending' = {} /\ timers' = timers \ pending
  /\ rl' = 0 /\ proc' = 0
  /\ kimi' = [kimi EXCEPT ![proc] = "detached"]
  /\ UNCHANGED <<requestId, sentTo, spawned>>

WireNext ==
  \/ Start
  \/ CallKimi
  \/ \E i \in Id : Response(i) \/ TimeLimit(i)
  \/ \E k \in Kimi : KimiEnds(k) \/ ExitHandler(k)
  \/ Stop

WireSpec == WireInit /\ [][WireNext]_wireVars

(* Timers fire and the exit event comes.  Nobody has to answer, and no     *)
(* caller has to stop the client.                                          *)
WireFairness == \A i \in Id : WF_wireVars(TimeLimit(i))

WireFairSpec == WireSpec /\ WireFairness

-----------------------------------------------------------------------------
(* Safety.                                                                 *)

(* The map, the time limits and the unsettled promises are the same calls  *)
(* through every race of a response, a time limit, an exit and a stop: a   *)
(* call out of the map is settled, and no timer outlives its call.         *)
CallsTracked ==
  /\ pending = {i \in Id : call[i] = "open"}
  /\ timers = pending

(* A call waits only for the process it was written to and that is still   *)
(* read: none is left behind by an exit that was handled, by a stop, or    *)
(* for the next process.                                                   *)
NoCallLeftBehind ==
  \A i \in pending : sentTo[i] = proc /\ proc # 0 /\ rl = proc /\ kimi[proc] \in {"running", "exited"}

(* What was never given an id is new, what was is not.                     *)
IdsInOrder ==
  /\ \A i \in Id : (call[i] = "new") <=> (i > requestId)
  /\ \A k \in Kimi : (kimi[k] = "none") <=> (k > spawned)
  /\ proc <= spawned
  /\ \A k \in Kimi : kimi[k] \in {"running", "exited"} => k = proc

(* The process of the client is read until its exit event was handled.     *)
ProcessRead ==
  proc # 0 => \/ kimi[proc] = "reaped"
              \/ kimi[proc] \in {"running", "exited"} /\ rl = proc

(* The inductive invariant.                                                *)
WireInv ==
  /\ WireTypeOK
  /\ IdsInOrder
  /\ ProcessRead
  /\ CallsTracked
  /\ NoCallLeftBehind
  /\ Cardinality(pending) <= MaxPendingRpcs

(* To its callers the client is CallContract: what settles a call first    *)
(* settles it for good.                                                    *)
WireCalls == INSTANCE CallContract
               WITH Call <- Id, MaxOpen <- MaxPendingRpcs, status <- call

ImplementsCalls == WireCalls!Spec

(* Liveness: no call waits for ever, whatever becomes of the process.      *)
CallsSettle == \A i \in Id : call[i] = "open" ~> call[i] # "open"
=============================================================================
