-------------------------- MODULE ExecutorProofs --------------------------
(***************************************************************************)
(* Proofs about Executor, for every set of nodes, every set of acyclic     *)
(* definitions, every number of workers, kills and retries: the            *)
(* inductive invariant IInv, the safety properties that follow from it,    *)
(* and that the executor implements RunContract.                           *)
(***************************************************************************)
EXTENDS Executor, TLAPS, FiniteSetTheorems

-----------------------------------------------------------------------------
(* The status machine of DagScheduler.                                     *)

(* There are finitely many nodes.                                          *)
LEMMA NodeFinite == IsFiniteSet(Node)
<1>1. IsFiniteSet(BaseNode) /\ IsFiniteSet(FallbackNode)
  BY NodesAssumption
<1> QED BY <1>1, FS_Union DEF Node

(* blockDependents and skipNode never reach a done or a running node.      *)
LEMMA ReachedInTarget ==
  ASSUME NEW d, NEW dep, NEW target, NEW f
  PROVE  Reached(f, RequireEdges(d, dep, target)) \subseteq target
<1>1. \A e \in RequireEdges(d, dep, target) : e[2] \in target
  BY DEF RequireEdges
<1> QED BY <1>1 DEF Reached

(* updateNodeStatus(n, "failed") changes no other node from or to done,    *)
(* and n itself is not done afterwards.                                    *)
LEMMA AfterFailureStatus ==
  ASSUME NEW d, NEW st \in [Node -> Status], NEW dep, NEW n \in Node, NEW r
  PROVE  /\ AfterFailure(d, st, dep, n, r) \in [Node -> Status]
         /\ AfterFailure(d, st, dep, n, r)[n] # "done"
         /\ \A m \in Node \ {n} :
              AfterFailure(d, st, dep, n, r)[m] = "done" <=> st[m] = "done"
<1> DEFINE failed == Mark(st, {n}, "failed")
           res == AfterFailure(d, st, dep, n, r)
<1>1. /\ failed \in [Node -> Status]
      /\ \A m \in Node : failed[m] = IF m = n THEN "failed" ELSE st[m]
  BY DEF Mark, Status
<1>2. \A m \in ToBlock(d, failed, dep, n) : failed[m] # "done"
  BY ReachedInTarget DEF ToBlock
<1>3. \A m \in ToSkip(d, failed, dep, n) : failed[m] # "done"
  BY ReachedInTarget DEF ToSkip
<1> DEFINE soft == FailsSoftly(d, n)
           ex == Exhausted(d, n, r)
<1>4. CASE ~ex
  <2>1. res = Mark(st, {n}, "pending")
    BY <1>4 DEF AfterFailure
  <2> QED BY <2>1 DEF Mark, Status
<1>5. CASE ex /\ soft
  <2>1. res = Mark(st, {n} \cup ToSkip(d, failed, dep, n), "skipped")
    BY <1>5 DEF AfterFailure
  <2> HIDE DEF failed
  <2> QED BY <1>1, <1>3, <2>1 DEF Mark, Status
<1>6. CASE ex /\ ~soft /\ n \notin d.nonBlocking
  <2>1. res = Mark(failed, ToBlock(d, failed, dep, n), "blocked")
    BY <1>6 DEF AfterFailure
  <2> HIDE DEF failed
  <2> QED BY <1>1, <1>2, <2>1 DEF Mark, Status
<1>7. CASE ex /\ ~soft /\ n \in d.nonBlocking
  <2>1. res = failed
    BY <1>7 DEF AfterFailure
  <2> HIDE DEF failed
  <2> QED BY <1>1, <2>1
<1> QED BY <1>4, <1>5, <1>6, <1>7

-----------------------------------------------------------------------------
(* tick() keeps types and the invariant.                                   *)

(* Nodes to be replaced are nodes the DAG was created with.                *)
LEMMA FallbackNodes ==
  ASSUME TypeOK, NEW st, NEW rt
  PROVE  /\ FallbackDue(st, rt) \subseteq BaseNode
         /\ \A n \in BaseNode : fallbackId[n] \in FallbackNode
<1>1. def.fallback \subseteq BaseNode
  BY DEF TypeOK, Definition
<1>2. \A n \in BaseNode : fallbackId[n] \in FallbackNode
  BY NodesAssumption
<1> QED BY <1>1, <1>2 DEF FallbackDue

LEMMA TickType ==
  ASSUME TypeOK,
         NEW st \in [Node -> Status], NEW rt \in [Node -> Nat],
         NEW ph \in [Node -> Phase], NEW tk \in Nat,
         Tick(st, rt, ph, tk)
  PROVE  /\ status' \in [Node -> Status] /\ dependsOn' \in [Node -> SUBSET Node]
         /\ attempts' \in [Node -> Nat] /\ phase' \in [Node -> Phase]
         /\ pendingTicks' \in Nat /\ aborting' \in BOOLEAN /\ finals' \in SUBSET Verdict
<1>1. CASE TickAfterEnd(st, ph, tk)
  BY <1>1 DEF TickAfterEnd, TypeOK
<1>2. CASE TickCreatesFallbacks(st, rt, ph, tk)
  <2> DEFINE F == FallbackDue(st, rt)
             new == {fallbackId[n] : n \in F}
             freed == {d \in InDag(st) : st[d] = "blocked" /\ dependsOn[d] \cap F # {}}
  <2>1. /\ status' = Mark(Mark(st, F, "skipped"), new \cup freed, "pending")
        /\ dependsOn' = [n \in Node |->
             Redirect(dependsOn[IF n \in new THEN Original(n) ELSE n], F)]
        /\ phase' = ph /\ pendingTicks' = tk + 1
        /\ attempts' = attempts /\ aborting' = aborting /\ finals' = finals
    BY <1>2 DEF TickCreatesFallbacks
  <2>2. status' \in [Node -> Status]
    <3> HIDE DEF F, new, freed
    <3> QED BY <2>1 DEF Mark, Status
  <2>3. \A n \in new : Original(n) \in Node
    <3>1. \A f \in FallbackNode : \E b \in BaseNode : fallbackId[b] = f
      BY NodesAssumption
    <3>2. \A f \in FallbackNode : Original(f) \in BaseNode
      BY <3>1 DEF Original
    <3> QED BY <3>2, FallbackNodes DEF Node
  <2>4. \A D \in SUBSET Node : Redirect(D, F) \in SUBSET Node
    BY FallbackNodes DEF Redirect, Node
  <2>5. dependsOn' \in [Node -> SUBSET Node]
    <3> HIDE DEF F, new
    <3>1. \A n \in Node : dependsOn[IF n \in new THEN Original(n) ELSE n] \in SUBSET Node
      BY <2>3 DEF TypeOK
    <3> QED BY <2>1, <2>4, <3>1
  <2>6. /\ phase' \in [Node -> Phase] /\ pendingTicks' \in Nat
        /\ attempts' = attempts /\ aborting' = aborting /\ finals' = finals
    BY <1>2 DEF TickCreatesFallbacks
  <2> QED BY <2>2, <2>5, <2>6 DEF TypeOK
<1>3. CASE TickCancels(st, rt, ph, tk)
  BY <1>3 DEF TickCancels, TypeOK, Mark, Status, Verdict
<1>4. CASE \E verdict \in Verdict : TickEnds(st, rt, ph, tk, verdict)
  BY <1>4 DEF TickEnds, Proceeds, TypeOK
<1>5. CASE TickHolds(st, rt, ph, tk)
  BY <1>5 DEF TickHolds, Proceeds, TypeOK
<1>6. CASE TickDispatches(st, rt, ph, tk)
  <2>1. PICK toRun \in SUBSET Node :
          /\ status' = Mark(st, toRun, "running")
          /\ phase' = [n \in Node |-> IF n \in toRun THEN "starting" ELSE ph[n]]
          /\ attempts' = [n \in Node |-> IF n \in toRun THEN attempts[n] + 1 ELSE attempts[n]]
          /\ finals' = finals \/ finals' = finals \cup {"failure"}
    BY <1>6 DEF TickDispatches, Proceeds, Eligible, Busy, Runnable
  <2>2. status' \in [Node -> Status]
    BY <2>1 DEF Mark, Status
  <2>3. phase' \in [Node -> Phase]
    BY <2>1 DEF Phase
  <2>4. attempts' \in [Node -> Nat]
    BY <2>1 DEF TypeOK
  <2> QED BY <1>6, <2>1, <2>2, <2>3, <2>4 DEF TickDispatches, Proceeds, Eligible, Busy, TypeOK, Verdict
<1> QED BY <1>1, <1>2, <1>3, <1>4, <1>5, <1>6 DEF Tick

(* The nodes a tick starts join those in flight.                           *)
LEMMA DispatchCount ==
  ASSUME NEW ph \in [Node -> Phase], NEW toRun \in SUBSET Node,
         \A n \in toRun : ph[n] = "idle",
         Cardinality(InFlight(ph)) <= Workers,
         toRun # {} => Cardinality(toRun) + Cardinality(InFlight(ph)) <= Workers
  PROVE  LET ph2 == [n \in Node |-> IF n \in toRun THEN "starting" ELSE ph[n]] IN
         /\ InFlight(ph2) = InFlight(ph) \cup toRun
         /\ Cardinality(InFlight(ph2)) <= Workers
<1> DEFINE ph2 == [n \in Node |-> IF n \in toRun THEN "starting" ELSE ph[n]]
<1>1. InFlight(ph2) = InFlight(ph) \cup toRun
  BY DEF InFlight
<1>2. InFlight(ph) \cap toRun = {}
  BY DEF InFlight
<1>3. IsFiniteSet(InFlight(ph)) /\ IsFiniteSet(toRun)
  BY NodeFinite, FS_Subset DEF InFlight
<1>4. Cardinality(InFlight(ph) \cup toRun) =
        Cardinality(InFlight(ph)) + Cardinality(toRun) - Cardinality(InFlight(ph) \cap toRun)
  BY <1>3, FS_Union
<1>5. Cardinality(InFlight(ph) \cap toRun) = 0
  BY <1>2, FS_EmptySet
<1>6. Cardinality(InFlight(ph)) \in Nat /\ Cardinality(toRun) \in Nat
  BY <1>3, FS_CardinalityType
<1> HIDE DEF ph2
<1>7. CASE toRun = {}
  <2>1. InFlight(ph2) = InFlight(ph)
    BY <1>1, <1>7
  <2> QED BY <1>1, <2>1 DEF ph2
<1>8. CASE toRun # {}
  <2>1. Cardinality(InFlight(ph2)) = Cardinality(InFlight(ph)) + Cardinality(toRun)
    BY <1>1, <1>4, <1>5, <1>6
  <2>2. Cardinality(InFlight(ph2)) <= Workers
    BY <1>6, <1>8, <2>1
  <2> QED BY <1>1, <2>2 DEF ph2
<1> QED BY <1>7, <1>8

(* A tick on sound values leaves a sound state, provided a verdict is not  *)
(* being saved while the signal is set and not yet seen.                   *)
LEMMA TickSound ==
  ASSUME TypeOK,
         NEW st \in [Node -> Status], NEW rt \in [Node -> Nat],
         NEW ph \in [Node -> Phase], NEW tk \in Nat,
         Sound(st, rt, ph, tk),
         finals # {} /\ ~aborting => ~aborted,
         Tick(st, rt, ph, tk),
         retries' = rt, def' = def, aborted' = aborted, outcome' = outcome
  PROVE  Sound(status, retries, phase, pendingTicks)'
<1>1. CASE TickAfterEnd(st, ph, tk)
  BY <1>1 DEF TickAfterEnd, Sound, Over, FallbackDue, HasFallback
<1>2. CASE TickCreatesFallbacks(st, rt, ph, tk)
  <2> DEFINE F == FallbackDue(st, rt)
             new == {fallbackId[n] : n \in F}
             freed == {d \in InDag(st) : st[d] = "blocked" /\ dependsOn[d] \cap F # {}}
  <2>1. /\ F # {} /\ status' = Mark(Mark(st, F, "skipped"), new \cup freed, "pending")
        /\ phase' = ph /\ aborting' = aborting /\ finals' = finals /\ outcome = "none"
    BY <1>2 DEF TickCreatesFallbacks
  <2>2. \A n \in Node : status'[n] = "done" => st[n] = "done"
    <3> HIDE DEF F, new, freed
    <3> QED BY <2>1 DEF Mark
  <2>3. finals = {} \/ aborting
    BY <2>1 DEF Sound, Over
  <2> HIDE DEF F, new, freed
  <2> QED BY <2>1, <2>2, <2>3 DEF Sound
<1>3. CASE TickCancels(st, rt, ph, tk)
  <2>1. /\ aborting' /\ aborted /\ phase' = ph /\ outcome = "none"
        /\ status' = Mark(st, {n \in Node : st[n] \in {"running", "pending"}}, "blocked")
        /\ finals' = finals \cup {"failure"}
    BY <1>3 DEF TickCancels
  <2>2. \A n \in Node : status'[n] = "done" => st[n] = "done"
    BY <2>1 DEF Mark
  <2>3. finals' = {"failure"}
    BY <2>1 DEF Sound
  <2> QED BY <2>1, <2>2, <2>3 DEF Sound
<1>4. ASSUME NEW verdict \in Verdict, TickEnds(st, rt, ph, tk, verdict)
      PROVE  Sound(status, retries, phase, pendingTicks)'
  <2>1. /\ status' = st /\ phase' = ph /\ pendingTicks' = tk /\ finals' = finals \cup {verdict}
        /\ dependsOn' = dependsOn /\ aborting' = aborting
        /\ outcome = "none" /\ ~aborted
        /\ InFlight(ph) = {} /\ FallbackDue(st, rt) = {}
        /\ verdict = (IF IsComplete(def, st) THEN "success" ELSE "failure")
        /\ IsComplete(def, st) \/ IsFailed(def, st, rt)
    BY <1>4 DEF TickEnds, Proceeds
  <2>2. ~aborting
    BY <2>1 DEF Sound
  <2>3. finals' = {verdict}
    BY <2>1, <2>2 DEF Sound, Over
  <2>4. Over(status, retries, phase, pendingTicks)'
    BY <2>1, <2>3 DEF Over, FallbackDue, HasFallback
  <2> QED BY <2>1, <2>2, <2>4 DEF Sound
<1>5. CASE TickHolds(st, rt, ph, tk)
  <2>1. /\ status' = st /\ phase' = ph /\ finals' = finals /\ aborting' = aborting
        /\ InFlight(ph) # {}
    BY <1>5 DEF TickHolds, Proceeds
  <2> QED BY <2>1 DEF Sound, Over
<1>6. CASE TickDispatches(st, rt, ph, tk)
  <2> DEFINE runnable == Runnable(def, st, dependsOn)
             eligible == {n \in runnable : ph[n] = "idle" /\ ~HasFallback(st, n)}
  <2>1. PICK toRun \in SUBSET eligible :
          /\ toRun # {} => Cardinality(toRun) + Cardinality(InFlight(ph)) <= Workers
          /\ status' = Mark(st, toRun, "running")
          /\ phase' = [n \in Node |-> IF n \in toRun THEN "starting" ELSE ph[n]]
          /\ finals' = IF InFlight(ph) = {} /\ toRun = {} /\ runnable = {}
                       THEN finals \cup {"failure"} ELSE finals
    BY <1>6 DEF TickDispatches, Proceeds, Eligible, Busy
  <2>2. /\ outcome = "none" /\ FallbackDue(st, rt) = {} /\ ~aborted
        /\ ~IsFailed(def, st, rt) /\ (InFlight(ph) = {} => ~IsComplete(def, st))
        /\ pendingTicks' = tk /\ dependsOn' = dependsOn /\ aborting' = aborting
    BY <1>6 DEF TickDispatches, Proceeds, Eligible, Busy
  <2>3. toRun \in SUBSET Node /\ \A n \in toRun : ph[n] = "idle"
    BY DEF Runnable
  <2>4. Cardinality(InFlight(phase')) <= Workers
    <3>1. Cardinality(InFlight(ph)) <= Workers
      BY DEF Sound
    <3> HIDE DEF eligible
    <3> QED BY <2>1, <2>3, <3>1, DispatchCount
  <2>5. \A n \in Node : phase'[n] \in {"starting", "running", "checking"} => status'[n] # "done"
    BY <2>1 DEF Sound, Mark, Open
  <2>6. ~aborting
    BY <2>2 DEF Sound
  <2>7. CASE toRun = {}
    <3>1. status' = st /\ phase' = ph
      BY <2>1, <2>7 DEF Mark
    <3>2. finals # {} => /\ InFlight(ph) = {} /\ runnable = {} /\ finals = {"failure"}
      BY <2>2, <2>6 DEF Sound, Over
    <3>3. finals' # {} => /\ InFlight(ph) = {} /\ runnable = {} /\ finals' = {"failure"}
      BY <2>1, <3>2
    <3>4. finals' # {} => Over(status, retries, phase, pendingTicks)'
      BY <2>2, <3>1, <3>3 DEF Over, FallbackDue, HasFallback
    <3> QED BY <2>2, <2>4, <2>5, <2>6, <3>4 DEF Sound, Open
  <2>8. CASE toRun # {}
    <3>1. runnable # {}
      BY <2>8
    <3>2. finals = {} /\ finals' = {}
      BY <2>1, <2>2, <2>6, <3>1 DEF Sound, Over
    <3> QED BY <2>2, <2>4, <2>5, <2>6, <3>2 DEF Sound, Open
  <2> QED BY <2>7, <2>8
<1> QED BY <1>1, <1>2, <1>3, <1>4, <1>5, <1>6 DEF Tick

(* What a tick never does: it neither makes a node done nor takes done     *)
(* back, and it starts only nodes that are not in runningMap, and none     *)
(* once the signal is set.                                                 *)
LEMMA TickStep ==
  ASSUME TypeOK,
         NEW st \in [Node -> Status], NEW rt \in [Node -> Nat],
         NEW ph \in [Node -> Phase], NEW tk \in Nat,
         Tick(st, rt, ph, tk)
  PROVE  /\ \A n \in Node : status'[n] = "done" <=> st[n] = "done"
         /\ \A n \in Node : attempts'[n] # attempts[n] => ph[n] = "idle"
         /\ aborted => attempts' = attempts
<1>1. CASE TickAfterEnd(st, ph, tk)
  BY <1>1 DEF TickAfterEnd
<1>2. CASE TickCreatesFallbacks(st, rt, ph, tk)
  <2> DEFINE F == FallbackDue(st, rt)
             new == {fallbackId[n] : n \in F}
             freed == {d \in InDag(st) : st[d] = "blocked" /\ dependsOn[d] \cap F # {}}
  <2>1. /\ status' = Mark(Mark(st, F, "skipped"), new \cup freed, "pending")
        /\ attempts' = attempts
    BY <1>2 DEF TickCreatesFallbacks
  <2>2. \A n \in F \cup freed : st[n] # "done"
    BY DEF FallbackDue
  <2>3. \A n \in new : st[n] # "done"
    <3>1. \A n \in F : st[fallbackId[n]] = "absent"
      BY FallbackNodes DEF FallbackDue, HasFallback
    <3> QED BY <3>1
  <2> HIDE DEF F, new, freed
  <2> QED BY <2>1, <2>2, <2>3 DEF Mark
<1>3. CASE TickCancels(st, rt, ph, tk)
  BY <1>3 DEF TickCancels, Mark
<1>4. CASE \E verdict \in Verdict : TickEnds(st, rt, ph, tk, verdict)
  BY <1>4 DEF TickEnds, Proceeds
<1>5. CASE TickHolds(st, rt, ph, tk)
  BY <1>5 DEF TickHolds, Proceeds
<1>6. CASE TickDispatches(st, rt, ph, tk)
  <2>1. PICK toRun \in SUBSET Runnable(def, st, dependsOn) :
          /\ \A n \in toRun : ph[n] = "idle"
          /\ status' = Mark(st, toRun, "running")
          /\ attempts' = [n \in Node |-> IF n \in toRun THEN attempts[n] + 1 ELSE attempts[n]]
    BY <1>6 DEF TickDispatches, Proceeds, Eligible, Busy
  <2>2. \A n \in toRun : st[n] # "done"
    BY DEF Runnable
  <2>3. ~aborted
    BY <1>6 DEF TickDispatches, Proceeds, Eligible, Busy
  <2> QED BY <2>1, <2>2, <2>3 DEF Mark
<1> QED BY <1>1, <1>2, <1>3, <1>4, <1>5, <1>6 DEF Tick

-----------------------------------------------------------------------------
(* The invariant is inductive.                                             *)

LEMMA InitSound == Init => IInv
<1> SUFFICES ASSUME Init PROVE IInv
  OBVIOUS
<1>1. TypeOK
  <2>1. def \in Definition
    BY ExecutorAssumption DEF Init
  <2>2. dependsOn \in [Node -> SUBSET Node]
    <3>1. def.dependsOn \in [BaseNode -> SUBSET BaseNode]
      BY <2>1 DEF Definition
    <3> QED BY <3>1 DEF Init, Node
  <2>3. aborted \in BOOLEAN
    BY ExecutorAssumption DEF Init
  <2> QED BY <2>1, <2>2, <2>3 DEF Init, TypeOK, Status, Phase
<1>2. Cardinality(InFlight(phase)) <= Workers
  <2>1. InFlight(phase) = {}
    BY DEF Init, InFlight
  <2>2. Cardinality(InFlight(phase)) = 0
    BY <2>1, FS_EmptySet
  <2> QED BY <2>2, ExecutorAssumption
<1>3. Sound(status, retries, phase, pendingTicks)
  BY <1>2 DEF Init, Sound
<1> QED BY <1>1, <1>3 DEF IInv

(* A step of an attempt that stays in runningMap.                          *)
LEMMA AttemptSound ==
  ASSUME IInv, NEW n \in Node, phase[n] # "idle",
         NEW p \in Phase \ {"idle"}, MoveTo(n, p),
         \A m \in Node \ {n} : status'[m] = "done" => status[m] = "done",
         p \in {"starting", "running", "checking"} => status'[n] # "done",
         UNCHANGED <<aborted, aborting, finals, outcome>>
  PROVE  Sound(status, retries, phase, pendingTicks)'
<1>1. phase' = [phase EXCEPT ![n] = p] /\ phase \in [Node -> Phase]
  BY DEF MoveTo, IInv, TypeOK
<1>2. InFlight(phase') = InFlight(phase)
  BY <1>1 DEF InFlight
<1>3. finals = {} \/ aborting
  BY DEF IInv, Sound, Over, InFlight
<1>4. Cardinality(InFlight(phase')) <= Workers
  BY <1>2 DEF IInv, Sound
<1>5. \A m \in Node :
        phase'[m] \in {"starting", "running", "checking"} => status'[m] # "done"
  BY <1>1 DEF IInv, Sound, Open
<1> QED BY <1>3, <1>4, <1>5 DEF IInv, Sound, Open

LEMMA FailSound ==
  ASSUME IInv, NEW n \in Node, phase[n] \in {"running", "checking"},
         NEW charges \in 1..2, Fail(n, charges)
  PROVE  /\ IInv'
         /\ \A m \in Node : status'[m] = "done" <=> status[m] = "done"
<1>1. /\ status \in [Node -> Status] /\ retries \in [Node -> Nat]
      /\ status[n] # "done"
  BY DEF IInv, TypeOK, Sound, Open
<1>2. /\ status' = AfterFailure(def, status, dependsOn, n, retries[n] + charges)
      /\ retries' = [retries EXCEPT ![n] = @ + charges]
      /\ MoveTo(n, "closing") /\ stalled' = stalled \ {n}
      /\ UNCHANGED <<def, dependsOn, attempts, kills,
                     pendingTicks, aborted, aborting, finals, outcome>>
  BY DEF Fail
<1>3. /\ status' \in [Node -> Status]
      /\ \A m \in Node : status'[m] = "done" <=> status[m] = "done"
  BY <1>1, <1>2, AfterFailureStatus
<1>4. TypeOK'
  <2>1. retries' \in [Node -> Nat]
    BY <1>1, <1>2
  <2>2. phase' \in [Node -> Phase]
    BY <1>2 DEF MoveTo, IInv, TypeOK, Phase
  <2> QED BY <1>2, <1>3, <2>1, <2>2 DEF IInv, TypeOK
<1>5. Sound(status, retries, phase, pendingTicks)'
  BY <1>2, <1>3, AttemptSound DEF Phase
<1> QED BY <1>3, <1>4, <1>5 DEF IInv

LEMMA RunTickSound ==
  ASSUME IInv, RunTick
  PROVE  IInv'
<1> DEFINE tk == pendingTicks - 1
<1>1. /\ Tick(status, retries, phase, tk) /\ tk \in Nat /\ pendingTicks > 0
      /\ UNCHANGED <<def, retries, stalled, kills, aborted, outcome>>
  BY DEF RunTick, IInv, TypeOK
<1>2. TypeOK
  BY DEF IInv
<1>3. finals # {} /\ ~aborting => ~aborted
  BY <1>1 DEF IInv, Sound, Over
<1>4. Sound(status, retries, phase, tk)
  BY <1>3 DEF IInv, Sound, Over
<1> HIDE DEF tk
<1>5. TypeOK'
  BY <1>1, <1>2, TickType DEF TypeOK
<1>6. Sound(status, retries, phase, pendingTicks)'
  BY <1>1, <1>2, <1>3, <1>4, TickSound DEF TypeOK
<1> QED BY <1>5, <1>6 DEF IInv

(* What Close and Kill call tick() with: nothing is over while an attempt  *)
(* is in runningMap.                                                       *)
LEMMA BusySound ==
  ASSUME IInv, NEW n \in Node, phase[n] # "idle"
  PROVE  finals = {} \/ aborting
BY DEF IInv, Sound, Over, InFlight

LEMMA CloseValues ==
  ASSUME IInv, NEW n \in Node, Close(n)
  PROVE  Sound(status, retries, [phase EXCEPT ![n] = "idle"], pendingTicks)
<1> DEFINE ph == [phase EXCEPT ![n] = "idle"]
<1>1. TypeOK /\ phase[n] = "closing"
  BY DEF IInv, Close
<1>2. finals = {} \/ aborting
  BY <1>1, BusySound
<1>3. Cardinality(InFlight(ph)) <= Workers
  <2>1. InFlight(ph) \in SUBSET InFlight(phase)
    BY <1>1 DEF InFlight, TypeOK
  <2>2. IsFiniteSet(InFlight(phase))
    BY NodeFinite, FS_Subset DEF InFlight
  <2>3. /\ Cardinality(InFlight(ph)) <= Cardinality(InFlight(phase))
        /\ Cardinality(InFlight(ph)) \in Nat /\ Cardinality(InFlight(phase)) \in Nat
    BY <2>1, <2>2, FS_Subset, FS_CardinalityType
  <2>4. Cardinality(InFlight(phase)) <= Workers
    BY DEF IInv, Sound
  <2> QED BY <2>3, <2>4, ExecutorAssumption
<1>4. \A m \in Node : ph[m] \in {"starting", "running", "checking"} => status[m] # "done"
  BY <1>1 DEF IInv, Sound, TypeOK, Open
<1> QED BY <1>2, <1>3, <1>4 DEF IInv, Sound, Open

LEMMA CloseSound ==
  ASSUME IInv, NEW n \in Node, Close(n)
  PROVE  IInv'
<1> DEFINE ph == [phase EXCEPT ![n] = "idle"]
<1>1. /\ Tick(status, retries, ph, pendingTicks) /\ phase[n] = "closing"
      /\ UNCHANGED <<def, retries, stalled, kills, aborted, outcome>>
  BY DEF Close
<1>2. TypeOK
  BY DEF IInv
<1>3. ph \in [Node -> Phase]
  BY <1>2 DEF TypeOK, Phase
<1>4. finals = {} \/ aborting
  BY <1>1, BusySound
<1>5. Sound(status, retries, ph, pendingTicks)
  BY CloseValues
<1> HIDE DEF ph
<1>6. TypeOK'
  BY <1>1, <1>2, <1>3, TickType DEF TypeOK
<1>7. Sound(status, retries, phase, pendingTicks)'
  BY <1>1, <1>2, <1>3, <1>4, <1>5, TickSound DEF TypeOK
<1> QED BY <1>6, <1>7 DEF IInv

(* The statuses and retry counts a kill leaves for the tick it triggers.   *)
LEMMA KillValues ==
  ASSUME IInv, NEW n \in Node, Kill(n),
         NEW st, st = AfterFailure(def, status, dependsOn, n, retries[n] + 1)
  PROVE  /\ st \in [Node -> Status] /\ retries' \in [Node -> Nat]
         /\ \A m \in Node : st[m] = "done" <=> status[m] = "done"
         /\ finals = {} \/ aborting
         /\ Sound(st, retries', phase, pendingTicks)
         /\ kills' \in Nat /\ stalled' \in SUBSET Node
         /\ UNCHANGED <<def, aborted, outcome>>
<1>1. /\ status \in [Node -> Status] /\ retries \in [Node -> Nat]
      /\ status[n] = "running" /\ phase[n] \in {"running", "checking"}
      /\ retries' = [retries EXCEPT ![n] = @ + 1]
      /\ kills' = kills + 1 /\ kills \in Nat /\ stalled' = stalled \cup {n}
      /\ stalled \in SUBSET Node
      /\ UNCHANGED <<def, aborted, outcome>>
  BY DEF Kill, IInv, TypeOK
<1>2. /\ st \in [Node -> Status]
      /\ \A m \in Node : st[m] = "done" <=> status[m] = "done"
  BY <1>1, AfterFailureStatus
<1>3. finals = {} \/ aborting
  BY <1>1, BusySound
<1>4. Sound(st, retries', phase, pendingTicks)
  BY <1>2, <1>3 DEF IInv, Sound
<1> QED BY <1>1, <1>2, <1>3, <1>4

LEMMA KillSound ==
  ASSUME IInv, NEW n \in Node, Kill(n)
  PROVE  IInv'
<1> DEFINE st == AfterFailure(def, status, dependsOn, n, retries[n] + 1)
<1>1. TypeOK
  BY DEF IInv
<1>2. /\ st \in [Node -> Status] /\ retries' \in [Node -> Nat]
      /\ \A m \in Node : st[m] = "done" <=> status[m] = "done"
      /\ finals = {} \/ aborting
      /\ Sound(st, retries', phase, pendingTicks)
      /\ kills' \in Nat /\ stalled' \in SUBSET Node
      /\ UNCHANGED <<def, aborted, outcome>>
  BY KillValues
<1>3. \/ Tick(st, retries', phase, pendingTicks)
      \/ /\ status' = st
         /\ UNCHANGED <<dependsOn, attempts, phase, pendingTicks, aborting, finals>>
  BY DEF Kill
<1> HIDE DEF st
<1>4. CASE Tick(st, retries', phase, pendingTicks)
  <2>1. TypeOK'
    BY <1>1, <1>2, <1>4, TickType DEF TypeOK
  <2>2. Sound(status, retries, phase, pendingTicks)'
    BY <1>1, <1>2, <1>4, TickSound DEF TypeOK
  <2> QED BY <2>1, <2>2 DEF IInv
<1>5. CASE /\ status' = st
           /\ UNCHANGED <<dependsOn, attempts, phase, pendingTicks, aborting, finals>>
  <2>1. TypeOK'
    BY <1>1, <1>2, <1>5 DEF TypeOK
  <2>2. Sound(status, retries, phase, pendingTicks)'
    BY <1>2, <1>5 DEF IInv, Sound
  <2> QED BY <2>1, <2>2 DEF IInv
<1> QED BY <1>3, <1>4, <1>5

LEMMA EvidencePassesSound ==
  ASSUME IInv, NEW n \in Node, EvidencePasses(n)
  PROVE  IInv'
<1>1. /\ phase[n] = "checking" /\ MoveTo(n, "closing")
      /\ status' = [status EXCEPT ![n] = "done"] /\ stalled' = stalled \ {n}
      /\ UNCHANGED <<def, retries, dependsOn, attempts, kills,
                     pendingTicks, aborted, aborting, finals, outcome>>
  BY DEF EvidencePasses
<1>2. TypeOK'
  BY <1>1 DEF MoveTo, IInv, TypeOK, Phase, Status
<1>3. \A m \in Node \ {n} : status'[m] = "done" => status[m] = "done"
  BY <1>1 DEF IInv, TypeOK
<1>4. Sound(status, retries, phase, pendingTicks)'
  BY <1>1, <1>3, AttemptSound DEF Phase
<1> QED BY <1>2, <1>4 DEF IInv

(* The attempt moves from one await to the next.                           *)
LEMMA RunnerStepSound ==
  ASSUME IInv, NEW n \in Node, RunnerCall(n) \/ RunnerSucceeds(n)
  PROVE  IInv'
<1>1. PICK p \in {"running", "checking"} :
        /\ phase[n] \in {"starting", "running"} /\ MoveTo(n, p)
        /\ stalled' \in SUBSET Node
        /\ UNCHANGED <<def, status, retries, dependsOn, attempts, kills,
                       pendingTicks, aborted, aborting, finals, outcome>>
  BY DEF RunnerCall, RunnerSucceeds, IInv, TypeOK
<1>2. TypeOK'
  BY <1>1 DEF MoveTo, IInv, TypeOK, Phase
<1>3. status[n] # "done"
  BY <1>1 DEF IInv, Sound, Open
<1>4. Sound(status, retries, phase, pendingTicks)'
  BY <1>1, <1>3, AttemptSound DEF Phase
<1> QED BY <1>2, <1>4 DEF IInv

(* Every way an attempt can fail is a Fail step.                           *)
LEMMA FailureIsFail ==
  ASSUME NEW n \in Node, RunnerFails(n) \/ EvidenceFails(n) \/ DoneRecordFails(n)
  PROVE  phase[n] \in {"running", "checking"} /\ \E charges \in 1..2 : Fail(n, charges)
BY DEF RunnerFails, EvidenceFails, DoneRecordFails, FailByResult

LEMMA ResolveSound ==
  ASSUME IInv, NEW verdict \in Verdict, Resolve(verdict)
  PROVE  IInv'
<1>1. /\ outcome' = verdict /\ verdict \in finals /\ pendingTicks = 0
      /\ UNCHANGED <<def, status, retries, dependsOn, attempts, phase, stalled, kills,
                     pendingTicks, aborted, aborting, finals>>
  BY DEF Resolve, NextTurn
<1>2. TypeOK'
  BY <1>1 DEF IInv, TypeOK
<1>3. finals = {verdict}
  BY <1>1 DEF IInv, Sound, Over
<1>4. Sound(status, retries, phase, pendingTicks)'
  BY <1>1, <1>3 DEF IInv, Sound, Over, FallbackDue, HasFallback
<1> QED BY <1>2, <1>4 DEF IInv

LEMMA AbortSound ==
  ASSUME IInv, Abort
  PROVE  IInv'
<1>1. /\ aborted' = TRUE /\ pendingTicks = 0
      /\ UNCHANGED <<def, status, retries, dependsOn, attempts, phase, stalled, kills,
                     pendingTicks, aborting, finals, outcome>>
  BY DEF Abort, NextTurn
<1>2. TypeOK'
  BY <1>1 DEF IInv, TypeOK
<1>3. Sound(status, retries, phase, pendingTicks)'
  BY <1>1 DEF IInv, Sound, Over, FallbackDue, HasFallback
<1> QED BY <1>2, <1>3 DEF IInv

LEMMA NextSound == IInv /\ [Next]_vars => IInv'
<1> SUFFICES ASSUME IInv, [Next]_vars PROVE IInv'
  OBVIOUS
<1>1. CASE RunTick
  BY <1>1, RunTickSound
<1>2. ASSUME NEW n \in Node, NodeStep(n) PROVE IInv'
  <2>1. CASE RunnerCall(n) \/ RunnerSucceeds(n)
    BY <2>1, RunnerStepSound
  <2>2. CASE RunnerFails(n) \/ EvidenceFails(n) \/ DoneRecordFails(n)
    BY <2>2, FailureIsFail, FailSound
  <2>3. CASE EvidencePasses(n)
    BY <2>3, EvidencePassesSound
  <2>4. CASE Close(n)
    BY <2>4, CloseSound
  <2> QED BY <1>2, <2>1, <2>2, <2>3, <2>4 DEF NodeStep
<1>3. ASSUME NEW n \in Node, Kill(n) PROVE IInv'
  BY <1>3, KillSound
<1>4. CASE Abort
  BY <1>4, AbortSound
<1>5. ASSUME NEW verdict \in Verdict, Resolve(verdict) PROVE IInv'
  BY <1>5, ResolveSound
<1>6. CASE UNCHANGED vars
  BY <1>6 DEF vars, IInv, TypeOK, Sound, Over, InFlight, FallbackDue, HasFallback
<1> QED BY <1>1, <1>2, <1>3, <1>4, <1>5, <1>6 DEF Next, Terminated

(* The executor's bookkeeping invariant holds in every reachable state.    *)
THEOREM Invariance == Spec => []IInv
BY InitSound, NextSound, PTL DEF Spec

(* Every variable keeps its type.                                          *)
THEOREM TypeCorrect == Spec => []TypeOK
<1>1. IInv => TypeOK
  BY DEF IInv
<1> QED BY <1>1, Invariance, PTL

(* Never more than options.workers nodes in runningMap, for any DAG, any   *)
(* number of workers, retries and kills.                                   *)
THEOREM WorkersBounded == Spec => []WorkerLimit
<1>1. IInv => WorkerLimit
  BY DEF IInv, Sound, WorkerLimit
<1> QED BY <1>1, Invariance, PTL

(* The ways a run can end never disagree, and the promise carries the      *)
(* verdict that was saved.                                                 *)
THEOREM VerdictUnique == Spec => []OneVerdict
<1>1. IInv => OneVerdict
  <2> SUFFICES ASSUME IInv PROVE OneVerdict
    OBVIOUS
  <2>1. finals = {} \/ \E v : finals = {v}
    BY DEF IInv, Sound, Over
  <2>2. Cardinality(finals) \in {0, 1}
    BY <2>1, FS_EmptySet, FS_Singleton
  <2>3. Cardinality(finals) <= 1
    BY <2>2
  <2> QED BY <2>3 DEF IInv, Sound, OneVerdict
<1> QED BY <1>1, Invariance, PTL

(* An uncancelled run settles only when no attempt is in flight.           *)
THEOREM Quiescence == Spec => []SettledQuiescent
<1>1. IInv => SettledQuiescent
  <2> SUFFICES ASSUME IInv, outcome # "none", ~aborting PROVE InFlight(phase) = {}
    BY DEF SettledQuiescent
  <2>1. finals = {outcome}
    BY DEF IInv, Sound
  <2>2. Over(status, retries, phase, pendingTicks)
    BY <2>1 DEF IInv, Sound
  <2> QED BY <2>2 DEF Over
<1> QED BY <1>1, Invariance, PTL

-----------------------------------------------------------------------------
(* Steps.                                                                  *)

LEMMA StepFacts ==
  ASSUME IInv, [Next]_vars
  PROVE  /\ \A n \in Node : status[n] = "done" => status'[n] = "done"
         /\ \A n \in Node : attempts'[n] # attempts[n] => phase[n] \in {"idle", "closing"}
         /\ aborted => attempts' = attempts
<1> DEFINE Facts ==
      /\ \A n \in Node : status[n] = "done" => status'[n] = "done"
      /\ \A n \in Node : attempts'[n] # attempts[n] => phase[n] \in {"idle", "closing"}
      /\ aborted => attempts' = attempts
<1>1. TypeOK
  BY DEF IInv
<1>2. CASE RunTick
  BY <1>1, <1>2, TickStep DEF RunTick, TypeOK
<1>3. ASSUME NEW n \in Node, NodeStep(n) PROVE Facts
  <2>1. CASE RunnerCall(n) \/ RunnerSucceeds(n)
    BY <2>1 DEF RunnerCall, RunnerSucceeds
  <2>2. CASE RunnerFails(n) \/ EvidenceFails(n) \/ DoneRecordFails(n)
    <3>1. phase[n] \in {"running", "checking"} /\ \E charges \in 1..2 : Fail(n, charges)
      BY <2>2, FailureIsFail
    <3>2. attempts' = attempts
      BY <3>1 DEF Fail
    <3> QED BY <3>1, <3>2, FailSound
  <2>3. CASE EvidencePasses(n)
    BY <1>1, <2>3 DEF EvidencePasses, TypeOK
  <2>4. CASE Close(n)
    <3> DEFINE ph == [phase EXCEPT ![n] = "idle"]
    <3>1. Tick(status, retries, ph, pendingTicks) /\ phase[n] = "closing"
      BY <2>4 DEF Close
    <3>2. ph \in [Node -> Phase] /\ \A m \in Node \ {n} : ph[m] = phase[m]
      BY <1>1 DEF TypeOK, Phase
    <3> HIDE DEF ph
    <3> QED BY <1>1, <3>1, <3>2, TickStep DEF TypeOK
  <2> QED BY <1>3, <2>1, <2>2, <2>3, <2>4 DEF NodeStep
<1>4. ASSUME NEW n \in Node, Kill(n) PROVE Facts
  <2> DEFINE st == AfterFailure(def, status, dependsOn, n, retries[n] + 1)
  <2>1. /\ st \in [Node -> Status] /\ retries' \in [Node -> Nat]
        /\ \A m \in Node : st[m] = "done" <=> status[m] = "done"
    BY <1>4, KillValues
  <2>2. \/ Tick(st, retries', phase, pendingTicks)
        \/ status' = st /\ attempts' = attempts
    BY <1>4 DEF Kill
  <2> HIDE DEF st
  <2> QED BY <1>1, <2>1, <2>2, TickStep DEF TypeOK
<1>5. CASE Abort \/ \E verdict \in Verdict : Resolve(verdict)
  BY <1>5 DEF Abort, Resolve
<1>6. CASE UNCHANGED vars
  BY <1>6 DEF vars
<1> QED BY <1>2, <1>3, <1>4, <1>5, <1>6 DEF Next, Terminated

(* A result that has been accepted is never taken back.                    *)
THEOREM ResultsAreFinal == Spec => DoneIsFinal
<1>1. IInv /\ [Next]_vars => [\A n \in Node : status[n] = "done" => status'[n] = "done"]_vars
  BY StepFacts
<1> QED BY <1>1, Invariance, PTL DEF Spec, DoneIsFinal

(* No node has two attempts in runningMap at once.                         *)
THEOREM AttemptsDoNotOverlap == Spec => NoOverlappingAttempts
<1>1. IInv /\ [Next]_vars =>
        [\A n \in Node : attempts'[n] # attempts[n] => phase[n] \in {"idle", "closing"}]_vars
  BY StepFacts
<1> QED BY <1>1, Invariance, PTL DEF Spec, NoOverlappingAttempts

(* Nothing is started once the abort signal is set.                        *)
THEOREM AbortStopsDispatch == Spec => NoStartAfterAbort
<1>1. IInv /\ [Next]_vars => [aborted => attempts' = attempts]_vars
  BY StepFacts
<1> QED BY <1>1, Invariance, PTL DEF Spec, NoStartAfterAbort

-----------------------------------------------------------------------------
(* The executor implements RunContract.                                    *)

LEMMA InitContract == Init => Contract!Init
BY DEF Init, Contract!Init, InFlight, Delivered

(* The instance has its own copy of Cardinality, with the same definition. *)
LEMMA ContractCardinality ==
  \A S : Contract!Cardinality(S) = Cardinality(S)
BY DEF Contract!Cardinality, Cardinality

(* A tick called when the attempts gone have just left runningMap is a     *)
(* step of the contract.                                                   *)
LEMMA TickContract ==
  ASSUME TypeOK,
         NEW st \in [Node -> Status], NEW rt \in [Node -> Nat],
         NEW ph \in [Node -> Phase], NEW tk \in Nat,
         Tick(st, rt, ph, tk), outcome' = outcome,
         Sound(st, rt, ph, tk), Sound(status, retries, phase, pendingTicks)',
         \A m \in Node : st[m] = "done" <=> status[m] = "done",
         NEW gone \in SUBSET InFlight(phase), \A m, n \in gone : m = n,
         InFlight(ph) = InFlight(phase) \ gone
  PROVE  Contract!Next
<1>1. Delivered' = Delivered
  BY TickStep DEF Delivered
<1>2. Contract!Cardinality(InFlight(phase)') <= Workers
  BY ContractCardinality DEF Sound
<1>3. ASSUME NEW new \in SUBSET Node, InFlight(phase') = InFlight(ph) \cup new,
             new \cap Delivered = {}, new \cap InFlight(ph) = {},
             new # {} => outcome = "none" /\ ~aborting, aborting' = aborting
      PROVE  Contract!Next
  <2>1. Contract!Advance(gone, new)
    BY <1>1, <1>2, <1>3 DEF Contract!Advance
  <2> QED BY <2>1 DEF Contract!Next
<1>4. ASSUME phase' = ph, aborting' = aborting PROVE Contract!Next
  <2>1. InFlight(phase') = InFlight(ph) \cup {}
    BY <1>4
  <2>2. /\ {} \in SUBSET Node
        /\ {} \cap Delivered = {} /\ {} \cap InFlight(ph) = {}
        /\ {} # {} => outcome = "none" /\ ~aborting
    OBVIOUS
  <2>3. Contract!Advance(gone, {})
    BY <1>1, <1>2, <1>4, <2>1 DEF Contract!Advance
  <2> QED BY <2>2, <2>3 DEF Contract!Next
<1>5. CASE TickAfterEnd(st, ph, tk)
  BY <1>4, <1>5 DEF TickAfterEnd
<1>6. CASE TickCreatesFallbacks(st, rt, ph, tk)
  BY <1>4, <1>6 DEF TickCreatesFallbacks
<1>7. CASE TickCancels(st, rt, ph, tk)
  <2>1. aborting' = TRUE /\ phase' = ph /\ outcome = "none"
    BY <1>7 DEF TickCancels
  <2>2. CASE aborting
    <3>1. aborting' = aborting
      BY <2>1, <2>2 DEF TypeOK
    <3> QED BY <1>4, <2>1, <3>1
  <2>3. CASE ~aborting
    <3>1. Contract!Cancel(gone)
      BY <1>1, <2>1, <2>3 DEF Contract!Cancel
    <3> QED BY <3>1 DEF Contract!Next
  <2> QED BY <2>2, <2>3
<1>8. CASE \E verdict \in Verdict : TickEnds(st, rt, ph, tk, verdict)
  BY <1>4, <1>8 DEF TickEnds, Proceeds
<1>9. CASE TickHolds(st, rt, ph, tk)
  BY <1>4, <1>9 DEF TickHolds, Proceeds
<1>10. CASE TickDispatches(st, rt, ph, tk)
  <2>1. PICK new \in SUBSET Runnable(def, st, dependsOn) :
          /\ \A n \in new : ph[n] = "idle"
          /\ phase' = [n \in Node |-> IF n \in new THEN "starting" ELSE ph[n]]
    BY <1>10 DEF TickDispatches, Proceeds, Eligible, Busy
  <2>2. /\ outcome = "none" /\ ~aborted /\ aborting' = aborting
    BY <1>10 DEF TickDispatches, Proceeds, Eligible, Busy
  <2>3. new \in SUBSET Node /\ \A n \in new : st[n] = "pending"
    BY DEF Runnable
  <2>4. new \cap Delivered = {} /\ new \cap InFlight(ph) = {}
    BY <2>1, <2>3 DEF Delivered, InFlight
  <2>5. InFlight(phase') = InFlight(ph) \cup new
    BY <2>1, <2>3 DEF InFlight
  <2>6. ~aborting
    BY <2>2 DEF Sound
  <2> QED BY <1>3, <2>2, <2>3, <2>4, <2>5, <2>6
<1> QED BY <1>5, <1>6, <1>7, <1>8, <1>9, <1>10 DEF Tick

(* A step that changes no contract variable.                               *)
LEMMA ContractStutter ==
  ASSUME InFlight(phase') = InFlight(phase), Delivered' = Delivered,
         aborting' = aborting, outcome' = outcome
  PROVE  UNCHANGED Contract!contractVars
BY DEF Contract!contractVars

LEMMA StepContract ==
  ASSUME IInv, IInv', [Next]_vars
  PROVE  [Contract!Next]_(Contract!contractVars)
<1>1. TypeOK /\ Sound(status, retries, phase, pendingTicks)'
  BY DEF IInv
<1>2. CASE RunTick
  <2> DEFINE tk == pendingTicks - 1
  <2>1. Tick(status, retries, phase, tk) /\ tk \in Nat /\ outcome' = outcome /\ pendingTicks > 0
    BY <1>1, <1>2 DEF RunTick, TypeOK
  <2>2. Sound(status, retries, phase, tk)
    BY <2>1 DEF IInv, Sound, Over
  <2>3. {} \in SUBSET InFlight(phase) /\ InFlight(phase) = InFlight(phase) \ {}
    OBVIOUS
  <2> HIDE DEF tk
  <2> QED BY <1>1, <2>1, <2>2, <2>3, TickContract DEF TypeOK
<1>3. ASSUME NEW n \in Node, NodeStep(n)
      PROVE  [Contract!Next]_(Contract!contractVars)
  <2>1. ASSUME phase[n] # "idle", NEW p \in Phase \ {"idle"}, MoveTo(n, p)
        PROVE  InFlight(phase') = InFlight(phase)
    BY <1>1, <2>1 DEF MoveTo, InFlight, TypeOK
  <2>2. CASE RunnerCall(n) \/ RunnerSucceeds(n)
    <3>1. PICK p \in {"running", "checking"} : phase[n] # "idle" /\ MoveTo(n, p)
      BY <2>2 DEF RunnerCall, RunnerSucceeds
    <3>2. /\ status' = status /\ aborting' = aborting /\ outcome' = outcome
      BY <2>2 DEF RunnerCall, RunnerSucceeds
    <3>3. InFlight(phase') = InFlight(phase)
      BY <2>1, <3>1 DEF Phase
    <3> QED BY <3>2, <3>3, ContractStutter DEF Delivered
  <2>3. CASE RunnerFails(n) \/ EvidenceFails(n) \/ DoneRecordFails(n)
    <3>1. phase[n] \in {"running", "checking"} /\ \E charges \in 1..2 : Fail(n, charges)
      BY <2>3, FailureIsFail
    <3>2. MoveTo(n, "closing") /\ aborting' = aborting /\ outcome' = outcome
      BY <3>1 DEF Fail
    <3>3. InFlight(phase') = InFlight(phase)
      BY <2>1, <3>1, <3>2 DEF Phase
    <3>4. \A m \in Node : status'[m] = "done" <=> status[m] = "done"
      BY <3>1, FailSound
    <3>5. Delivered' = Delivered
      BY <3>4 DEF Delivered
    <3> QED BY <3>2, <3>3, <3>5, ContractStutter
  <2>4. CASE EvidencePasses(n)
    <3>1. /\ phase[n] = "checking" /\ MoveTo(n, "closing")
          /\ status' = [status EXCEPT ![n] = "done"] /\ aborting' = aborting /\ outcome' = outcome
      BY <2>4 DEF EvidencePasses
    <3>2. InFlight(phase') = InFlight(phase)
      BY <2>1, <3>1 DEF Phase
    <3>3. Delivered' = Delivered \cup {n}
      BY <1>1, <3>1 DEF Delivered, TypeOK
    <3>4. n \in InFlight(phase) \ Delivered
      BY <3>1 DEF InFlight, Delivered, IInv, Sound, Open
    <3>5. Contract!Deliver(n)
      BY <3>1, <3>2, <3>3, <3>4 DEF Contract!Deliver
    <3> QED BY <3>5 DEF Contract!Next
  <2>5. CASE Close(n)
    <3> DEFINE ph == [phase EXCEPT ![n] = "idle"]
    <3>1. /\ Tick(status, retries, ph, pendingTicks) /\ phase[n] = "closing"
          /\ outcome' = outcome
      BY <2>5 DEF Close
    <3>2. ph \in [Node -> Phase]
      BY <1>1 DEF TypeOK, Phase
    <3>3. {n} \in SUBSET InFlight(phase) /\ InFlight(ph) = InFlight(phase) \ {n}
      BY <1>1, <3>1 DEF InFlight, TypeOK
    <3>4. Sound(status, retries, ph, pendingTicks)
      BY <2>5, CloseValues
    <3> HIDE DEF ph
    <3> QED BY <1>1, <3>1, <3>2, <3>3, <3>4, TickContract DEF TypeOK
  <2> QED BY <1>3, <2>2, <2>3, <2>4, <2>5 DEF NodeStep
<1>4. ASSUME NEW n \in Node, Kill(n)
      PROVE  [Contract!Next]_(Contract!contractVars)
  <2> DEFINE st == AfterFailure(def, status, dependsOn, n, retries[n] + 1)
  <2>1. /\ st \in [Node -> Status] /\ retries' \in [Node -> Nat]
        /\ \A m \in Node : st[m] = "done" <=> status[m] = "done"
        /\ Sound(st, retries', phase, pendingTicks) /\ outcome' = outcome
    BY <1>4, KillValues
  <2>2. \/ Tick(st, retries', phase, pendingTicks)
        \/ status' = st /\ phase' = phase /\ aborting' = aborting
    BY <1>4 DEF Kill
  <2>3. {} \in SUBSET InFlight(phase) /\ InFlight(phase) = InFlight(phase) \ {}
    OBVIOUS
  <2> HIDE DEF st
  <2>4. CASE Tick(st, retries', phase, pendingTicks)
    BY <1>1, <2>1, <2>3, <2>4, TickContract DEF TypeOK
  <2>5. CASE status' = st /\ phase' = phase /\ aborting' = aborting
    <3>1. Delivered' = Delivered
      BY <2>1, <2>5 DEF Delivered
    <3> QED BY <2>1, <2>5, <3>1, ContractStutter
  <2> QED BY <2>2, <2>4, <2>5
<1>5. CASE Abort
  BY <1>5, ContractStutter DEF Abort, Delivered
<1>6. ASSUME NEW verdict \in Verdict, Resolve(verdict)
      PROVE  [Contract!Next]_(Contract!contractVars)
  <2>1. /\ outcome = "none" /\ verdict \in finals /\ outcome' = verdict
        /\ UNCHANGED <<status, phase, aborting>>
    BY <1>6 DEF Resolve
  <2>2. IF aborting THEN verdict = "failure" ELSE InFlight(phase) = {}
    BY <2>1 DEF IInv, Sound, Over
  <2>3. Contract!End(verdict)
    BY <2>1, <2>2 DEF Contract!End, Delivered
  <2> QED BY <2>3 DEF Contract!Next, Verdict
<1>7. CASE UNCHANGED vars
  BY <1>7, ContractStutter DEF vars, Delivered
<1> QED BY <1>2, <1>3, <1>4, <1>5, <1>6, <1>7 DEF Next, Terminated

(* Every behavior of the executor is one its contract allows.              *)
THEOREM Refinement == Spec => ImplementsContract
<1>1. IInv /\ IInv' /\ [Next]_vars => [Contract!Next]_(Contract!contractVars)
  BY StepContract
<1> QED BY <1>1, InitContract, Invariance, PTL DEF Spec, ImplementsContract, Contract!Spec
=============================================================================
