------------------------------ MODULE DagProofs ------------------------------
(***************************************************************************)
(* Proofs about what the executor does to its DAG, for every set of nodes  *)
(* and definitions, every number of workers, kills and retries, and for    *)
(* its replays: the inductive invariant GraphInv and the properties that   *)
(* follow from it.                                                         *)
(***************************************************************************)
EXTENDS Replay, ExecutorProofs

-----------------------------------------------------------------------------
(* The walks of blockDependents, skipNode and addTransitiveDependents.     *)

(* A walk takes every edge that leaves what it visited, and visits nothing *)
(* that no such edge leads to.                                             *)
LEMMA ReachedEdges ==
  ASSUME NEW f, NEW Edge
  PROVE  /\ \A e \in Edge : e[1] \in Reached(f, Edge) \cup {f} => e[2] \in Reached(f, Edge)
         /\ \A n \in Reached(f, Edge) :
              \E e \in Edge : e[2] = n /\ e[1] \in Reached(f, Edge) \cup {f}
<1> DEFINE heads == {e[2] : e \in Edge}
           R == Reached(f, Edge)
           Closed(S) == \A e \in Edge : e[1] \in S \cup {f} => e[2] \in S
<1>1. R = {n \in heads : \A S \in SUBSET heads : Closed(S) => n \in S}
  BY DEF Reached
<1> HIDE DEF R
<1>2. Closed(R)
  <2> SUFFICES ASSUME NEW e \in Edge, e[1] \in R \cup {f},
                      NEW S \in SUBSET heads, Closed(S)
               PROVE  e[2] \in S
    BY <1>1
  <2>1. e[1] \in S \cup {f}
    BY <1>1
  <2> QED BY <2>1
<1>3. ASSUME NEW n \in R PROVE \E e \in Edge : e[2] = n /\ e[1] \in R \cup {f}
  <2> SUFFICES ASSUME \A e \in Edge : e[1] \in R \cup {f} => e[2] # n PROVE FALSE
    BY <1>3
  <2>1. Closed(R \ {n})
    BY <1>2
  <2>2. R \ {n} \in SUBSET heads
    BY <1>1
  <2> QED BY <1>1, <2>1, <2>2
<1> QED BY <1>2, <1>3 DEF R

(* The same for the walks of a failure: over requirements, into nodes that *)
(* may still change.                                                       *)
LEMMA ReachedRequired ==
  ASSUME NEW d, NEW dep, NEW target \in SUBSET Node, NEW f,
         NEW R, R = Reached(f, RequireEdges(d, dep, target))
  PROVE  /\ R \subseteq target
         /\ \A m \in target : (\E p \in dep[m] : Requires(d, dep, m, p) /\ p \in R \cup {f})
                                 => m \in R
         /\ \A m \in R : \E p \in dep[m] : Requires(d, dep, m, p) /\ p \in R \cup {f}
<1> DEFINE Edge == RequireEdges(d, dep, target)
<1>1. R \subseteq target
  BY ReachedInTarget
<1>2. \A m \in target : \A p \in dep[m] : Requires(d, dep, m, p) => <<p, m>> \in Edge
  BY DEF RequireEdges
<1>3. \A e \in Edge : e[1] \in dep[e[2]] /\ Requires(d, dep, e[2], e[1])
  BY DEF RequireEdges
<1> HIDE DEF Edge
<1>4. /\ \A e \in Edge : e[1] \in R \cup {f} => e[2] \in R
      /\ \A n \in R : \E e \in Edge : e[2] = n /\ e[1] \in R \cup {f}
  BY ReachedEdges DEF Edge
<1>5. ASSUME NEW m \in target, NEW p \in dep[m], Requires(d, dep, m, p), p \in R \cup {f}
      PROVE  m \in R
  BY <1>2, <1>4, <1>5
<1> QED BY <1>1, <1>3, <1>4, <1>5

(* updateNodeStatus(n, "failed") in terms of what its walk visited.        *)
FailureWalk(d, st, dep, n, r, res, R) ==
  /\ \A m \in R : \E p \in dep[m] : Requires(d, dep, m, p) /\ p \in R \cup {n}
  /\ ~Exhausted(d, n, r) => R = {} /\ res = [st EXCEPT ![n] = "pending"]
  /\ Exhausted(d, n, r) /\ FailsSoftly(d, n) =>
       /\ res = [m \in Node |-> IF m \in R \cup {n} THEN "skipped" ELSE st[m]]
       /\ \A m \in R \ {n} : st[m] \notin {"absent", "done", "running", "skipped"}
       /\ \A m \in Node \ (R \cup {n}) : st[m] \notin {"absent", "done", "running", "skipped"} =>
            \A p \in dep[m] : Requires(d, dep, m, p) => p \notin R \cup {n}
  /\ Exhausted(d, n, r) /\ ~FailsSoftly(d, n) =>
       /\ res = [m \in Node |-> IF m \in R THEN "blocked"
                                ELSE IF m = n THEN "failed" ELSE st[m]]
       /\ \A m \in R \ {n} : st[m] \notin {"absent", "done", "running", "blocked"}

LEMMA FailureEffect ==
  ASSUME NEW d, NEW st \in [Node -> Status], NEW dep, NEW n \in Node, NEW r,
         NEW res, res = AfterFailure(d, st, dep, n, r)
  PROVE  \E R \in SUBSET Node : FailureWalk(d, st, dep, n, r, res, R)
<1> DEFINE failed == Mark(st, {n}, "failed")
           soft == FailsSoftly(d, n)
           ex == Exhausted(d, n, r)
<1>1. /\ failed \in [Node -> Status] /\ failed[n] = "failed"
      /\ \A m \in Node \ {n} : failed[m] = st[m]
  BY DEF Mark, Status
<1>2. CASE ~ex
  <2>1. res = Mark(st, {n}, "pending")
    BY <1>2 DEF AfterFailure
  <2>2. res = [st EXCEPT ![n] = "pending"]
    BY <2>1 DEF Mark
  <2>3. FailureWalk(d, st, dep, n, r, res, {})
    BY <1>2, <2>2 DEF FailureWalk
  <2> QED BY <2>3
<1>3. CASE ex /\ soft
  <2> DEFINE target == {m \in Node : failed[m] \notin {"absent", "done", "running", "skipped"}}
             R == ToSkip(d, failed, dep, n)
  <2>1. res = Mark(st, {n} \cup R, "skipped")
    BY <1>3 DEF AfterFailure
  <2>2. R = Reached(n, RequireEdges(d, dep, target))
    BY DEF ToSkip
  <2>0. target \in SUBSET Node
    OBVIOUS
  <2> HIDE DEF failed, R, target
  <2>3. /\ R \subseteq target
        /\ \A m \in target : (\E p \in dep[m] : Requires(d, dep, m, p) /\ p \in R \cup {n})
                                => m \in R
        /\ \A m \in R : \E p \in dep[m] : Requires(d, dep, m, p) /\ p \in R \cup {n}
    BY <2>0, <2>2, ReachedRequired
  <2>4. res = [m \in Node |-> IF m \in R \cup {n} THEN "skipped" ELSE st[m]]
    BY <2>1 DEF Mark
  <2>5. \A m \in R \ {n} : st[m] \notin {"absent", "done", "running", "skipped"}
    BY <1>1, <2>3 DEF target
  <2>6. ASSUME NEW m \in Node \ (R \cup {n}), st[m] \notin {"absent", "done", "running", "skipped"},
               NEW p \in dep[m], Requires(d, dep, m, p)
        PROVE  p \notin R \cup {n}
    BY <1>1, <2>3, <2>6 DEF target
  <2>7. FailureWalk(d, st, dep, n, r, res, R)
    BY <1>3, <2>3, <2>4, <2>5, <2>6 DEF FailureWalk
  <2> QED BY <2>0, <2>3, <2>7
<1>4. CASE ex /\ ~soft /\ n \notin d.nonBlocking
  <2> DEFINE target == {m \in Node \ d.nonBlocking :
                          failed[m] \notin {"absent", "done", "running", "blocked"}}
             R == ToBlock(d, failed, dep, n)
  <2>1. res = Mark(failed, R, "blocked")
    BY <1>4 DEF AfterFailure
  <2>2. R = Reached(n, RequireEdges(d, dep, target))
    BY DEF ToBlock
  <2>0. target \in SUBSET Node
    OBVIOUS
  <2> HIDE DEF failed, R, target
  <2>3. /\ R \subseteq target
        /\ \A m \in R : \E p \in dep[m] : Requires(d, dep, m, p) /\ p \in R \cup {n}
    BY <2>0, <2>2, ReachedRequired
  <2>4. res = [m \in Node |-> IF m \in R THEN "blocked" ELSE IF m = n THEN "failed" ELSE st[m]]
    BY <1>1, <2>1 DEF Mark
  <2>5. \A m \in R \ {n} : st[m] \notin {"absent", "done", "running", "blocked"}
    BY <1>1, <2>3 DEF target
  <2>6. FailureWalk(d, st, dep, n, r, res, R)
    BY <1>4, <2>3, <2>4, <2>5 DEF FailureWalk
  <2> QED BY <2>0, <2>3, <2>6
<1>5. CASE ex /\ ~soft /\ n \in d.nonBlocking
  <2>1. res = failed
    BY <1>5 DEF AfterFailure
  <2>2. res = [m \in Node |-> IF m \in {} THEN "blocked" ELSE IF m = n THEN "failed" ELSE st[m]]
    BY <2>1 DEF Mark
  <2>3. FailureWalk(d, st, dep, n, r, res, {})
    BY <1>5, <2>2 DEF FailureWalk
  <2> QED BY <2>3
<1> QED BY <1>2, <1>3, <1>4, <1>5

(* The pairing of nodes and fallbacks.                                     *)
LEMMA Pairing ==
  /\ \A b \in BaseNode : /\ Original(b) = b /\ Original(fallbackId[b]) = b
                         /\ fallbackId[b] \in FallbackNode /\ fallbackId[b] \notin BaseNode
  /\ \A f \in FallbackNode : Original(f) \in BaseNode /\ fallbackId[Original(f)] = f
<1>1. \A b \in BaseNode : fallbackId[b] \in FallbackNode /\ fallbackId[b] \notin BaseNode
  BY NodesAssumption
<1>2. ASSUME NEW f \in FallbackNode
      PROVE  Original(f) \in BaseNode /\ fallbackId[Original(f)] = f
  <2>1. f \notin BaseNode /\ \E b \in BaseNode : fallbackId[b] = f
    BY NodesAssumption
  <2> QED BY <2>1 DEF Original
<1>3. ASSUME NEW b \in BaseNode PROVE Original(fallbackId[b]) = b
  <2>1. /\ Original(fallbackId[b]) \in BaseNode
        /\ fallbackId[Original(fallbackId[b])] = fallbackId[b]
    BY <1>1, <1>2
  <2> QED BY <2>1, NodesAssumption
<1> QED BY <1>1, <1>2, <1>3 DEF Original

(* While nothing is replaced the DAG consists of the nodes it began with.  *)
LEMMA OnlyBase ==
  ASSUME NEW st, Replaced(st) = {}
  PROVE  InDag(st) \subseteq BaseNode
<1> SUFFICES ASSUME NEW n \in FallbackNode, st[n] # "absent" PROVE FALSE
  BY DEF InDag, Node
<1>1. Original(n) \in BaseNode /\ fallbackId[Original(n)] = n
  BY Pairing
<1> QED BY <1>1 DEF Replaced, HasFallback

(* In an unmixed run a required node is never an optional input.           *)
LEMMA RequiredNotWeak ==
  ASSUME NEW st, Unmixed(st), NEW dep, NEW n, NEW d \in InDag(st), Requires(def, dep, n, d)
  PROVE  ~Weakly(n, d)
<1>1. CASE def.weak = {}
  BY <1>1 DEF Weakly
<1>2. CASE Replaced(st) = {}
  <2>1. Original(d) = d
    BY <1>2, OnlyBase, Pairing
  <2> QED BY <2>1 DEF Weakly, Requires
<1> QED BY <1>1, <1>2 DEF Unmixed

(* The walk of a failure spares every node that was ever started.          *)
LEMMA WalkSparesStarted ==
  ASSUME TypeOK,
         NEW st \in [Node -> Status], NEW rt, NEW ph, Enlisted(st, rt, ph), Fed(st), Unmixed(st),
         NEW n \in Node, st[n] # "done", NEW r, NEW res, NEW R \in SUBSET Node,
         FailureWalk(def, st, dependsOn, n, r, res, R)
  PROVE  \A m \in R : attempts[m] = 0
<1> SUFFICES ASSUME NEW m \in R, attempts[m] # 0 PROVE FALSE
  OBVIOUS
<1>1. attempts[m] > 0
  BY DEF TypeOK
<1>2. PICK p \in dependsOn[m] : Requires(def, dependsOn, m, p) /\ p \in R \cup {n}
  BY DEF FailureWalk
<1>3. p \in InDag(st)
  BY <1>2 DEF Enlisted
<1>4. st[p] = "done"
  BY <1>1, <1>2, <1>3, RequiredNotWeak DEF Fed
<1>5. p \in R \ {n}
  BY <1>2, <1>4
<1>6. st[p] # "done"
  BY <1>5 DEF FailureWalk
<1> QED BY <1>4, <1>6

(* Which nodes are in the DAG, and which are replaced, depends only on     *)
(* which are absent.                                                       *)
LEMMA SameNodes ==
  ASSUME NEW st, NEW res, \A m \in Node : res[m] = "absent" <=> st[m] = "absent"
  PROVE  InDag(res) = InDag(st) /\ Replaced(res) = Replaced(st)
<1>1. \A b \in BaseNode : fallbackId[b] \in Node
  BY Pairing DEF Node
<1> QED BY <1>1 DEF InDag, Replaced, HasFallback

(* What a failure leaves alone: which nodes the DAG has, the results, and  *)
(* that a running node keeps running.                                      *)
LEMMA WalkKeeps ==
  ASSUME NEW st \in [Node -> Status], NEW n \in Node, st[n] \notin {"absent", "done"},
         NEW r, NEW res, NEW R \in SUBSET Node, FailureWalk(def, st, dependsOn, n, r, res, R)
  PROVE  /\ res \in [Node -> Status]
         /\ \A m \in Node : res[m] = "absent" <=> st[m] = "absent"
         /\ \A m \in Node : res[m] = "done" <=> st[m] = "done"
         /\ \A m \in Node : res[m] = "running" <=> st[m] = "running" /\ m # n
         /\ \A m \in Node : m # n /\ m \notin R => res[m] = st[m]
         /\ FailsSoftly(def, n) => \A m \in R : res[m] = "skipped"
         /\ ~FailsSoftly(def, n) => \A m \in R : res[m] = "blocked"
         /\ InDag(res) = InDag(st) /\ Replaced(res) = Replaced(st)
<1>1. CASE ~Exhausted(def, n, r)
  <2>1. R = {} /\ res = [st EXCEPT ![n] = "pending"]
    BY <1>1 DEF FailureWalk
  <2>2. /\ res \in [Node -> Status]
        /\ res[n] = "pending" /\ \A m \in Node \ {n} : res[m] = st[m]
    BY <2>1 DEF Status
  <2>3. \A m \in Node : res[m] = "absent" <=> st[m] = "absent"
    BY <2>2
  <2> QED BY <2>1, <2>2, <2>3, SameNodes
<1>2. CASE Exhausted(def, n, r) /\ FailsSoftly(def, n)
  <2>1. /\ res = [m \in Node |-> IF m \in R \cup {n} THEN "skipped" ELSE st[m]]
        /\ \A m \in R \ {n} : st[m] \notin {"absent", "done", "running", "skipped"}
    BY <1>2 DEF FailureWalk
  <2>2. /\ res \in [Node -> Status]
        /\ \A m \in Node : res[m] = "absent" <=> st[m] = "absent"
    BY <2>1 DEF Status
  <2>3. /\ \A m \in Node : res[m] = "done" <=> st[m] = "done"
        /\ \A m \in Node : res[m] = "running" <=> st[m] = "running" /\ m # n
    BY <2>1
  <2> QED BY <1>2, <2>1, <2>2, <2>3, SameNodes
<1>3. CASE Exhausted(def, n, r) /\ ~FailsSoftly(def, n)
  <2>1. /\ res = [m \in Node |-> IF m \in R THEN "blocked"
                                 ELSE IF m = n THEN "failed" ELSE st[m]]
        /\ \A m \in R \ {n} : st[m] \notin {"absent", "done", "running", "blocked"}
    BY <1>3 DEF FailureWalk
  <2>2. /\ res \in [Node -> Status]
        /\ \A m \in Node : res[m] = "absent" <=> st[m] = "absent"
    BY <2>1 DEF Status
  <2>3. /\ \A m \in Node : res[m] = "done" <=> st[m] = "done"
        /\ \A m \in Node : res[m] = "running" <=> st[m] = "running" /\ m # n
    BY <2>1
  <2> QED BY <1>3, <2>1, <2>2, <2>3, SameNodes
<1> QED BY <1>1, <1>2, <1>3

-----------------------------------------------------------------------------
(* A failure keeps the graph invariant.                                    *)

(* What a step that fails n works on, and leaves.                          *)
Failing(st, rt, ph, n, charges, st2, rt2, ph2, R) ==
  /\ n \in Node /\ charges \in 1..2 /\ attempts[n] > 0 /\ st[n] # "done"
  /\ FailureWalk(def, st, dependsOn, n, rt[n] + charges, st2, R)
  /\ rt2 = [rt EXCEPT ![n] = @ + charges]
  /\ ph2 \in [Node -> Phase] /\ ph2[n] # "idle" /\ \A m \in Node \ {n} : ph2[m] = ph[m]

LEMMA FailureTypes ==
  ASSUME TypeOK,
         NEW st \in [Node -> Status], NEW rt \in [Node -> Nat], NEW ph \in [Node -> Phase],
         Graph(st, rt, ph), NEW n \in Node, NEW charges, NEW st2, NEW rt2, NEW ph2,
         NEW R \in SUBSET Node, Failing(st, rt, ph, n, charges, st2, rt2, ph2, R)
  PROVE  /\ st[n] \notin {"absent", "done"} /\ attempts[n] > 0
         /\ FailureWalk(def, st, dependsOn, n, rt2[n], st2, R)
         /\ ph2[n] # "idle" /\ \A m \in Node \ {n} : ph2[m] = ph[m]
         /\ rt2 \in [Node -> Nat] /\ rt2[n] = rt[n] + charges /\ rt2[n] > rt[n] /\ rt2[n] \in Nat
         /\ \A m \in Node \ {n} : rt2[m] = rt[m]
         /\ Unmixed(st) => \A m \in R : attempts[m] = 0 /\ m # n
<1>1. st[n] \notin {"absent", "done"}
  BY DEF Failing, Graph, Enlisted, TypeOK
<1>2. charges \in 1..2 /\ rt2 = [rt EXCEPT ![n] = @ + charges]
  BY DEF Failing
<1>3. Unmixed(st) => \A m \in R : attempts[m] = 0
  BY <1>1, WalkSparesStarted DEF Failing, Graph
<1> QED BY <1>1, <1>2, <1>3 DEF Failing

LEMMA FailureEnlisted ==
  ASSUME TypeOK,
         NEW st \in [Node -> Status], NEW rt \in [Node -> Nat], NEW ph \in [Node -> Phase],
         Graph(st, rt, ph), NEW n \in Node, NEW charges, NEW st2, NEW rt2, NEW ph2,
         NEW R \in SUBSET Node, Failing(st, rt, ph, n, charges, st2, rt2, ph2, R)
  PROVE  Enlisted(st2, rt2, ph2)
<1>1. /\ st[n] \notin {"absent", "done"}
      /\ \A m \in Node \ {n} : rt2[m] = rt[m] /\ ph2[m] = ph[m]
  BY FailureTypes
<1>0. st[n] \notin {"absent", "done"} /\ FailureWalk(def, st, dependsOn, n, rt2[n], st2, R)
  BY FailureTypes
<1>2. /\ \A m \in Node : st2[m] = "absent" <=> st[m] = "absent"
      /\ InDag(st2) = InDag(st) /\ Replaced(st2) = Replaced(st)
  BY <1>0, WalkKeeps
<1>3. BaseNode \subseteq Node
  BY DEF Node
<1> QED BY <1>1, <1>2, <1>3 DEF Graph, Enlisted

LEMMA FailureBegun ==
  ASSUME TypeOK,
         NEW st \in [Node -> Status], NEW rt \in [Node -> Nat], NEW ph \in [Node -> Phase],
         Graph(st, rt, ph), NEW n \in Node, NEW charges, NEW st2, NEW rt2, NEW ph2,
         NEW R \in SUBSET Node, Failing(st, rt, ph, n, charges, st2, rt2, ph2, R)
  PROVE  Begun(st2, rt2, ph2)
<1>1. /\ st[n] \notin {"absent", "done"} /\ attempts[n] > 0
      /\ \A m \in Node \ {n} : rt2[m] = rt[m] /\ ph2[m] = ph[m]
  BY FailureTypes
<1>0. st[n] \notin {"absent", "done"} /\ FailureWalk(def, st, dependsOn, n, rt2[n], st2, R)
  BY FailureTypes
<1>2. /\ \A m \in Node : st2[m] = "done" <=> st[m] = "done"
      /\ \A m \in Node : st2[m] = "running" <=> st[m] = "running" /\ m # n
  BY <1>0, WalkKeeps
<1> QED BY <1>1, <1>2 DEF Graph, Begun, Open

LEMMA FailureTerminal ==
  ASSUME TypeOK,
         NEW st \in [Node -> Status], NEW rt \in [Node -> Nat], NEW ph \in [Node -> Phase],
         Graph(st, rt, ph), NEW n \in Node, NEW charges, NEW st2, NEW rt2, NEW ph2,
         NEW R \in SUBSET Node, Failing(st, rt, ph, n, charges, st2, rt2, ph2, R)
  PROVE  Terminal(st2, rt2)
<1>1. /\ st[n] \notin {"absent", "done"} /\ attempts[n] > 0
      /\ rt2[n] = rt[n] + charges
      /\ \A m \in Node \ {n} : rt2[m] = rt[m]
      /\ Unmixed(st) => \A m \in R : attempts[m] = 0 /\ m # n
  BY FailureTypes
<1>0. st[n] \notin {"absent", "done"} /\ FailureWalk(def, st, dependsOn, n, rt2[n], st2, R)
  BY FailureTypes
<1>2. /\ \A m \in Node : m # n /\ m \notin R => st2[m] = st[m]
      /\ FailsSoftly(def, n) => \A m \in R : st2[m] = "skipped"
      /\ ~FailsSoftly(def, n) => \A m \in R : st2[m] = "blocked"
      /\ Replaced(st2) = Replaced(st)
  BY <1>0, WalkKeeps
<1>3. ASSUME NEW m \in Node, st2[m] = "failed"
      PROVE  attempts[m] > 0 /\ Exhausted(def, m, rt2[m]) /\ ~FailsSoftly(def, m)
  <2>1. CASE m = n
    BY <1>0, <1>1, <1>3, <2>1 DEF FailureWalk
  <2>2. CASE m # n
    BY <1>1, <1>2, <1>3, <2>2 DEF Graph, Terminal
  <2> QED BY <2>1, <2>2
<1>4. ASSUME Replaced(st2) = {}, NEW m \in Node, st2[m] = "skipped"
      PROVE  attempts[m] = 0 \/ (Exhausted(def, m, rt2[m]) /\ FailsSoftly(def, m))
  <2>1. CASE m = n
    <3>1. m \notin R
      BY <1>1, <1>2, <1>4, <2>1 DEF Unmixed
    <3> QED BY <1>0, <1>1, <1>4, <2>1, <3>1 DEF FailureWalk
  <2>2. CASE m # n /\ m \in R
    BY <1>1, <1>2, <1>4, <2>2 DEF Unmixed
  <2>3. CASE m # n /\ m \notin R
    BY <1>1, <1>2, <1>4, <2>3 DEF Graph, Terminal
  <2> QED BY <2>1, <2>2, <2>3
<1> QED BY <1>3, <1>4 DEF Terminal

LEMMA FailureFed ==
  ASSUME TypeOK,
         NEW st \in [Node -> Status], NEW rt \in [Node -> Nat], NEW ph \in [Node -> Phase],
         Graph(st, rt, ph), NEW n \in Node, NEW charges, NEW st2, NEW rt2, NEW ph2,
         NEW R \in SUBSET Node, Failing(st, rt, ph, n, charges, st2, rt2, ph2, R)
  PROVE  Fed(st2)
<1>1. /\ st[n] \notin {"absent", "done"} /\ attempts[n] > 0
      /\ rt2[n] \in Nat /\ rt2[n] > rt[n] /\ rt2[n] = rt[n] + charges
      /\ Unmixed(st) => \A m \in R : attempts[m] = 0 /\ m # n
  BY FailureTypes
<1>0. st[n] \notin {"absent", "done"} /\ FailureWalk(def, st, dependsOn, n, rt2[n], st2, R)
  BY FailureTypes
<1>2. /\ \A m \in Node : m # n /\ m \notin R => st2[m] = st[m]
      /\ FailsSoftly(def, n) => \A m \in R : st2[m] = "skipped"
      /\ ~FailsSoftly(def, n) => \A m \in R : st2[m] = "blocked"
      /\ \A m \in Node : st2[m] = "done" <=> st[m] = "done"
      /\ Replaced(st2) = Replaced(st)
  BY <1>0, WalkKeeps
<1> SUFFICES ASSUME NEW m \in Node, attempts[m] > 0, NEW d \in dependsOn[m]
             PROVE  \/ st2[d] = "done"
                    \/ /\ Weakly(m, d)
                       /\ \/ Replaced(st2) # {}
                          \/ st2[d] = "skipped"
                          \/ st2[d] = "blocked" /\ attempts[d] = 0
  BY DEF Fed
<1>3. d \in Node /\ rt[n] \in Nat
  BY DEF TypeOK
<1>4. \/ st[d] = "done"
      \/ /\ Weakly(m, d)
         /\ \/ Replaced(st) # {}
            \/ st[d] = "skipped"
            \/ st[d] = "blocked" /\ attempts[d] = 0
  BY DEF Graph, Fed
<1>5. CASE Replaced(st) = {} /\ d = n /\ st[d] # "done"
  <2>1. st[n] = "skipped"
    BY <1>1, <1>4, <1>5
  <2>2. Exhausted(def, n, rt[n]) /\ FailsSoftly(def, n)
    BY <1>1, <1>5, <2>1 DEF Graph, Terminal
  <2>3. Exhausted(def, n, rt2[n])
    <3>1. MaxRetries(def, n) \in Nat
      BY DEF MaxRetries, TypeOK, Definition
    <3> QED BY <1>1, <1>3, <2>2, <3>1 DEF Exhausted
  <2>4. st2[n] = "skipped"
    BY <1>0, <1>1, <2>2, <2>3 DEF FailureWalk
  <2> QED BY <1>4, <1>5, <2>4
<1>6. CASE Replaced(st) = {} /\ d # n /\ d \in R
  BY <1>1, <1>2, <1>4, <1>6 DEF Unmixed
<1>7. CASE d # n /\ d \notin R
  BY <1>2, <1>3, <1>4, <1>7
<1> QED BY <1>2, <1>3, <1>4, <1>5, <1>6, <1>7

LEMMA FailureGraph ==
  ASSUME TypeOK,
         NEW st \in [Node -> Status], NEW rt \in [Node -> Nat], NEW ph \in [Node -> Phase],
         Graph(st, rt, ph), NEW n \in Node, NEW charges, NEW st2, NEW rt2, NEW ph2,
         NEW R \in SUBSET Node, Failing(st, rt, ph, n, charges, st2, rt2, ph2, R)
  PROVE  Graph(st2, rt2, ph2)
BY FailureEnlisted, FailureBegun, FailureTerminal, FailureFed DEF Graph

-----------------------------------------------------------------------------
(* tick() keeps the graph invariant.                                       *)

(* The creation of fallbacks for F, node by node.                          *)
Replacing(st, F, st2, dep2) ==
  LET new == {fallbackId[n] : n \in F} IN
  /\ F # {} /\ F \in SUBSET BaseNode
  /\ \A n \in F : st[n] = "failed" /\ st2[n] = "skipped"
  /\ \A n \in new : /\ n \in FallbackNode /\ Original(n) \in F
                    /\ st[n] = "absent" /\ st2[n] = "pending"
  /\ \A n \in Node \ (F \cup new) :
       \/ st2[n] = st[n]
       \/ st[n] = "blocked" /\ st2[n] = "pending" /\ \E f \in F : f \in dependsOn[n]
  /\ InDag(st2) = InDag(st) \cup new
  /\ Replaced(st2) = Replaced(st) \cup F
  /\ \A n \in Node \ new : dep2[n] = Redirect(dependsOn[n], F)
  /\ \A n \in new : dep2[n] = Redirect(dependsOn[Original(n)], F)

LEMMA CreatesEffect ==
  ASSUME TypeOK, NEW st \in [Node -> Status], NEW rt, NEW ph, NEW tk,
         TickCreatesFallbacks(st, rt, ph, tk)
  PROVE  /\ Replacing(st, FallbackDue(st, rt), status', dependsOn')
         /\ phase' = ph /\ pendingTicks' = tk + 1
         /\ UNCHANGED <<attempts, aborting, finals>>
<1> DEFINE F == FallbackDue(st, rt)
           new == {fallbackId[n] : n \in F}
           freed == {d \in InDag(st) : st[d] = "blocked" /\ dependsOn[d] \cap F # {}}
<1>1. /\ F # {}
      /\ status' = Mark(Mark(st, F, "skipped"), new \cup freed, "pending")
      /\ dependsOn' = [n \in Node |->
           Redirect(dependsOn[IF n \in new THEN Original(n) ELSE n], F)]
      /\ phase' = ph /\ pendingTicks' = tk + 1
      /\ attempts' = attempts /\ aborting' = aborting /\ finals' = finals
  BY DEF TickCreatesFallbacks
<1>2. F \in SUBSET BaseNode
  BY FallbackNodes
<1>3. \A n \in F : st[n] = "failed" /\ st[fallbackId[n]] = "absent"
  BY <1>2 DEF FallbackDue, HasFallback
<1>4. \A n \in new : n \in FallbackNode /\ Original(n) \in F /\ st[n] = "absent"
  BY <1>2, <1>3, Pairing
<1>5. \A n \in freed : /\ n \in Node /\ st[n] = "blocked"
                       /\ \E f \in F : f \in dependsOn[n]
  BY DEF InDag
<1>6. F \subseteq Node /\ new \subseteq Node
  BY <1>2, <1>4 DEF Node
<1> HIDE DEF F, new, freed
<1>7. \A n \in Node : status'[n] = IF n \in new \cup freed THEN "pending"
                                   ELSE IF n \in F THEN "skipped" ELSE st[n]
  BY <1>1 DEF Mark
<1>8. /\ \A n \in F : status'[n] = "skipped"
      /\ \A n \in new : status'[n] = "pending"
      /\ \A n \in Node \ (F \cup new) :
           \/ status'[n] = st[n]
           \/ st[n] = "blocked" /\ status'[n] = "pending" /\ \E f \in F : f \in dependsOn[n]
  BY <1>3, <1>4, <1>5, <1>6, <1>7
<1>9. \A n \in Node : status'[n] # "absent" <=> st[n] # "absent" \/ n \in new
  BY <1>3, <1>8
<1>10. InDag(status') = InDag(st) \cup new
  BY <1>6, <1>9 DEF InDag
<1>11. Replaced(status') = Replaced(st) \cup F
  <2>1. \A b \in BaseNode : fallbackId[b] \in new <=> b \in F
    BY <1>2, NodesAssumption DEF new
  <2>2. \A b \in BaseNode : fallbackId[b] \in Node
    BY Pairing DEF Node
  <2>3. \A b \in BaseNode : HasFallback(status', b) <=> HasFallback(st, b) \/ b \in F
    BY <1>9, <2>1, <2>2 DEF HasFallback
  <2> QED BY <1>2, <2>3 DEF Replaced
<1>12. /\ \A n \in Node \ new : dependsOn'[n] = Redirect(dependsOn[n], F)
       /\ \A n \in new : dependsOn'[n] = Redirect(dependsOn[Original(n)], F)
  BY <1>1, <1>6
<1>13. Replacing(st, F, status', dependsOn')
  BY <1>1, <1>2, <1>3, <1>4, <1>8, <1>10, <1>11, <1>12 DEF Replacing, new
<1> QED BY <1>1, <1>13 DEF F

(* The dependencies a redirection leaves or gives.                         *)
LEMMA Redirected ==
  ASSUME NEW D, NEW F, NEW d \in Redirect(D, F)
  PROVE  (d \in D /\ d \notin F) \/ \E f \in F : f \in D /\ d = fallbackId[f]
BY DEF Redirect

LEMMA CreatesGraph ==
  ASSUME TypeOK,
         NEW st \in [Node -> Status], NEW rt \in [Node -> Nat], NEW ph \in [Node -> Phase],
         NEW tk, Graph(st, rt, ph), TickCreatesFallbacks(st, rt, ph, tk),
         retries' = rt, def' = def
  PROVE  Graph(status, retries, phase)'
<1> DEFINE F == FallbackDue(st, rt)
           new == {fallbackId[n] : n \in F}
<1>1. /\ Replacing(st, F, status', dependsOn')
      /\ phase' = ph /\ attempts' = attempts
  BY CreatesEffect
<1> HIDE DEF F
<1>2. /\ F # {} /\ F \in SUBSET BaseNode
      /\ \A n \in F : st[n] = "failed" /\ status'[n] = "skipped"
      /\ \A n \in new : st[n] = "absent" /\ status'[n] = "pending"
      /\ \A n \in new : n \in FallbackNode /\ Original(n) \in F
  BY <1>1 DEF Replacing
<1>3. \A n \in Node \ (F \cup new) :
           \/ status'[n] = st[n]
           \/ st[n] = "blocked" /\ status'[n] = "pending" /\ \E f \in F : f \in dependsOn[n]
  BY <1>1 DEF Replacing
<1>4. InDag(status') = InDag(st) \cup new /\ Replaced(status') = Replaced(st) \cup F
  BY <1>1 DEF Replacing
<1>5. /\ \A n \in Node \ new : dependsOn'[n] = Redirect(dependsOn[n], F)
      /\ \A n \in new : dependsOn'[n] = Redirect(dependsOn[Original(n)], F)
  BY <1>1 DEF Replacing
<1>6. \A f \in F : /\ fallbackId[f] \in new /\ fallbackId[f] \notin BaseNode
                   /\ Original(fallbackId[f]) = f /\ Original(f) = f
  BY <1>2, Pairing
<1>7. F \subseteq Node /\ new \subseteq Node
  BY <1>2 DEF Node
<1> HIDE DEF new
<1>8. Enlisted(status, retries, phase)'
  <2>1. \A n \in BaseNode : status'[n] # "absent"
    BY <1>2, <1>3, NodesAssumption DEF Graph, Enlisted, Node
  <2>2. \A n \in Node : status'[n] = "absent" => attempts[n] = 0 /\ rt[n] = 0 /\ ph[n] = "idle"
    BY <1>2, <1>3 DEF Graph, Enlisted
  <2>3. ASSUME NEW n \in Node, NEW d \in dependsOn'[n]
        PROVE  d \in InDag(status') \ Replaced(status')
    <3>1. PICK m \in Node : d \in Redirect(dependsOn[m], F)
      BY <1>2, <1>5, <1>7, <2>3
    <3>2. CASE d \in dependsOn[m] /\ d \notin F
      BY <1>4, <3>2 DEF Graph, Enlisted
    <3>3. CASE \E f \in F : d = fallbackId[f]
      <4>1. d \in new /\ d \notin BaseNode
        BY <1>6, <3>3
      <4> QED BY <1>2, <1>4, <4>1 DEF Replaced
    <3> QED BY <3>1, <3>2, <3>3, Redirected
  <2>4. Replaced(status') # {}
    BY <1>2, <1>4
  <2>5. Replaced(status)' = Replaced(status') /\ InDag(status)' = InDag(status')
    BY DEF Replaced, HasFallback, InDag
  <2> QED BY <1>1, <2>1, <2>2, <2>3, <2>4, <2>5 DEF Graph, Enlisted
<1>9. Begun(status, retries, phase)'
  <2>1. \A n \in Node : /\ status'[n] = "running" => st[n] = "running"
                        /\ status'[n] = "done" => st[n] = "done"
    BY <1>2, <1>3
  <2> QED BY <1>1, <2>1 DEF Graph, Begun
<1>10. Terminal(status, retries)'
  <2>1. \A n \in Node : status'[n] = "failed" => st[n] = "failed"
    BY <1>2, <1>3
  <2>2. Replaced(status)' # {}
    BY <1>2, <1>4 DEF Replaced, HasFallback
  <2> QED BY <1>1, <2>1, <2>2 DEF Graph, Terminal
<1>11. Fed(status)'
  <2> SUFFICES ASSUME NEW n \in Node, attempts[n] > 0, NEW d \in dependsOn'[n]
               PROVE  status'[d] = "done" \/ (Weakly(n, d) /\ Replaced(status)' # {})
    BY <1>1 DEF Fed, Weakly
  <2>1. n \notin new /\ d \in Redirect(dependsOn[n], F)
    BY <1>2, <1>5 DEF Graph, Enlisted
  <2>2. Replaced(status)' # {}
    BY <1>2, <1>4 DEF Replaced, HasFallback
  <2>3. CASE d \in dependsOn[n] /\ d \notin F
    <3>1. st[d] = "done" \/ Weakly(n, d)
      BY <2>3 DEF Graph, Fed
    <3>2. d \in Node
      BY <2>3 DEF TypeOK
    <3>3. st[d] = "done" => status'[d] = "done"
      BY <1>2, <1>3, <2>3, <3>2
    <3> QED BY <2>2, <3>1, <3>3
  <2>4. CASE \E f \in F : f \in dependsOn[n] /\ d = fallbackId[f]
    <3>1. PICK f \in F : f \in dependsOn[n] /\ d = fallbackId[f]
      BY <2>4
    <3>2. Weakly(n, f)
      BY <1>2, <3>1 DEF Graph, Fed
    <3>3. Weakly(n, d)
      BY <1>6, <3>1, <3>2 DEF Weakly
    <3> QED BY <2>2, <3>3
  <2> QED BY <2>1, <2>3, <2>4, Redirected
<1> QED BY <1>8, <1>9, <1>10, <1>11 DEF Graph

(* A node is found runnable, when the tick gets as far as dispatching,     *)
(* only with everything it requires done: what failed is replaced or has   *)
(* failed the run.                                                         *)
LEMMA RunnableIsFed ==
  ASSUME TypeOK,
         NEW st \in [Node -> Status], NEW rt \in [Node -> Nat], NEW ph,
         Graph(st, rt, ph), FallbackDue(st, rt) = {}, ~IsFailed(def, st, rt),
         NEW n \in Runnable(def, st, dependsOn), NEW d \in dependsOn[n]
  PROVE  st[d] = "done" \/ (st[d] = "skipped" /\ ~Requires(def, dependsOn, n, d) /\ Weakly(n, d))
<1>1. n \in Node /\ Satisfied(def, st, dependsOn, n, d)
  BY DEF Runnable
<1>2. d \in InDag(st) /\ d \notin Replaced(st) /\ d \in Node
  BY <1>1 DEF Graph, Enlisted, InDag
<1>3. st[d] # "blocked"
  BY <1>2 DEF IsFailed
<1>4. st[d] # "failed"
  <2> SUFFICES ASSUME st[d] = "failed" PROVE FALSE
    OBVIOUS
  <2>1. Exhausted(def, d, rt[d]) /\ ~FailsSoftly(def, d)
    BY <1>2 DEF Graph, Terminal
  <2>2. d \notin def.skips /\ ~OutputsOptional(def, d)
    BY <2>1 DEF FailsSoftly
  <2>3. d \in def.fallback
    BY <1>2, <2>1, <2>2 DEF IsFailed
  <2>4. d \in BaseNode
    BY <2>3 DEF TypeOK, Definition
  <2>5. HasFallback(st, d)
    BY <2>1, <2>3 DEF FallbackDue
  <2> QED BY <1>2, <2>4, <2>5 DEF Replaced
<1>5. CASE st[d] = "skipped" /\ ~Requires(def, dependsOn, n, d)
  <2>1. <<Original(n), d>> \in def.weak
    BY <1>5 DEF Requires
  <2>2. d \in BaseNode
    BY <2>1 DEF TypeOK, Definition
  <2> QED BY <1>5, <2>1, <2>2 DEF Weakly, Original
<1> QED BY <1>1, <1>3, <1>4, <1>5 DEF Satisfied

(* The start of the nodes in toRun, node by node.                          *)
Starting(st, ph, toRun, st2, ph2, at2) ==
  /\ toRun \subseteq Runnable(def, st, dependsOn)
  /\ \A n \in toRun : /\ st[n] = "pending" /\ st2[n] = "running"
                      /\ ph[n] = "idle" /\ ph2[n] = "starting"
                      /\ at2[n] = attempts[n] + 1 /\ ~HasFallback(st, n)
  /\ \A n \in Node \ toRun : st2[n] = st[n] /\ ph2[n] = ph[n] /\ at2[n] = attempts[n]

LEMMA DispatchEffect ==
  ASSUME TypeOK,
         NEW st \in [Node -> Status], NEW rt \in [Node -> Nat], NEW ph \in [Node -> Phase],
         NEW tk, TickDispatches(st, rt, ph, tk)
  PROVE  /\ FallbackDue(st, rt) = {} /\ ~IsFailed(def, st, rt) /\ ~aborted
         /\ dependsOn' = dependsOn /\ aborting' = aborting
         /\ \E toRun \in SUBSET Node : Starting(st, ph, toRun, status', phase', attempts')
<1>1. /\ FallbackDue(st, rt) = {} /\ ~IsFailed(def, st, rt) /\ ~aborted
      /\ dependsOn' = dependsOn /\ aborting' = aborting
  BY DEF TickDispatches, Proceeds
<1>2. PICK toRun \in SUBSET Eligible(st, ph) :
        /\ status' = Mark(st, toRun, "running")
        /\ phase' = [n \in Node |-> IF n \in toRun THEN "starting" ELSE ph[n]]
        /\ attempts' = [n \in Node |-> IF n \in toRun THEN attempts[n] + 1 ELSE attempts[n]]
  BY DEF TickDispatches
<1>3. /\ toRun \in SUBSET Node /\ toRun \subseteq Runnable(def, st, dependsOn)
      /\ \A n \in toRun : st[n] = "pending" /\ ph[n] = "idle" /\ ~HasFallback(st, n)
  BY DEF Eligible, Runnable
<1>4. /\ \A n \in toRun : status'[n] = "running" /\ phase'[n] = "starting"
                          /\ attempts'[n] = attempts[n] + 1
      /\ \A n \in Node \ toRun : /\ status'[n] = st[n] /\ phase'[n] = ph[n]
                                 /\ attempts'[n] = attempts[n]
  BY <1>2, <1>3 DEF Mark
<1>5. Starting(st, ph, toRun, status', phase', attempts')
  BY <1>3, <1>4 DEF Starting
<1> QED BY <1>1, <1>3, <1>5

LEMMA DispatchesGraph ==
  ASSUME TypeOK,
         NEW st \in [Node -> Status], NEW rt \in [Node -> Nat], NEW ph \in [Node -> Phase],
         NEW tk, Graph(st, rt, ph), TickDispatches(st, rt, ph, tk),
         retries' = rt, def' = def
  PROVE  Graph(status, retries, phase)'
<1>1. FallbackDue(st, rt) = {} /\ ~IsFailed(def, st, rt) /\ dependsOn' = dependsOn
  BY DispatchEffect
<1>0. PICK toRun \in SUBSET Node : Starting(st, ph, toRun, status', phase', attempts')
  BY DispatchEffect
<1>2. /\ toRun \subseteq Runnable(def, st, dependsOn)
      /\ \A n \in toRun : /\ st[n] = "pending" /\ status'[n] = "running"
                          /\ ph[n] = "idle" /\ phase'[n] = "starting"
                          /\ attempts'[n] = attempts[n] + 1
      /\ \A n \in Node \ toRun : /\ status'[n] = st[n] /\ phase'[n] = ph[n]
                                 /\ attempts'[n] = attempts[n]
  BY <1>0 DEF Starting
<1>3. attempts \in [Node -> Nat]
  BY DEF TypeOK
<1>4. \A n \in Node : status'[n] = "absent" <=> st[n] = "absent"
  BY <1>2
<1>5. InDag(status)' = InDag(st) /\ Replaced(status)' = Replaced(st)
  <2>1. InDag(status') = InDag(st) /\ Replaced(status') = Replaced(st)
    BY <1>4, SameNodes
  <2> QED BY <2>1 DEF InDag, Replaced, HasFallback
<1>6. Enlisted(status, retries, phase)'
  <2>1. BaseNode \subseteq Node
    BY DEF Node
  <2>2. \A n \in Node : status'[n] = "absent" =>
          attempts'[n] = 0 /\ rt[n] = 0 /\ phase'[n] = "idle"
    BY <1>2 DEF Graph, Enlisted
  <2> QED BY <1>1, <1>4, <1>5, <2>1, <2>2 DEF Graph, Enlisted
<1>7. Begun(status, retries, phase)'
  <2>1. \A n \in Node : status'[n] = "running" => Open(phase', n)
    BY <1>2 DEF Graph, Begun, Open
  <2>2. \A n \in Node : status'[n] = "done" \/ phase'[n] # "idle" \/ rt[n] > 0 => attempts'[n] > 0
    BY <1>2, <1>3 DEF Graph, Begun
  <2> QED BY <2>1, <2>2 DEF Begun, Open
<1>8. Terminal(status, retries)'
  <2>1. \A n \in Node : status'[n] = "failed" =>
          attempts'[n] > 0 /\ Exhausted(def, n, rt[n]) /\ ~FailsSoftly(def, n)
    BY <1>2, <1>3 DEF Graph, Terminal
  <2>2. Replaced(st) = {} => \A n \in Node : status'[n] = "skipped" =>
          attempts'[n] = 0 \/ (Exhausted(def, n, rt[n]) /\ FailsSoftly(def, n))
    BY <1>2, <1>3 DEF Graph, Terminal
  <2> QED BY <1>5, <2>1, <2>2 DEF Terminal
<1>9. Fed(status)'
  <2> SUFFICES ASSUME NEW n \in Node, attempts'[n] > 0, NEW d \in dependsOn[n]
               PROVE  \/ status'[d] = "done"
                      \/ /\ Weakly(n, d)
                         /\ \/ Replaced(st) # {}
                            \/ status'[d] = "skipped"
                            \/ status'[d] = "blocked" /\ attempts'[d] = 0
    BY <1>1, <1>5 DEF Fed, Weakly
  <2>1. d \in Node
    BY DEF TypeOK
  <2>2. CASE n \in toRun
    <3>1. st[d] = "done" \/ (st[d] = "skipped" /\ Weakly(n, d))
      BY <1>1, <1>2, <2>2, RunnableIsFed
    <3> QED BY <1>2, <2>1, <3>1
  <2>3. CASE n \notin toRun
    <3>1. attempts[n] > 0
      BY <1>2, <2>3
    <3>2. \/ st[d] = "done"
          \/ /\ Weakly(n, d)
             /\ \/ Replaced(st) # {}
                \/ st[d] = "skipped"
                \/ st[d] = "blocked" /\ attempts[d] = 0
      BY <3>1 DEF Graph, Fed
    <3> QED BY <1>2, <2>1, <3>2
  <2> QED BY <2>2, <2>3
<1> QED BY <1>6, <1>7, <1>8, <1>9 DEF Graph

(* A cancellation, and a tick that leaves the DAG as it is.                *)
LEMMA CancelsGraph ==
  ASSUME TypeOK,
         NEW st \in [Node -> Status], NEW rt \in [Node -> Nat], NEW ph \in [Node -> Phase],
         NEW tk, Graph(st, rt, ph), TickCancels(st, rt, ph, tk),
         retries' = rt, def' = def
  PROVE  Graph(status, retries, phase)'
<1>1. /\ status' = Mark(st, {n \in Node : st[n] \in {"running", "pending"}}, "blocked")
      /\ phase' = ph /\ dependsOn' = dependsOn /\ attempts' = attempts
  BY DEF TickCancels
<1>2. \A n \in Node : status'[n] = IF st[n] \in {"running", "pending"} THEN "blocked" ELSE st[n]
  BY <1>1 DEF Mark
<1>3. \A n \in Node : status'[n] = "absent" <=> st[n] = "absent"
  BY <1>2
<1>4. InDag(status)' = InDag(st) /\ Replaced(status)' = Replaced(st)
  <2>1. InDag(status') = InDag(st) /\ Replaced(status') = Replaced(st)
    BY <1>3, SameNodes
  <2> QED BY <2>1 DEF InDag, Replaced, HasFallback
<1>5. Enlisted(status, retries, phase)'
  BY <1>1, <1>3, <1>4 DEF Graph, Enlisted, Node
<1>6. Begun(status, retries, phase)' /\ Terminal(status, retries)'
  BY <1>1, <1>2, <1>4 DEF Graph, Begun, Terminal, Open
<1>7. Fed(status)'
  <2>1. \A n \in Node : dependsOn[n] \subseteq Node
    BY DEF TypeOK
  <2> QED BY <1>1, <1>2, <1>4, <2>1 DEF Graph, Fed, Weakly
<1> QED BY <1>5, <1>6, <1>7 DEF Graph

LEMMA IdleGraph ==
  ASSUME NEW st, NEW rt, NEW ph, Graph(st, rt, ph),
         status' = st, retries' = rt, phase' = ph,
         dependsOn' = dependsOn, attempts' = attempts, def' = def
  PROVE  Graph(status, retries, phase)'
BY DEF Graph, Enlisted, Begun, Terminal, Fed, Weakly, Replaced, HasFallback, InDag, Open

LEMMA TickGraph ==
  ASSUME TypeOK,
         NEW st \in [Node -> Status], NEW rt \in [Node -> Nat], NEW ph \in [Node -> Phase],
         NEW tk, Graph(st, rt, ph), Tick(st, rt, ph, tk),
         retries' = rt, def' = def
  PROVE  Graph(status, retries, phase)'
<1>1. CASE TickAfterEnd(st, ph, tk) \/ TickHolds(st, rt, ph, tk)
           \/ \E verdict \in Verdict : TickEnds(st, rt, ph, tk, verdict)
  <2>1. /\ status' = st /\ phase' = ph
        /\ dependsOn' = dependsOn /\ attempts' = attempts
    BY <1>1 DEF TickAfterEnd, TickHolds, TickEnds
  <2> QED BY <2>1, IdleGraph
<1>2. CASE TickCreatesFallbacks(st, rt, ph, tk)
  BY <1>2, CreatesGraph
<1>3. CASE TickCancels(st, rt, ph, tk)
  BY <1>3, CancelsGraph
<1>4. CASE TickDispatches(st, rt, ph, tk)
  BY <1>4, DispatchesGraph
<1> QED BY <1>1, <1>2, <1>3, <1>4 DEF Tick

-----------------------------------------------------------------------------
(* The budget of attempts.                                                 *)

LEMMA RetriesPositive ==
  ASSUME TypeOK, NEW n \in Node
  PROVE  MaxRetries(def, n) \in Nat /\ MaxRetries(def, n) > 0
BY DEF MaxRetries, TypeOK, Definition

LEMMA FailureBudget ==
  ASSUME TypeOK,
         NEW st \in [Node -> Status], NEW rt \in [Node -> Nat], NEW ph \in [Node -> Phase],
         Graph(st, rt, ph), NEW n \in Node, NEW charges, NEW st2, NEW rt2, NEW ph2,
         NEW R \in SUBSET Node, Failing(st, rt, ph, n, charges, st2, rt2, ph2, R),
         Budget(st, rt, ph)
  PROVE  Budget(st2, rt2, ph2)
<1>0. st[n] \notin {"absent", "done"} /\ FailureWalk(def, st, dependsOn, n, rt2[n], st2, R)
  BY FailureTypes
<1>1. /\ rt2[n] \in Nat /\ rt2[n] > rt[n]
      /\ \A m \in Node \ {n} : rt2[m] = rt[m] /\ ph2[m] = ph[m]
  BY FailureTypes
<1>2. /\ \A m \in Node : m # n /\ m \notin R => st2[m] = st[m]
      /\ FailsSoftly(def, n) => \A m \in R : st2[m] = "skipped"
      /\ ~FailsSoftly(def, n) => \A m \in R : st2[m] = "blocked"
      /\ \A m \in Node : st2[m] = "done" <=> st[m] = "done"
      /\ Replaced(st2) = Replaced(st)
  BY <1>0, WalkKeeps
<1>3. attempts \in [Node -> Nat]
  BY DEF TypeOK
<1>4. ASSUME NEW m \in Node
      PROVE  attempts[m] <= rt2[m] + (IF Open(ph2, m) \/ st2[m] = "done" THEN 1 ELSE 0)
  <2>1. attempts[m] <= rt[m] + (IF Open(ph, m) \/ st[m] = "done" THEN 1 ELSE 0)
    BY DEF Budget
  <2>2. CASE m = n
    <3>1. attempts[n] <= rt[n] + 1
      BY <1>1, <1>3, <2>1, <2>2
    <3>2. rt[n] + 1 <= rt2[n] /\ rt[n] \in Nat /\ attempts[n] \in Nat
      BY <1>1, <1>3
    <3>3. attempts[n] <= rt2[n]
      BY <1>1, <3>1, <3>2
    <3> QED BY <1>0, <1>1, <1>2, <1>3, <2>2, <3>3
  <2>3. CASE m # n
    <3>1. Open(ph2, m) <=> Open(ph, m)
      BY <1>1, <2>3 DEF Open
    <3> QED BY <1>1, <1>2, <2>1, <2>3, <3>1
  <2> QED BY <2>2, <2>3
<1>5. ASSUME Unmixed(st2), NEW m \in Node
      PROVE  /\ st2[m] = "pending" => rt2[m] < MaxRetries(def, m)
             /\ attempts[m] <= MaxRetries(def, m)
  <2>1. Unmixed(st)
    BY <1>2, <1>5 DEF Unmixed
  <2>2. /\ st[m] = "pending" => rt[m] < MaxRetries(def, m)
        /\ attempts[m] <= MaxRetries(def, m)
    BY <2>1 DEF Budget
  <2>3. CASE m = n
    <3>1. st2[n] = "pending" => ~Exhausted(def, n, rt2[n])
      BY <1>0 DEF FailureWalk
    <3>2. MaxRetries(def, n) \in Nat
      BY RetriesPositive
    <3> QED BY <1>1, <2>2, <2>3, <3>1, <3>2 DEF Exhausted
  <2>4. CASE m # n
    <3>1. st2[m] = "pending" => st[m] = "pending"
      BY <1>2, <2>4
    <3> QED BY <1>1, <2>2, <2>4, <3>1
  <2> QED BY <2>3, <2>4
<1> QED BY <1>4, <1>5 DEF Budget

(* A node that a fallback unblocks was never started in an unmixed run.    *)
LEMMA FreedIsFresh ==
  ASSUME TypeOK, NEW st \in [Node -> Status], NEW rt \in [Node -> Nat],
         NEW ph \in [Node -> Phase], Graph(st, rt, ph), def.weak = {},
         NEW n \in Node, NEW f \in dependsOn[n], st[f] = "failed"
  PROVE  attempts[n] = 0 /\ rt[n] = 0
<1>1. ~Weakly(n, f)
  BY DEF Weakly
<1>2. ~(attempts[n] > 0)
  BY <1>1 DEF Graph, Fed
<1>3. ~(rt[n] > 0)
  BY <1>2 DEF Graph, Begun
<1> QED BY <1>2, <1>3 DEF TypeOK

LEMMA CreatesBudget ==
  ASSUME TypeOK,
         NEW st \in [Node -> Status], NEW rt \in [Node -> Nat], NEW ph \in [Node -> Phase],
         NEW tk, Graph(st, rt, ph), TickCreatesFallbacks(st, rt, ph, tk),
         retries' = rt, def' = def, Budget(st, rt, ph)
  PROVE  Budget(status, retries, phase)'
<1> DEFINE F == FallbackDue(st, rt)
           new == {fallbackId[n] : n \in F}
<1>1. /\ Replacing(st, F, status', dependsOn')
      /\ phase' = ph /\ attempts' = attempts
  BY CreatesEffect
<1> HIDE DEF F
<1>2. /\ F # {} /\ F \in SUBSET BaseNode
      /\ \A n \in F : st[n] = "failed" /\ status'[n] = "skipped"
      /\ \A n \in new : st[n] = "absent" /\ status'[n] = "pending"
      /\ Replaced(status') = Replaced(st) \cup F
  BY <1>1 DEF Replacing
<1>3. \A n \in Node \ (F \cup new) :
           \/ status'[n] = st[n]
           \/ st[n] = "blocked" /\ status'[n] = "pending" /\ \E f \in F : f \in dependsOn[n]
  BY <1>1 DEF Replacing
<1> HIDE DEF new
<1>4. \A n \in Node : status'[n] = "done" <=> st[n] = "done"
  BY <1>2, <1>3
<1>5. \A n \in Node :
        attempts[n] <= rt[n] + (IF Open(ph, n) \/ status'[n] = "done" THEN 1 ELSE 0)
  BY <1>4 DEF Budget
<1>6. ASSUME Unmixed(status'), NEW n \in Node
      PROVE  /\ status'[n] = "pending" => rt[n] < MaxRetries(def, n)
             /\ attempts[n] <= MaxRetries(def, n)
  <2>1. def.weak = {} /\ Unmixed(st)
    BY <1>2, <1>6 DEF Unmixed
  <2>2. /\ st[n] = "pending" => rt[n] < MaxRetries(def, n)
        /\ attempts[n] <= MaxRetries(def, n)
    BY <2>1 DEF Budget
  <2>3. MaxRetries(def, n) \in Nat /\ MaxRetries(def, n) > 0
    BY RetriesPositive
  <2>4. CASE n \in F
    BY <1>2, <2>2, <2>4
  <2>5. CASE n \in new
    <3>1. rt[n] = 0
      BY <1>2, <2>5 DEF Graph, Enlisted
    <3> QED BY <2>2, <2>3, <3>1
  <2>6. CASE n \notin F \cup new /\ status'[n] = st[n]
    BY <2>2, <2>6
  <2>7. CASE \E f \in F : f \in dependsOn[n]
    <3>1. rt[n] = 0
      BY <1>2, <2>1, <2>7, FreedIsFresh
    <3> QED BY <2>2, <2>3, <3>1
  <2> QED BY <1>3, <2>4, <2>5, <2>6, <2>7
<1> QED BY <1>1, <1>5, <1>6 DEF Budget, Unmixed, Replaced, HasFallback, Open

LEMMA DispatchesBudget ==
  ASSUME TypeOK,
         NEW st \in [Node -> Status], NEW rt \in [Node -> Nat], NEW ph \in [Node -> Phase],
         NEW tk, Graph(st, rt, ph), TickDispatches(st, rt, ph, tk),
         retries' = rt, def' = def, Budget(st, rt, ph)
  PROVE  Budget(status, retries, phase)'
<1>0. PICK toRun \in SUBSET Node : Starting(st, ph, toRun, status', phase', attempts')
  BY DispatchEffect
<1>2. /\ \A n \in toRun : /\ st[n] = "pending" /\ status'[n] = "running"
                          /\ ph[n] = "idle" /\ phase'[n] = "starting"
                          /\ attempts'[n] = attempts[n] + 1
      /\ \A n \in Node \ toRun : /\ status'[n] = st[n] /\ phase'[n] = ph[n]
                                 /\ attempts'[n] = attempts[n]
  BY <1>0 DEF Starting
<1>3. attempts \in [Node -> Nat]
  BY DEF TypeOK
<1>4. ASSUME NEW n \in toRun
      PROVE  attempts[n] <= rt[n]
  BY <1>2, <1>3 DEF Budget, Open
<1>5. ASSUME NEW n \in Node
      PROVE  attempts'[n] <= rt[n] + (IF Open(phase', n) \/ status'[n] = "done" THEN 1 ELSE 0)
  <2>1. CASE n \in toRun
    <3>1. Open(phase', n) /\ attempts'[n] = attempts[n] + 1
      BY <1>2, <2>1 DEF Open
    <3>2. attempts[n] <= rt[n] /\ attempts[n] \in Nat /\ rt[n] \in Nat
      BY <1>3, <1>4, <2>1
    <3> QED BY <3>1, <3>2
  <2>2. CASE n \notin toRun
    <3>1. /\ status'[n] = st[n] /\ attempts'[n] = attempts[n]
          /\ Open(phase', n) <=> Open(ph, n)
      BY <1>2, <2>2 DEF Open
    <3> QED BY <3>1 DEF Budget
  <2> QED BY <2>1, <2>2
<1>6. ASSUME Unmixed(status'), NEW n \in Node
      PROVE  /\ status'[n] = "pending" => rt[n] < MaxRetries(def, n)
             /\ attempts'[n] <= MaxRetries(def, n)
  <2>1. Unmixed(st)
    <3>1. \A m \in Node : status'[m] = "absent" <=> st[m] = "absent"
      BY <1>2
    <3>2. Replaced(status') = Replaced(st)
      BY <3>1, SameNodes
    <3> QED BY <1>6, <3>2 DEF Unmixed
  <2>2. /\ st[n] = "pending" => rt[n] < MaxRetries(def, n)
        /\ attempts[n] <= MaxRetries(def, n)
    BY <2>1 DEF Budget
  <2>3. CASE n \in toRun
    <3>1. attempts[n] <= rt[n] /\ rt[n] < MaxRetries(def, n) /\ attempts'[n] = attempts[n] + 1
      BY <1>2, <1>4, <2>2, <2>3
    <3>2. attempts[n] \in Nat /\ rt[n] \in Nat /\ MaxRetries(def, n) \in Nat
      BY <1>3, RetriesPositive
    <3> QED BY <1>2, <2>3, <3>1, <3>2
  <2>4. CASE n \notin toRun
    BY <1>2, <2>2, <2>4
  <2> QED BY <2>3, <2>4
<1> QED BY <1>5, <1>6 DEF Budget, Unmixed, Replaced, HasFallback, Open

LEMMA TickBudget ==
  ASSUME TypeOK,
         NEW st \in [Node -> Status], NEW rt \in [Node -> Nat], NEW ph \in [Node -> Phase],
         NEW tk, Graph(st, rt, ph), Tick(st, rt, ph, tk),
         retries' = rt, def' = def, Budget(st, rt, ph)
  PROVE  Budget(status, retries, phase)'
<1>1. CASE TickAfterEnd(st, ph, tk) \/ TickHolds(st, rt, ph, tk)
           \/ \E verdict \in Verdict : TickEnds(st, rt, ph, tk, verdict)
  <2>1. status' = st /\ phase' = ph /\ attempts' = attempts
    BY <1>1 DEF TickAfterEnd, TickHolds, TickEnds
  <2> QED BY <2>1 DEF Budget, Unmixed, Replaced, HasFallback, Open
<1>2. CASE TickCreatesFallbacks(st, rt, ph, tk)
  BY <1>2, CreatesBudget
<1>3. CASE TickCancels(st, rt, ph, tk)
  <2>1. /\ status' = Mark(st, {n \in Node : st[n] \in {"running", "pending"}}, "blocked")
        /\ phase' = ph /\ attempts' = attempts
    BY <1>3 DEF TickCancels
  <2>2. \A n \in Node : status'[n] = IF st[n] \in {"running", "pending"} THEN "blocked" ELSE st[n]
    BY <2>1 DEF Mark
  <2>3. \A n \in Node : status'[n] = "absent" <=> st[n] = "absent"
    BY <2>2
  <2>4. Unmixed(status') => Unmixed(st)
    <3>1. Replaced(status') = Replaced(st)
      BY <2>3, SameNodes
    <3> QED BY <3>1 DEF Unmixed
  <2>5. \A n \in Node :
          attempts[n] <= rt[n] + (IF Open(ph, n) \/ status'[n] = "done" THEN 1 ELSE 0)
    BY <2>2 DEF Budget
  <2>6. Unmixed(status') => \A n \in Node :
          /\ status'[n] = "pending" => rt[n] < MaxRetries(def, n)
          /\ attempts[n] <= MaxRetries(def, n)
    BY <2>2, <2>4 DEF Budget
  <2> QED BY <2>1, <2>5, <2>6 DEF Budget, Unmixed, Replaced, HasFallback, Open
<1>4. CASE TickDispatches(st, rt, ph, tk)
  BY <1>4, DispatchesBudget
<1> QED BY <1>1, <1>2, <1>3, <1>4 DEF Tick

-----------------------------------------------------------------------------
(* What holds of a run without kills.                                      *)

LEMMA FailureAccounted ==
  ASSUME TypeOK,
         NEW st \in [Node -> Status], NEW rt \in [Node -> Nat], NEW ph \in [Node -> Phase],
         Graph(st, rt, ph), NEW n \in Node, NEW st2, NEW rt2, NEW ph2,
         NEW R \in SUBSET Node, Failing(st, rt, ph, n, 1, st2, rt2, ph2, R),
         Open(ph, n), ~Open(ph2, n),
         \A m \in Node : attempts[m] = rt[m] + (IF Open(ph, m) \/ st[m] = "done" THEN 1 ELSE 0)
  PROVE  \A m \in Node :
           attempts[m] = rt2[m] + (IF Open(ph2, m) \/ st2[m] = "done" THEN 1 ELSE 0)
<1>0. st[n] \notin {"absent", "done"} /\ FailureWalk(def, st, dependsOn, n, rt2[n], st2, R)
  BY FailureTypes
<1>1. /\ rt2[n] = rt[n] + 1
      /\ \A m \in Node \ {n} : rt2[m] = rt[m] /\ ph2[m] = ph[m]
  BY FailureTypes
<1>2. \A m \in Node : st2[m] = "done" <=> st[m] = "done"
  BY <1>0, WalkKeeps
<1> SUFFICES ASSUME NEW m \in Node
             PROVE  attempts[m] = rt2[m] + (IF Open(ph2, m) \/ st2[m] = "done" THEN 1 ELSE 0)
  OBVIOUS
<1>3. rt[m] \in Nat /\ attempts[m] \in Nat
  BY DEF TypeOK
<1>4. CASE m = n
  BY <1>0, <1>1, <1>2, <1>3, <1>4
<1>5. CASE m # n
  <2>1. Open(ph2, m) <=> Open(ph, m)
    BY <1>1, <1>5 DEF Open
  <2> QED BY <1>1, <1>2, <1>5, <2>1
<1> QED BY <1>4, <1>5

(* HasFallback in terms of the set of replaced nodes.                      *)
LEMMA FallbackReplaced ==
  ASSUME NEW st, NEW n
  PROVE  HasFallback(st, n) <=> n \in Replaced(st)
BY DEF Replaced, HasFallback

LEMMA FailureLost ==
  ASSUME TypeOK,
         NEW st \in [Node -> Status], NEW rt \in [Node -> Nat], NEW ph \in [Node -> Phase],
         Graph(st, rt, ph), NEW n \in Node, NEW charges, NEW st2, NEW rt2, NEW ph2,
         NEW R \in SUBSET Node, Failing(st, rt, ph, n, charges, st2, rt2, ph2, R),
         Open(ph, n), ~Open(ph2, n), Unmixed(st),
         NEW lost \in SUBSET Node, LostSet(st, rt, ph, lost)
  PROVE  \E lost2 \in SUBSET Node : LostSet(st2, rt2, ph2, lost2)
<1>0. st[n] \notin {"absent", "done"} /\ FailureWalk(def, st, dependsOn, n, rt2[n], st2, R)
  BY FailureTypes
<1>1. /\ attempts[n] > 0
      /\ \A m \in Node \ {n} : rt2[m] = rt[m] /\ ph2[m] = ph[m]
      /\ \A m \in R : attempts[m] = 0 /\ m # n
  BY FailureTypes
<1>2. /\ \A m \in Node : m # n /\ m \notin R => st2[m] = st[m]
      /\ FailsSoftly(def, n) => \A m \in R : st2[m] = "skipped"
      /\ ~FailsSoftly(def, n) => \A m \in R : st2[m] = "blocked"
      /\ Replaced(st2) = Replaced(st)
  BY <1>0, WalkKeeps
<1>3. \A m \in lost : m # n
  BY <1>1 DEF LostSet
<1>4. \A m \in Node : HasFallback(st2, m) <=> HasFallback(st, m)
  BY <1>2, FallbackReplaced
<1>5. ASSUME NEW m \in lost, attempts[m] > 0
      PROVE  /\ st2[m] = "skipped" /\ ~Open(ph2, m)
             /\ Exhausted(def, m, rt2[m]) /\ FailsSoftly(def, m)
  <2>1. /\ st[m] = "skipped" /\ ~Open(ph, m)
        /\ Exhausted(def, m, rt[m]) /\ FailsSoftly(def, m)
    BY <1>5 DEF LostSet
  <2>2. st2[m] = st[m] /\ rt2[m] = rt[m] /\ ph2[m] = ph[m]
    BY <1>1, <1>2, <1>3, <1>5
  <2> QED BY <2>1, <2>2 DEF Open
<1>6. ASSUME NEW m \in lost, ~(attempts[m] > 0)
      PROVE  /\ attempts[m] = 0
             /\ st2[m] \in {"skipped", "blocked"} \/ (st2[m] = "pending" /\ Replaced(st2) # {})
             /\ \E d \in lost : Requires(def, dependsOn, m, d)
  <2>1. /\ attempts[m] = 0
        /\ st[m] \in {"skipped", "blocked"} \/ (st[m] = "pending" /\ Replaced(st) # {})
        /\ \E d \in lost : Requires(def, dependsOn, m, d)
    BY <1>6 DEF LostSet
  <2>2. st2[m] = st[m] \/ st2[m] \in {"skipped", "blocked"}
    BY <1>2, <1>3
  <2> QED BY <1>2, <2>1, <2>2
<1>7. CASE Exhausted(def, n, rt2[n]) /\ FailsSoftly(def, n)
  <2> DEFINE lost2 == lost \cup R \cup {n}
  <2>1. st2 = [m \in Node |-> IF m \in R \cup {n} THEN "skipped" ELSE st[m]]
    BY <1>0, <1>7 DEF FailureWalk
  <2>2. ASSUME NEW m \in Node, st2[m] = "skipped"
        PROVE  m \in lost2 \/ HasFallback(st2, m)
    <3>1. CASE m \in R \cup {n}
      BY <3>1
    <3>2. CASE m \notin R \cup {n}
      BY <1>2, <1>4, <2>2, <3>2 DEF LostSet
    <3> QED BY <3>1, <3>2
  <2>3. ASSUME NEW m \in lost2
        PROVE  \/ /\ st2[m] = "skipped" /\ attempts[m] > 0 /\ ~Open(ph2, m)
                  /\ Exhausted(def, m, rt2[m]) /\ FailsSoftly(def, m)
               \/ /\ attempts[m] = 0
                  /\ st2[m] \in {"skipped", "blocked"} \/ (st2[m] = "pending" /\ Replaced(st2) # {})
                  /\ \E d \in lost2 : Requires(def, dependsOn, m, d)
    <3>1. CASE m = n
      BY <1>1, <1>7, <2>1, <3>1
    <3>2. CASE m \in R
      <4>1. PICK p \in dependsOn[m] : Requires(def, dependsOn, m, p) /\ p \in R \cup {n}
        BY <1>0, <3>2 DEF FailureWalk
      <4> QED BY <1>1, <1>2, <1>7, <3>2, <4>1
    <3>3. CASE m \in lost
      BY <1>5, <1>6, <3>3
    <3> QED BY <3>1, <3>2, <3>3
  <2>4. LostSet(st2, rt2, ph2, lost2)
    <3> HIDE DEF lost2
    <3> QED BY <2>2, <2>3 DEF LostSet
  <2> QED BY <2>4
<1>8. CASE ~(Exhausted(def, n, rt2[n]) /\ FailsSoftly(def, n))
  <2>1. st2[n] # "skipped"
    <3>1. CASE ~Exhausted(def, n, rt2[n])
      BY <1>0, <3>1 DEF FailureWalk
    <3>2. CASE Exhausted(def, n, rt2[n]) /\ ~FailsSoftly(def, n)
      BY <1>0, <3>2 DEF FailureWalk
    <3> QED BY <1>8, <3>1, <3>2
  <2>2. \A m \in R : st2[m] # "skipped"
    <3>1. CASE ~Exhausted(def, n, rt2[n])
      BY <1>0, <3>1 DEF FailureWalk
    <3> QED BY <1>2, <1>8, <3>1
  <2>3. \A m \in Node : st2[m] = "skipped" => m \in lost \/ HasFallback(st2, m)
    BY <1>2, <1>4, <2>1, <2>2 DEF LostSet
  <2>4. LostSet(st2, rt2, ph2, lost)
    BY <1>5, <1>6, <2>3 DEF LostSet
  <2> QED BY <2>4
<1> QED BY <1>7, <1>8

LEMMA FailureQuiet ==
  ASSUME TypeOK,
         NEW st \in [Node -> Status], NEW rt \in [Node -> Nat], NEW ph \in [Node -> Phase],
         Graph(st, rt, ph), NEW n \in Node, NEW charges, NEW st2, NEW rt2, NEW ph2,
         NEW R \in SUBSET Node, Failing(st, rt, ph, n, charges, st2, rt2, ph2, R),
         Open(ph, n), ~Open(ph2, n), ~TraceMayFail => charges = 1, Quiet(st, rt, ph)
  PROVE  Quiet(st2, rt2, ph2)
<1>0. st[n] \notin {"absent", "done"} /\ FailureWalk(def, st, dependsOn, n, rt2[n], st2, R)
  BY FailureTypes
<1>1. /\ attempts[n] > 0
      /\ \A m \in Node \ {n} : rt2[m] = rt[m] /\ ph2[m] = ph[m]
      /\ Unmixed(st) => \A m \in R : attempts[m] = 0 /\ m # n
  BY FailureTypes
<1>2. /\ \A m \in Node : m # n /\ m \notin R => st2[m] = st[m]
      /\ FailsSoftly(def, n) => \A m \in R : st2[m] = "skipped"
      /\ ~FailsSoftly(def, n) => \A m \in R : st2[m] = "blocked"
      /\ Replaced(st2) = Replaced(st)
  BY <1>0, WalkKeeps
<1>3. ~TraceMayFail => \A m \in Node :
        attempts[m] = rt2[m] + (IF Open(ph2, m) \/ st2[m] = "done" THEN 1 ELSE 0)
  BY FailureAccounted DEF Quiet
<1>4. Unmixed(st2) <=> Unmixed(st)
  BY <1>2 DEF Unmixed
<1>5. ASSUME Unmixed(st), NEW m \in Node, Open(ph2, m)
      PROVE  st2[m] \in {"running", "blocked"}
  <2>1. m # n /\ Open(ph, m)
    BY <1>1, <1>5 DEF Open
  <2>2. attempts[m] > 0
    BY <2>1 DEF Graph, Begun, Open
  <2>3. st2[m] = st[m]
    BY <1>1, <1>2, <1>5, <2>1, <2>2
  <2> QED BY <1>5, <2>1, <2>3 DEF Quiet
<1>6. Unmixed(st) => \E lost \in SUBSET Node : LostSet(st2, rt2, ph2, lost)
  <2> SUFFICES ASSUME Unmixed(st) PROVE \E lost \in SUBSET Node : LostSet(st2, rt2, ph2, lost)
    OBVIOUS
  <2>1. PICK lost \in SUBSET Node : LostSet(st, rt, ph, lost)
    BY DEF Quiet
  <2> QED BY <2>1, FailureLost
<1>7. ASSUME Replaced(st) = {}, ~aborting, NEW m \in Node, st2[m] = "blocked"
      PROVE  \E k \in Node : st2[k] = "failed"
  <2>1. Unmixed(st)
    BY <1>7 DEF Unmixed
  <2>2. CASE st[m] = "blocked" /\ m # n /\ m \notin R
    <3>1. PICK k \in Node : st[k] = "failed"
      BY <1>7, <2>2 DEF Quiet
    <3>2. attempts[k] > 0
      BY <3>1 DEF Graph, Terminal
    <3>3. k # n
      BY <2>1, <3>1 DEF Quiet
    <3> QED BY <1>1, <1>2, <2>1, <3>1, <3>2, <3>3
  <2>3. CASE m = n \/ m \in R
    <3>1. Exhausted(def, n, rt2[n]) /\ ~FailsSoftly(def, n)
      <4>1. CASE ~Exhausted(def, n, rt2[n])
        BY <1>0, <1>7, <2>3, <4>1 DEF FailureWalk
      <4>2. CASE Exhausted(def, n, rt2[n]) /\ FailsSoftly(def, n)
        BY <1>0, <1>7, <2>3, <4>2 DEF FailureWalk
      <4> QED BY <4>1, <4>2
    <3>2. n \notin R
      BY <1>1, <2>1
    <3>3. st2[n] = "failed"
      BY <1>0, <3>1, <3>2 DEF FailureWalk
    <3> QED BY <3>3
  <2> QED BY <1>2, <1>7, <2>2, <2>3
<1>8. ASSUME Replaced(st) = {}, NEW m \in Node, st2[m] = "pending",
             NEW d \in dependsOn[m], Requires(def, dependsOn, m, d), st2[d] = "skipped"
      PROVE  FALSE
  <2>0. Unmixed(st)
    BY <1>8 DEF Unmixed
  <2>1. d \in InDag(st) /\ d \in Node
    BY DEF Graph, Enlisted, InDag
  <2>2. m \notin R
    <3>1. CASE ~Exhausted(def, n, rt2[n])
      BY <1>0, <3>1 DEF FailureWalk
    <3> QED BY <1>2, <1>8, <3>1
  <2>3. CASE m = n
    <3>1. st[d] = "done"
      BY <1>1, <1>8, <2>0, <2>1, <2>3, RequiredNotWeak DEF Graph, Fed
    <3>2. st2[d] = "done"
      BY <1>0, <2>1, <3>1, WalkKeeps
    <3> QED BY <1>8, <3>2
  <2>4. CASE m # n
    <3>1. st[m] = "pending"
      BY <1>2, <1>8, <2>2, <2>4
    <3>2. st[d] # "skipped"
      BY <1>8, <3>1 DEF Quiet
    <3>3. d \in R \cup {n}
      BY <1>2, <1>8, <2>1, <3>2
    <3>4. Exhausted(def, n, rt2[n]) /\ FailsSoftly(def, n)
      <4>1. CASE ~Exhausted(def, n, rt2[n])
        BY <1>0, <1>8, <3>3, <4>1 DEF FailureWalk
      <4>2. CASE Exhausted(def, n, rt2[n]) /\ ~FailsSoftly(def, n)
        BY <1>0, <1>8, <3>3, <4>2 DEF FailureWalk
      <4> QED BY <4>1, <4>2
    <3> QED BY <1>0, <1>8, <2>2, <2>4, <3>1, <3>3, <3>4 DEF FailureWalk
  <2> QED BY <2>3, <2>4
<1> QED BY <1>2, <1>3, <1>4, <1>5, <1>6, <1>7, <1>8 DEF Quiet

LEMMA CreatesQuiet ==
  ASSUME TypeOK,
         NEW st \in [Node -> Status], NEW rt \in [Node -> Nat], NEW ph \in [Node -> Phase],
         NEW tk, Graph(st, rt, ph), TickCreatesFallbacks(st, rt, ph, tk),
         retries' = rt, def' = def, Quiet(st, rt, ph)
  PROVE  Quiet(status, retries, phase)'
<1> DEFINE F == FallbackDue(st, rt)
           new == {fallbackId[n] : n \in F}
<1>1. /\ Replacing(st, F, status', dependsOn')
      /\ phase' = ph /\ attempts' = attempts /\ aborting' = aborting
  BY CreatesEffect
<1> HIDE DEF F
<1>2. /\ F # {} /\ F \in SUBSET BaseNode
      /\ \A n \in F : st[n] = "failed" /\ status'[n] = "skipped"
      /\ \A n \in new : st[n] = "absent" /\ status'[n] = "pending"
      /\ Replaced(status') = Replaced(st) \cup F
  BY <1>1 DEF Replacing
<1>3. \A n \in Node \ (F \cup new) :
           \/ status'[n] = st[n]
           \/ st[n] = "blocked" /\ status'[n] = "pending" /\ \E f \in F : f \in dependsOn[n]
  BY <1>1 DEF Replacing
<1>4. \A n \in Node \ new : dependsOn'[n] = Redirect(dependsOn[n], F)
  BY <1>1 DEF Replacing
<1> HIDE DEF new
<1>5. \A n \in Node : status'[n] = "done" <=> st[n] = "done"
  BY <1>2, <1>3
<1>6. ~TraceMayFail => \A n \in Node :
        attempts[n] = rt[n] + (IF Open(ph, n) \/ status'[n] = "done" THEN 1 ELSE 0)
  BY <1>5 DEF Quiet
<1>7. Replaced(status') # {}
  BY <1>2
<1>8. ASSUME Unmixed(status')
      PROVE  /\ \A n \in Node : Open(ph, n) => status'[n] \in {"running", "blocked"}
             /\ \E lost \in SUBSET Node : LostSet(status, retries, phase, lost)'
  <2>1. def.weak = {} /\ Unmixed(st)
    BY <1>2, <1>8 DEF Unmixed
  <2>2. ASSUME NEW n \in Node, Open(ph, n)
        PROVE  status'[n] \in {"running", "blocked"}
    <3>1. st[n] \in {"running", "blocked"}
      BY <2>1, <2>2 DEF Quiet
    <3>2. attempts[n] > 0
      BY <2>2 DEF Graph, Begun, Open
    <3>3. n \notin F \cup new
      BY <1>2, <3>1
    <3>4. ~\E f \in F : f \in dependsOn[n]
      BY <1>2, <2>1, <3>2, FreedIsFresh
    <3> QED BY <1>3, <3>1, <3>3, <3>4
  <2>3. PICK lost \in SUBSET Node : LostSet(st, rt, ph, lost)
    BY <2>1 DEF Quiet
  <2>4. \A n \in Node : HasFallback(status', n) <=> HasFallback(st, n) \/ n \in F
    BY <1>2, FallbackReplaced
  <2>5. \A n \in lost : n \notin F \cup new
    BY <1>2, <2>3 DEF LostSet
  <2>6. ASSUME NEW n \in Node, status'[n] = "skipped"
        PROVE  n \in lost \/ HasFallback(status', n)
    BY <1>2, <1>3, <2>3, <2>4, <2>6 DEF LostSet
  <2>7. ASSUME NEW n \in lost, attempts[n] > 0
        PROVE  /\ status'[n] = "skipped" /\ ~Open(ph, n)
               /\ Exhausted(def, n, rt[n]) /\ FailsSoftly(def, n)
    BY <1>3, <2>3, <2>5, <2>7 DEF LostSet
  <2>8. ASSUME NEW n \in lost, ~(attempts[n] > 0)
        PROVE  /\ attempts[n] = 0 /\ status'[n] \in {"skipped", "blocked", "pending"}
               /\ \E d \in lost : Requires(def, dependsOn', n, d)
    <3>1. PICK d \in lost : Requires(def, dependsOn, n, d)
      BY <2>3, <2>8 DEF LostSet
    <3>2. d \in Redirect(dependsOn[n], F)
      BY <2>5, <3>1 DEF Requires, Redirect
    <3>3. Requires(def, dependsOn', n, d)
      BY <1>4, <2>5, <3>1, <3>2 DEF Requires
    <3>4. st[n] \in {"skipped", "blocked", "pending"} /\ attempts[n] = 0
      BY <2>3, <2>8 DEF LostSet
    <3>5. status'[n] \in {"skipped", "blocked", "pending"}
      BY <1>3, <2>5, <3>4
    <3> QED BY <3>3, <3>4, <3>5
  <2>9. \A n \in lost :
          \/ /\ status'[n] = "skipped" /\ attempts'[n] > 0 /\ ~Open(phase', n)
             /\ Exhausted(def', n, retries'[n]) /\ FailsSoftly(def', n)
          \/ /\ attempts'[n] = 0
             /\ \/ status'[n] \in {"skipped", "blocked"}
                \/ status'[n] = "pending" /\ Replaced(status') # {}
             /\ \E d \in lost : Requires(def', dependsOn', n, d)
    BY <1>1, <1>7, <2>7, <2>8
  <2>10. LostSet(status, retries, phase, lost)'
    BY <2>6, <2>9 DEF LostSet, HasFallback, Replaced, Open
  <2> QED BY <2>2, <2>10
<1> QED BY <1>1, <1>6, <1>7, <1>8 DEF Quiet, Unmixed, Replaced, HasFallback, Open

LEMMA CancelsQuiet ==
  ASSUME TypeOK,
         NEW st \in [Node -> Status], NEW rt \in [Node -> Nat], NEW ph \in [Node -> Phase],
         NEW tk, Graph(st, rt, ph), TickCancels(st, rt, ph, tk),
         retries' = rt, def' = def, Quiet(st, rt, ph)
  PROVE  Quiet(status, retries, phase)'
<1>1. /\ status' = Mark(st, {n \in Node : st[n] \in {"running", "pending"}}, "blocked")
      /\ phase' = ph /\ dependsOn' = dependsOn /\ attempts' = attempts /\ aborting' = TRUE
  BY DEF TickCancels
<1>2. \A n \in Node : status'[n] = IF st[n] \in {"running", "pending"} THEN "blocked" ELSE st[n]
  BY <1>1 DEF Mark
<1>3. Replaced(status') = Replaced(st)
  <2>1. \A n \in Node : status'[n] = "absent" <=> st[n] = "absent"
    BY <1>2
  <2> QED BY <2>1, SameNodes
<1>4. ~TraceMayFail => \A n \in Node :
        attempts[n] = rt[n] + (IF Open(ph, n) \/ status'[n] = "done" THEN 1 ELSE 0)
  BY <1>2 DEF Quiet
<1>5. ASSUME Unmixed(status')
      PROVE  /\ \A n \in Node : Open(ph, n) => status'[n] \in {"running", "blocked"}
             /\ \E lost \in SUBSET Node : LostSet(status, retries, phase, lost)'
  <2>1. Unmixed(st)
    BY <1>3, <1>5 DEF Unmixed
  <2>2. PICK lost \in SUBSET Node : LostSet(st, rt, ph, lost)
    BY <2>1 DEF Quiet
  <2>3. \A n \in Node : HasFallback(status', n) <=> HasFallback(st, n)
    BY <1>3, FallbackReplaced
  <2>4. \A n \in Node : status'[n] = "skipped" => n \in lost \/ HasFallback(status', n)
    BY <1>2, <2>2, <2>3 DEF LostSet
  <2>5. \A n \in lost :
          \/ /\ status'[n] = "skipped" /\ attempts'[n] > 0 /\ ~Open(phase', n)
             /\ Exhausted(def', n, retries'[n]) /\ FailsSoftly(def', n)
          \/ /\ attempts'[n] = 0
             /\ \/ status'[n] \in {"skipped", "blocked"}
                \/ status'[n] = "pending" /\ Replaced(status') # {}
             /\ \E d \in lost : Requires(def', dependsOn', n, d)
    BY <1>1, <1>2, <1>3, <2>2 DEF LostSet
  <2>6. LostSet(status, retries, phase, lost)'
    BY <2>4, <2>5 DEF LostSet, HasFallback, Replaced, Open
  <2>7. \A n \in Node : Open(ph, n) => status'[n] \in {"running", "blocked"}
    BY <1>2, <2>1 DEF Quiet
  <2> QED BY <2>6, <2>7
<1>6. \A n \in Node : status'[n] # "pending"
  BY <1>2
<1> QED BY <1>1, <1>4, <1>5, <1>6 DEF Quiet, Unmixed, Replaced, HasFallback, Open

LEMMA DispatchesQuiet ==
  ASSUME TypeOK,
         NEW st \in [Node -> Status], NEW rt \in [Node -> Nat], NEW ph \in [Node -> Phase],
         NEW tk, Graph(st, rt, ph), TickDispatches(st, rt, ph, tk),
         retries' = rt, def' = def, Quiet(st, rt, ph)
  PROVE  Quiet(status, retries, phase)'
<1>0. PICK toRun \in SUBSET Node : Starting(st, ph, toRun, status', phase', attempts')
  BY DispatchEffect
<1>1. /\ FallbackDue(st, rt) = {} /\ ~IsFailed(def, st, rt)
      /\ dependsOn' = dependsOn /\ aborting' = aborting
  BY DispatchEffect
<1>2. /\ toRun \subseteq Runnable(def, st, dependsOn)
      /\ \A n \in toRun : /\ st[n] = "pending" /\ status'[n] = "running"
                          /\ ph[n] = "idle" /\ phase'[n] = "starting"
                          /\ attempts'[n] = attempts[n] + 1
      /\ \A n \in Node \ toRun : /\ status'[n] = st[n] /\ phase'[n] = ph[n]
                                 /\ attempts'[n] = attempts[n]
  BY <1>0 DEF Starting
<1>3. Replaced(status') = Replaced(st)
  <2>1. \A n \in Node : status'[n] = "absent" <=> st[n] = "absent"
    BY <1>2
  <2> QED BY <2>1, SameNodes
<1>4. ASSUME ~TraceMayFail, NEW n \in Node
      PROVE  attempts'[n] = rt[n] + (IF Open(phase', n) \/ status'[n] = "done" THEN 1 ELSE 0)
  <2>1. attempts[n] = rt[n] + (IF Open(ph, n) \/ st[n] = "done" THEN 1 ELSE 0)
    BY <1>4 DEF Quiet
  <2>2. CASE n \in toRun
    <3>1. attempts[n] = rt[n] /\ rt[n] \in Nat
      BY <1>2, <2>1, <2>2 DEF Open
    <3> QED BY <1>2, <2>2, <3>1 DEF Open
  <2>3. CASE n \notin toRun
    <3>1. Open(phase', n) <=> Open(ph, n)
      BY <1>2, <2>3 DEF Open
    <3> QED BY <1>2, <2>1, <2>3, <3>1
  <2> QED BY <2>2, <2>3
<1>5. ASSUME Unmixed(status')
      PROVE  /\ \A n \in Node : Open(phase', n) => status'[n] \in {"running", "blocked"}
             /\ \E lost \in SUBSET Node : LostSet(status, retries, phase, lost)'
  <2>1. Unmixed(st)
    BY <1>3, <1>5 DEF Unmixed
  <2>2. PICK lost \in SUBSET Node : LostSet(st, rt, ph, lost)
    BY <2>1 DEF Quiet
  <2>3. \A n \in Node : HasFallback(status', n) <=> HasFallback(st, n)
    BY <1>3, FallbackReplaced
  <2>4. ASSUME NEW n \in lost PROVE n \notin toRun
    <3>1. CASE attempts[n] > 0
      BY <1>2, <2>2, <2>4, <3>1 DEF LostSet
    <3>2. CASE ~(attempts[n] > 0)
      <4>1. PICK d \in lost : Requires(def, dependsOn, n, d)
        BY <2>2, <2>4, <3>2 DEF LostSet
      <4>2. st[d] # "done" /\ d \in dependsOn[n]
        BY <2>2, <4>1 DEF LostSet, Requires
      <4> QED BY <1>1, <1>2, <4>1, <4>2, RunnableIsFed
    <3> QED BY <3>1, <3>2
  <2>5. \A n \in Node : status'[n] = "skipped" => n \in lost \/ HasFallback(status', n)
    BY <1>2, <2>2, <2>3 DEF LostSet
  <2>6. \A n \in lost : status'[n] = st[n] /\ phase'[n] = ph[n] /\ attempts'[n] = attempts[n]
    BY <1>2, <2>4
  <2>7. \A n \in lost :
          \/ /\ status'[n] = "skipped" /\ attempts'[n] > 0 /\ ~Open(phase', n)
             /\ Exhausted(def', n, retries'[n]) /\ FailsSoftly(def', n)
          \/ /\ attempts'[n] = 0
             /\ \/ status'[n] \in {"skipped", "blocked"}
                \/ status'[n] = "pending" /\ Replaced(status') # {}
             /\ \E d \in lost : Requires(def', dependsOn', n, d)
    BY <1>1, <1>3, <2>2, <2>6 DEF LostSet, Open
  <2>8. LostSet(status, retries, phase, lost)'
    BY <2>5, <2>7 DEF LostSet, HasFallback, Replaced, Open
  <2>9. \A n \in Node : Open(phase', n) => status'[n] \in {"running", "blocked"}
    BY <1>2, <2>1 DEF Quiet, Open
  <2> QED BY <2>8, <2>9
<1>6. \A n \in Node : status'[n] # "blocked"
  <2>1. \A n \in Node : st[n] = "blocked" => IsFailed(def, st, rt)
    BY DEF IsFailed, InDag
  <2> QED BY <1>1, <1>2, <2>1
<1>7. ASSUME Replaced(status') = {}, NEW n \in Node, status'[n] = "pending",
             NEW d \in dependsOn[n], Requires(def, dependsOn, n, d)
      PROVE  status'[d] # "skipped"
  <2>1. d \in Node
    BY DEF TypeOK
  <2>2. st[n] = "pending"
    BY <1>2, <1>7
  <2>3. st[d] # "skipped"
    BY <1>3, <1>7, <2>2 DEF Quiet
  <2> QED BY <1>2, <2>1, <2>3
<1> QED BY <1>1, <1>4, <1>5, <1>6, <1>7 DEF Quiet, Unmixed, Replaced, HasFallback, Open

LEMMA TickQuiet ==
  ASSUME TypeOK,
         NEW st \in [Node -> Status], NEW rt \in [Node -> Nat], NEW ph \in [Node -> Phase],
         NEW tk, Graph(st, rt, ph), Tick(st, rt, ph, tk),
         retries' = rt, def' = def, Quiet(st, rt, ph)
  PROVE  Quiet(status, retries, phase)'
<1>1. CASE TickAfterEnd(st, ph, tk) \/ TickHolds(st, rt, ph, tk)
           \/ \E verdict \in Verdict : TickEnds(st, rt, ph, tk, verdict)
  <2>1. /\ status' = st /\ phase' = ph /\ attempts' = attempts
        /\ dependsOn' = dependsOn /\ aborting' = aborting
    BY <1>1 DEF TickAfterEnd, TickHolds, TickEnds
  <2> QED BY <2>1 DEF Quiet, LostSet, Unmixed, Replaced, HasFallback, Open
<1>2. CASE TickCreatesFallbacks(st, rt, ph, tk)
  BY <1>2, CreatesQuiet
<1>3. CASE TickCancels(st, rt, ph, tk)
  BY <1>3, CancelsQuiet
<1>4. CASE TickDispatches(st, rt, ph, tk)
  BY <1>4, DispatchesQuiet
<1> QED BY <1>1, <1>2, <1>3, <1>4 DEF Tick

-----------------------------------------------------------------------------
(* GraphInv is inductive, given the executor's own invariant IInv.  Over   *)
(* the replays of a run only its graph is: a replay keeps the retries and  *)
(* attempts of the nodes it does not reset.                                *)

Keeps(span, st, rt, ph) ==
  Graph(st, rt, ph) /\ (span = "call" => Budget(st, rt, ph))

Holds(span) ==
  /\ Keeps(span, status, retries, phase)
  /\ span = "call" /\ kills = 0 => Quiet(status, retries, phase)

LEMMA InitGraph == Init => GraphInv
<1> SUFFICES ASSUME Init PROVE GraphInv
  OBVIOUS
<1>1. /\ def \in Definitions /\ def \in Definition
      /\ \A n \in Node : /\ status[n] = IF n \in BaseNode THEN "pending" ELSE "absent"
                         /\ retries[n] = 0 /\ attempts[n] = 0 /\ phase[n] = "idle"
                         /\ dependsOn[n] = IF n \in BaseNode THEN def.dependsOn[n] ELSE {}
  BY ExecutorAssumption DEF Init
<1>2. Replaced(status) = {}
  <2>1. \A b \in BaseNode : fallbackId[b] \in Node /\ fallbackId[b] \notin BaseNode
    BY Pairing DEF Node
  <2> QED BY <1>1, <2>1 DEF Replaced, HasFallback
<1>3. InDag(status) = BaseNode
  BY <1>1 DEF InDag, Node
<1>4. \A n \in Node : dependsOn[n] \subseteq BaseNode
  BY <1>1 DEF Definition
<1>5. Graph(status, retries, phase)
  BY <1>1, <1>2, <1>3, <1>4 DEF Graph, Enlisted, Begun, Terminal, Fed, Open, Node
<1>6. \A n \in Node : MaxRetries(def, n) \in Nat /\ MaxRetries(def, n) > 0
  BY <1>1 DEF MaxRetries, Definition
<1>7. Budget(status, retries, phase)
  BY <1>1, <1>6 DEF Budget, Open
<1>8. LostSet(status, retries, phase, {})
  BY <1>1 DEF LostSet
<1>9. Quiet(status, retries, phase)
  BY <1>1, <1>4, <1>8 DEF Quiet, Open, Node
<1> QED BY <1>5, <1>7, <1>9 DEF GraphInv

(* An attempt that moves between awaits that are alike to the invariant.   *)
LEMMA MoveKeeps ==
  ASSUME NEW span, NEW st, NEW rt, NEW ph, NEW ph2,
         \A n \in Node : Open(ph2, n) <=> Open(ph, n),
         \A n \in Node : ph2[n] # "idle" => ph[n] # "idle"
  PROVE  /\ Keeps(span, st, rt, ph) => Keeps(span, st, rt, ph2)
         /\ Quiet(st, rt, ph) => Quiet(st, rt, ph2)
<1>1. Keeps(span, st, rt, ph) => Keeps(span, st, rt, ph2)
  <2>1. ASSUME Enlisted(st, rt, ph) PROVE Enlisted(st, rt, ph2)
    BY <2>1 DEF Enlisted
  <2>2. ASSUME Begun(st, rt, ph) PROVE Begun(st, rt, ph2)
    BY <2>2 DEF Begun
  <2>3. ASSUME Budget(st, rt, ph) PROVE Budget(st, rt, ph2)
    BY <2>3 DEF Budget
  <2> QED BY <2>1, <2>2, <2>3 DEF Keeps, Graph
<1>2. ASSUME NEW lost \in SUBSET Node, LostSet(st, rt, ph, lost)
      PROVE  LostSet(st, rt, ph2, lost)
  BY <1>2 DEF LostSet
<1>3. ASSUME Quiet(st, rt, ph) PROVE Quiet(st, rt, ph2)
  BY <1>2, <1>3 DEF Quiet
<1> QED BY <1>1, <1>3

(* The invariant of the values that a step leaves is that of its state.    *)
LEMMA KeepsPrime ==
  ASSUME NEW span, Keeps(span, status', retries', phase'),
         dependsOn' = dependsOn, attempts' = attempts, def' = def,
         span = "call" /\ kills' = 0 =>
           aborting' = aborting /\ Quiet(status', retries', phase')
  PROVE  Holds(span)'
<1>1. Graph(status, retries, phase)'
  BY IdleGraph DEF Keeps
<1>2. span = "call" => Budget(status, retries, phase)'
  BY DEF Keeps, Budget, Unmixed, Replaced, HasFallback, Open
<1>3. span = "call" /\ kills' = 0 => Quiet(status, retries, phase)'
  BY DEF Quiet, LostSet, Unmixed, Replaced, HasFallback, Open
<1> QED BY <1>1, <1>2, <1>3 DEF Holds, Keeps

LEMMA FailGraphInv ==
  ASSUME IInv, NEW span, Holds(span), NEW n \in Node, phase[n] \in {"running", "checking"},
         NEW charges \in 1..2, ~TraceMayFail => charges = 1, Fail(n, charges)
  PROVE  Holds(span)'
<1>1. /\ TypeOK /\ status[n] # "done"
      /\ Keeps(span, status, retries, phase)
      /\ span = "call" /\ kills = 0 => Quiet(status, retries, phase)
  BY DEF IInv, Sound, Open, Holds
<1>2. /\ status' = AfterFailure(def, status, dependsOn, n, retries[n] + charges)
      /\ retries' = [retries EXCEPT ![n] = @ + charges]
      /\ phase' = [phase EXCEPT ![n] = "closing"]
      /\ UNCHANGED <<def, dependsOn, attempts, kills, aborting>>
  BY DEF Fail, MoveTo
<1>3. /\ status \in [Node -> Status] /\ retries \in [Node -> Nat] /\ phase \in [Node -> Phase]
  BY <1>1 DEF TypeOK
<1>4. PICK R \in SUBSET Node :
        FailureWalk(def, status, dependsOn, n, retries[n] + charges, status', R)
  BY <1>2, <1>3, FailureEffect
<1>5. attempts[n] > 0
  BY <1>1 DEF Keeps, Graph, Begun
<1>6. /\ phase' \in [Node -> Phase] /\ phase'[n] = "closing"
      /\ \A m \in Node \ {n} : phase'[m] = phase[m]
  BY <1>2, <1>3 DEF Phase
<1>7. Failing(status, retries, phase, n, charges, status', retries', phase', R)
  BY <1>1, <1>2, <1>4, <1>5, <1>6 DEF Failing
<1>8. Open(phase, n) /\ ~Open(phase', n)
  BY <1>6 DEF Open
<1>9. Graph(status', retries', phase')
  BY <1>1, <1>3, <1>7, FailureGraph DEF Keeps
<1>10. span = "call" => Budget(status', retries', phase')
  BY <1>1, <1>3, <1>7, FailureBudget DEF Keeps
<1>11. span = "call" /\ kills = 0 => Quiet(status', retries', phase')
  BY <1>1, <1>3, <1>7, <1>8, FailureQuiet DEF Keeps
<1> QED BY <1>2, <1>9, <1>10, <1>11, KeepsPrime DEF Keeps

(* The tick that a step makes on values that keep the invariant.           *)
LEMMA TickGraphInv ==
  ASSUME TypeOK,
         NEW st \in [Node -> Status], NEW rt \in [Node -> Nat], NEW ph \in [Node -> Phase],
         NEW tk, NEW span, Keeps(span, st, rt, ph), Tick(st, rt, ph, tk),
         retries' = rt, def' = def, span = "call" /\ kills' = 0 => Quiet(st, rt, ph)
  PROVE  Holds(span)'
<1>1. Graph(st, rt, ph) /\ (span = "call" => Budget(st, rt, ph))
  BY DEF Keeps
<1>2. Graph(status, retries, phase)'
  BY <1>1, TickGraph
<1>3. span = "call" => Budget(status, retries, phase)'
  BY <1>1, TickBudget
<1>4. span = "call" /\ kills' = 0 => Quiet(status, retries, phase)'
  BY <1>1, TickQuiet
<1> QED BY <1>2, <1>3, <1>4 DEF Holds, Keeps

LEMMA KillGraphInv ==
  ASSUME IInv, NEW span, Holds(span), NEW n \in Node, Kill(n)
  PROVE  Holds(span)'
<1> DEFINE st == AfterFailure(def, status, dependsOn, n, retries[n] + 1)
<1>1. TypeOK /\ Keeps(span, status, retries, phase)
  BY DEF IInv, Holds
<1>2. /\ status \in [Node -> Status] /\ retries \in [Node -> Nat] /\ phase \in [Node -> Phase]
  BY <1>1 DEF TypeOK
<1>3. /\ phase[n] \in {"running", "checking"} /\ status[n] = "running"
      /\ retries' = [retries EXCEPT ![n] = @ + 1] /\ def' = def
      /\ kills' # 0
  BY <1>1 DEF Kill, TypeOK
<1>4. /\ st \in [Node -> Status] /\ retries' \in [Node -> Nat]
  BY KillValues
<1>5. \/ Tick(st, retries', phase, pendingTicks)
      \/ /\ status' = st
         /\ UNCHANGED <<dependsOn, attempts, phase, pendingTicks, aborting, finals>>
  BY DEF Kill
<1>6. PICK R \in SUBSET Node :
        FailureWalk(def, status, dependsOn, n, retries[n] + 1, st, R)
  BY <1>2, FailureEffect
<1> HIDE DEF st
<1>7. attempts[n] > 0
  BY <1>1, <1>3 DEF Keeps, Graph, Begun
<1>8. Failing(status, retries, phase, n, 1, st, retries', phase, R)
  BY <1>2, <1>3, <1>6, <1>7 DEF Failing
<1>9. Keeps(span, st, retries', phase)
  <2>1. Graph(st, retries', phase)
    BY <1>1, <1>2, <1>8, FailureGraph DEF Keeps
  <2>2. span = "call" => Budget(st, retries', phase)
    BY <1>1, <1>2, <1>8, FailureBudget DEF Keeps
  <2> QED BY <2>1, <2>2 DEF Keeps
<1>10. CASE Tick(st, retries', phase, pendingTicks)
  BY <1>1, <1>2, <1>3, <1>4, <1>9, <1>10, TickGraphInv
<1>11. CASE /\ status' = st
            /\ UNCHANGED <<dependsOn, attempts, phase, pendingTicks, aborting, finals>>
  BY <1>3, <1>9, <1>11, KeepsPrime
<1> QED BY <1>5, <1>10, <1>11

LEMMA PassesGraphInv ==
  ASSUME IInv, NEW span, Holds(span), NEW n \in Node, EvidencePasses(n)
  PROVE  Holds(span)'
<1>1. /\ TypeOK /\ phase[n] = "checking"
      /\ Keeps(span, status, retries, phase)
      /\ span = "call" /\ kills = 0 => Quiet(status, retries, phase)
  BY DEF IInv, Holds, EvidencePasses
<1>2. /\ status' = [status EXCEPT ![n] = "done"] /\ phase' = [phase EXCEPT ![n] = "closing"]
      /\ UNCHANGED <<def, retries, dependsOn, attempts, kills, aborting>>
  BY DEF EvidencePasses, MoveTo
<1>3. /\ status'[n] = "done" /\ phase'[n] = "closing"
      /\ \A m \in Node \ {n} : status'[m] = status[m] /\ phase'[m] = phase[m]
  BY <1>1, <1>2 DEF TypeOK
<1>4. status[n] # "absent" /\ attempts[n] > 0 /\ Open(phase, n) /\ ~Open(phase', n)
  BY <1>1, <1>3 DEF Keeps, Graph, Enlisted, Begun, Open
<1>5. \A m \in Node \ {n} : Open(phase', m) <=> Open(phase, m)
  BY <1>3 DEF Open
<1>6. /\ \A m \in Node : status'[m] = "absent" <=> status[m] = "absent"
      /\ InDag(status') = InDag(status) /\ Replaced(status') = Replaced(status)
  <2>1. \A m \in Node : status'[m] = "absent" <=> status[m] = "absent"
    BY <1>3, <1>4
  <2> QED BY <2>1, SameNodes
<1>7. Enlisted(status', retries', phase')
  BY <1>1, <1>2, <1>3, <1>6 DEF Keeps, Graph, Enlisted, Node
<1>8. Begun(status', retries', phase')
  BY <1>1, <1>2, <1>3, <1>4, <1>5 DEF Keeps, Graph, Begun
<1>9. Terminal(status', retries')
  BY <1>1, <1>2, <1>3, <1>6 DEF Keeps, Graph, Terminal
<1>10. Fed(status')
  <2>1. \A m \in Node : dependsOn[m] \subseteq Node
    BY <1>1 DEF TypeOK
  <2> QED BY <1>1, <1>3, <1>6, <2>1 DEF Keeps, Graph, Fed
<1>11. ASSUME span = "call" PROVE Budget(status', retries', phase')
  <2>1. \A m \in Node : (Open(phase', m) \/ status'[m] = "done") <=>
                          (Open(phase, m) \/ status[m] = "done")
    BY <1>3, <1>4, <1>5
  <2>2. Unmixed(status') <=> Unmixed(status)
    BY <1>6 DEF Unmixed
  <2>3. \A m \in Node : status'[m] = "pending" => status[m] = "pending"
    BY <1>3
  <2> QED BY <1>1, <1>2, <1>11, <2>1, <2>2, <2>3 DEF Keeps, Budget
<1>12. ASSUME span = "call", kills = 0 PROVE Quiet(status', retries', phase')
  <2>1. \A m \in Node : (Open(phase', m) \/ status'[m] = "done") <=>
                          (Open(phase, m) \/ status[m] = "done")
    BY <1>3, <1>4, <1>5
  <2>2. Unmixed(status') <=> Unmixed(status)
    BY <1>6 DEF Unmixed
  <2>3. Quiet(status, retries, phase)
    BY <1>1, <1>12
  <2>4. ~TraceMayFail => \A m \in Node :
          attempts[m] = retries'[m] + (IF Open(phase', m) \/ status'[m] = "done" THEN 1 ELSE 0)
    BY <1>2, <2>1, <2>3 DEF Quiet
  <2>5. ASSUME Unmixed(status), NEW m \in Node, Open(phase', m)
        PROVE  status'[m] \in {"running", "blocked"}
    BY <1>3, <1>4, <1>5, <2>3, <2>5 DEF Quiet
  <2>6. ASSUME Unmixed(status)
        PROVE  \E lost \in SUBSET Node : LostSet(status', retries', phase', lost)
    <3>1. PICK lost \in SUBSET Node : LostSet(status, retries, phase, lost)
      BY <2>3, <2>6 DEF Quiet
    <3>2. \A m \in lost : m # n
      BY <1>4, <3>1 DEF LostSet
    <3>3. \A m \in Node : HasFallback(status', m) <=> HasFallback(status, m)
      BY <1>6, FallbackReplaced
    <3>4. \A m \in lost : /\ status'[m] = status[m] /\ retries'[m] = retries[m]
                          /\ Open(phase', m) <=> Open(phase, m)
      BY <1>2, <1>3, <1>5, <3>2
    <3>5. LostSet(status', retries', phase', lost)
      BY <1>3, <1>6, <3>1, <3>3, <3>4 DEF LostSet
    <3> QED BY <3>5
  <2>7. ASSUME Replaced(status) = {}, ~aborting, NEW m \in Node, status'[m] = "blocked"
        PROVE  \E k \in Node : status'[k] = "failed"
    <3>1. PICK k \in Node : status[k] = "failed"
      BY <1>3, <2>3, <2>7 DEF Quiet
    <3>2. k # n
      BY <1>4, <2>3, <2>7, <3>1 DEF Quiet, Unmixed
    <3> QED BY <1>3, <3>1, <3>2
  <2>8. ASSUME Replaced(status) = {}, NEW m \in Node, status'[m] = "pending",
               NEW d \in dependsOn[m], Requires(def, dependsOn, m, d)
        PROVE  status'[d] # "skipped"
    <3>1. d \in Node
      BY <1>1 DEF TypeOK
    <3>2. status[m] = "pending"
      BY <1>3, <2>8
    <3>3. status[d] # "skipped"
      BY <2>3, <2>8, <3>2 DEF Quiet
    <3> QED BY <1>3, <3>1, <3>3
  <2> QED BY <1>6, <2>2, <2>4, <2>5, <2>6, <2>7, <2>8 DEF Quiet
<1> QED BY <1>2, <1>7, <1>8, <1>9, <1>10, <1>11, <1>12, KeepsPrime DEF Keeps, Graph

(* Every way an attempt can fail charges it once, unless the decision log  *)
(* may fail.                                                               *)
LEMMA FailureCharges ==
  ASSUME NEW n \in Node, RunnerFails(n) \/ EvidenceFails(n) \/ DoneRecordFails(n)
  PROVE  /\ phase[n] \in {"running", "checking"}
         /\ \E charges \in 1..2 : Fail(n, charges) /\ (~TraceMayFail => charges = 1)
BY DEF RunnerFails, EvidenceFails, DoneRecordFails, FailByResult

LEMMA NextGraph ==
  ASSUME IInv, NEW span, Holds(span), [Next]_vars
  PROVE  Holds(span)'
<1>1. /\ TypeOK /\ Keeps(span, status, retries, phase)
      /\ span = "call" /\ kills = 0 => Quiet(status, retries, phase)
  BY DEF IInv, Holds
<1>2. /\ status \in [Node -> Status] /\ retries \in [Node -> Nat] /\ phase \in [Node -> Phase]
  BY <1>1 DEF TypeOK
<1>3. CASE RunTick
  <2>1. /\ Tick(status, retries, phase, pendingTicks - 1)
        /\ UNCHANGED <<def, retries, kills>>
    BY <1>3 DEF RunTick
  <2> QED BY <1>1, <1>2, <2>1, TickGraphInv
<1>4. ASSUME NEW n \in Node, NodeStep(n) PROVE Holds(span)'
  <2>1. CASE RunnerCall(n) \/ RunnerSucceeds(n)
    <3>1. PICK p \in {"running", "checking"} :
            /\ phase[n] \in {"starting", "running"} /\ phase' = [phase EXCEPT ![n] = p]
            /\ UNCHANGED <<def, status, retries, dependsOn, attempts, kills, aborting>>
      BY <2>1 DEF RunnerCall, RunnerSucceeds, MoveTo
    <3>2. /\ \A m \in Node : Open(phase', m) <=> Open(phase, m)
          /\ \A m \in Node : phase'[m] # "idle" => phase[m] # "idle"
      BY <1>2, <3>1 DEF Open
    <3>3. /\ Keeps(span, status, retries, phase')
          /\ span = "call" /\ kills = 0 => Quiet(status, retries, phase')
      BY <1>1, <3>2, MoveKeeps
    <3> QED BY <3>1, <3>3, KeepsPrime
  <2>2. CASE RunnerFails(n) \/ EvidenceFails(n) \/ DoneRecordFails(n)
    BY <2>2, FailureCharges, FailGraphInv
  <2>3. CASE EvidencePasses(n)
    BY <2>3, PassesGraphInv
  <2>4. CASE Close(n)
    <3> DEFINE ph == [phase EXCEPT ![n] = "idle"]
    <3>1. /\ Tick(status, retries, ph, pendingTicks) /\ phase[n] = "closing"
          /\ UNCHANGED <<def, retries, kills>>
      BY <2>4 DEF Close
    <3>2. ph \in [Node -> Phase]
      BY <1>2 DEF Phase
    <3>3. /\ \A m \in Node : Open(ph, m) <=> Open(phase, m)
          /\ \A m \in Node : ph[m] # "idle" => phase[m] # "idle"
      BY <1>2, <3>1 DEF Open
    <3> HIDE DEF ph
    <3>4. /\ Keeps(span, status, retries, ph)
          /\ span = "call" /\ kills = 0 => Quiet(status, retries, ph)
      BY <1>1, <3>3, MoveKeeps
    <3> QED BY <1>1, <1>2, <3>1, <3>2, <3>4, TickGraphInv
  <2> QED BY <1>4, <2>1, <2>2, <2>3, <2>4 DEF NodeStep
<1>5. ASSUME NEW n \in Node, Kill(n) PROVE Holds(span)'
  BY <1>5, KillGraphInv
<1>6. CASE Abort \/ (\E verdict \in Verdict : Resolve(verdict)) \/ UNCHANGED vars
  <2>1. UNCHANGED <<def, status, retries, dependsOn, attempts, phase, kills, aborting>>
    BY <1>6 DEF Abort, Resolve, vars
  <2> QED BY <1>1, <2>1, KeepsPrime
<1> QED BY <1>3, <1>4, <1>5, <1>6 DEF Next, Terminated

(* The invariant of one execute() call, for every set of nodes and         *)
(* definitions, pool size and bound on faults.                             *)
THEOREM GraphInvariance == Spec => []GraphInv
<1>1. GraphInv <=> Holds("call")
  BY DEF GraphInv, Holds, Keeps
<1>2. GraphInv' <=> Holds("call")'
  BY DEF GraphInv, Holds, Keeps
<1>3. IInv /\ GraphInv /\ [Next]_vars => GraphInv'
  BY <1>1, <1>2, NextGraph
<1> QED BY <1>3, InitGraph, Invariance, PTL DEF Spec

(* The whole of the inductive invariant that TLC checks.                   *)
THEOREM InductiveInvariance == Spec => []InductiveInv
<1>1. IInv /\ GraphInv => InductiveInv
  BY DEF InductiveInv
<1> QED BY <1>1, Invariance, GraphInvariance, PTL

-----------------------------------------------------------------------------
(* The properties of the DAG.                                              *)

LEMMA StartedStayFed ==
  ASSUME TypeOK, Graph(status, retries, phase)
  PROVE  DependenciesMet
<1> SUFFICES ASSUME NEW n \in Node, attempts[n] > 0, NEW d \in dependsOn[n],
                    Replaced(status) = {} \/ ~Weakly(n, d)
             PROVE  Satisfied(def, status, dependsOn, n, d)
  BY DEF DependenciesMet
<1>1. CASE status[d] = "done"
  BY <1>1 DEF Satisfied
<1>2. CASE status[d] # "done"
  <2>1. /\ Weakly(n, d) /\ Replaced(status) = {}
        /\ status[d] \in {"skipped", "blocked"}
    BY <1>2 DEF Graph, Fed
  <2>2. d \in BaseNode
    BY <2>1, OnlyBase DEF Graph, Enlisted
  <2>3. ~Requires(def, dependsOn, n, d)
    BY <2>1, <2>2 DEF Requires, Weakly, Original
  <2> QED BY <2>1, <2>3 DEF Satisfied, Unblocking
<1> QED BY <1>1, <1>2

(* A started node keeps the dependencies it waited for.                    *)
THEOREM DependenciesStayMet == Spec => []DependenciesMet
<1>1. IInv /\ GraphInv => DependenciesMet
  BY StartedStayFed DEF IInv, GraphInv
<1> QED BY <1>1, Invariance, GraphInvariance, PTL

LEMMA SkipsHaveCause == IInv /\ GraphInv => SkippedJustified
<1> SUFFICES ASSUME GraphInv, kills = 0, Unmixed(status),
                    NEW n \in Node, status[n] = "skipped"
             PROVE  Excused(n)
  BY DEF SkippedJustified
<1>1. PICK lost \in SUBSET Node : LostSet(status, retries, phase, lost)
  BY DEF GraphInv, Quiet
<1>2. CASE n \notin lost
  BY <1>1, <1>2 DEF LostSet, Excused
<1>3. CASE n \in lost
  <2>1. CASE Exhausted(def, n, retries[n]) /\ FailsSoftly(def, n)
    BY <2>1 DEF Excused
  <2>2. CASE \E d \in lost : Requires(def, dependsOn, n, d)
    <3>1. PICK d \in lost : Requires(def, dependsOn, n, d)
      BY <2>2
    <3>2. \/ status[d] \in {"skipped", "blocked"}
          \/ status[d] = "pending" /\ Replaced(status) # {}
      BY <1>1 DEF LostSet
    <3> QED BY <3>1, <3>2 DEF Excused, Requires
  <2> QED BY <1>1, <1>3, <2>1, <2>2 DEF LostSet
<1> QED BY <1>2, <1>3

(* Without kills, and without a mix of fallbacks and optional inputs, a    *)
(* node is skipped only for a reason that can still be seen.               *)
THEOREM SkipsJustified == Spec => []SkippedJustified
BY SkipsHaveCause, Invariance, GraphInvariance, PTL

LEMMA SuccessIsHonest == IInv /\ GraphInv => HonestSuccess
<1> SUFFICES ASSUME IInv, GraphInv, outcome = "success", kills = 0, Unmixed(status),
                    NEW n \in InDag(status)
             PROVE  \/ AccountedFor(n)
                    \/ HasFallback(status, n) /\ AccountedFor(fallbackId[n])
  BY DEF HonestSuccess
<1>1. FallbackDue(status, retries) = {} /\ IsComplete(def, status)
  BY DEF IInv, Sound, Over
<1>2. \A m \in Node : status[m] = "skipped" => Excused(m)
  BY SkipsHaveCause DEF SkippedJustified
<1>3. def.fallback \subseteq BaseNode
  BY DEF IInv, TypeOK, Definition
<1>4. CASE status[n] \in {"done", "skipped"}
  BY <1>2, <1>4 DEF AccountedFor, InDag
<1>5. CASE status[n] = "failed" /\ n \in def.fallback
  <2>1. Exhausted(def, n, retries[n])
    BY <1>5 DEF GraphInv, Graph, Terminal, InDag
  <2>2. HasFallback(status, n) /\ n \in BaseNode
    BY <1>1, <1>3, <1>5, <2>1 DEF FallbackDue
  <2>3. fallbackId[n] \in InDag(status) /\ fallbackId[n] \notin BaseNode
    BY <2>2, Pairing DEF InDag, HasFallback, Node
  <2>4. status[fallbackId[n]] \in {"done", "skipped"}
    BY <1>1, <1>3, <2>3 DEF IsComplete
  <2>5. AccountedFor(fallbackId[n])
    BY <1>2, <2>3, <2>4 DEF AccountedFor, InDag
  <2> QED BY <2>2, <2>5
<1> QED BY <1>1, <1>4, <1>5 DEF IsComplete

(* A run reports success only when every node is accounted for.            *)
THEOREM SuccessHonest == Spec => []HonestSuccess
BY SuccessIsHonest, Invariance, GraphInvariance, PTL

(* When nothing is in flight or runnable, nothing failed and nothing is    *)
(* blocked, an incomplete DAG has a pending node that requires a skipped   *)
(* one: the first of the pending nodes has nothing else to wait for.       *)
LEMMA StuckOnSkipped ==
  ASSUME TypeOK, Graph(status, retries, phase), Replaced(status) = {},
         InFlight(phase) = {}, Runnable(def, status, dependsOn) = {},
         ~IsComplete(def, status),
         \A n \in InDag(status) : status[n] \notin {"failed", "blocked"}
  PROVE  \E n \in InDag(status) : status[n] = "pending" /\
           \E d \in dependsOn[n] : status[d] = "skipped" /\ Requires(def, dependsOn, n, d)
<1> DEFINE P == {n \in Node : status[n] = "pending"}
<1>1. \A n \in InDag(status) : status[n] \in {"pending", "done", "skipped"}
  BY DEF TypeOK, Status, Graph, Begun, Open, InFlight, InDag
<1>2. P # {} /\ P \subseteq InDag(status)
  BY <1>1 DEF IsComplete, InDag
<1>3. InDag(status) \subseteq BaseNode
  BY OnlyBase
<1>4. PICK n \in P : def.dependsOn[n] \cap P = {}
  <2>1. P \in (SUBSET BaseNode) \ {{}}
    BY <1>2, <1>3
  <2>2. Acyclic(def)
    BY ExecutorAssumption DEF Graph, Enlisted
  <2> HIDE DEF P
  <2> QED BY <2>1, <2>2 DEF Acyclic
<1>5. dependsOn[n] \subseteq InDag(status) \ P
  BY <1>2, <1>3, <1>4 DEF Graph, Enlisted
<1>6. PICK d \in dependsOn[n] : ~Satisfied(def, status, dependsOn, n, d)
  BY <1>4 DEF Runnable
<1>7. status[d] \in {"done", "skipped"}
  BY <1>1, <1>5, <1>6 DEF InDag
<1>8. status[d] = "skipped" /\ Requires(def, dependsOn, n, d)
  BY <1>6, <1>7 DEF Satisfied
<1> QED BY <1>2, <1>4, <1>6, <1>8

LEMMA FailureHasCause == IInv /\ GraphInv => FailsForCause
<1> SUFFICES ASSUME IInv, GraphInv, outcome = "failure", ~aborting, kills = 0,
                    Replaced(status) = {},
                    \A n \in Node : status[n] # "failed"
             PROVE  FALSE
  BY DEF FailsForCause, GraphInv, Graph, Terminal
<1>1. Over(status, retries, phase, pendingTicks) /\ finals = {"failure"}
  BY DEF IInv, Sound
<1>2. \A n \in InDag(status) : status[n] \notin {"failed", "blocked"}
  BY DEF GraphInv, Quiet, InDag
<1>3. /\ InFlight(phase) = {} /\ Runnable(def, status, dependsOn) = {}
      /\ ~IsComplete(def, status)
  BY <1>1, <1>2 DEF Over, IsFailed
<1>4. PICK n \in InDag(status) : status[n] = "pending" /\
        \E d \in dependsOn[n] : status[d] = "skipped" /\ Requires(def, dependsOn, n, d)
  BY <1>2, <1>3, StuckOnSkipped DEF IInv, GraphInv
<1> QED BY <1>4 DEF GraphInv, Quiet, InDag

(* An uncancelled run without kills and fallbacks fails for a node that    *)
(* used up its tries, never because it had nothing left to start.          *)
THEOREM FailureForCause == Spec => []FailsForCause
BY FailureHasCause, Invariance, GraphInvariance, PTL

(* Without kills and with a working decision log every finished attempt    *)
(* was charged once or made its node done.                                 *)
THEOREM AttemptsAddUp == Spec => []AttemptsAccounted
<1>1. GraphInv => AttemptsAccounted
  BY DEF GraphInv, Quiet, AttemptsAccounted
<1> QED BY <1>1, GraphInvariance, PTL

(* No node is started more often than maxRetries allows, unless a fallback *)
(* brings an input of a started node back to life.                         *)
THEOREM RetriesBounded == Spec => []RetryBudget
<1>1. GraphInv => RetryBudget
  BY DEF GraphInv, Budget, RetryBudget
<1> QED BY <1>1, GraphInvariance, PTL

-----------------------------------------------------------------------------
(* The replays of a run.                                                   *)

(* What a replay resets takes everything behind it along.                  *)
LEMMA ResetIsClosed ==
  ASSUME NEW reset \in ResetChoices,
         NEW n \in InDag(status), NEW d \in dependsOn[n], d \in reset
  PROVE  n \in reset
<1> DEFINE edges == AllEdges(def, dependsOn, InDag(status))
<1>1. <<d, n>> \in edges
  BY DEF AllEdges
<1>2. \A f : d \in Dependents(f) \cup {f} => n \in Dependents(f)
  <2> SUFFICES ASSUME NEW f, d \in Dependents(f) \cup {f} PROVE n \in Dependents(f)
    OBVIOUS
  <2> HIDE DEF edges
  <2>1. \A e \in edges : e[1] \in Reached(f, edges) \cup {f} => e[2] \in Reached(f, edges)
    BY ReachedEdges
  <2>2. Dependents(f) = Reached(f, edges)
    BY DEF Dependents, edges
  <2> QED BY <1>1, <2>1, <2>2
<1>3. \A S : d \in WithDependents(S) => n \in WithDependents(S)
  BY <1>2 DEF WithDependents
<1>4. CASE reset = InDag(status)
  BY <1>4
<1>5. CASE \E S : reset = WithDependents(S)
  BY <1>3, <1>5
<1> QED BY <1>4, <1>5 DEF ResetChoices

LEMMA ResetIsInDag ==
  ASSUME NEW reset \in ResetChoices
  PROVE  reset \subseteq InDag(status)
<1>1. \A f : Dependents(f) \subseteq InDag(status)
  BY DEF Dependents, Reached, AllEdges
<1>2. \A S \in SUBSET InDag(status) : WithDependents(S) \subseteq InDag(status)
  BY <1>1 DEF WithDependents
<1>3. \A n \in InDag(status) : {n} \in SUBSET InDag(status)
  OBVIOUS
<1>4. Broken \in SUBSET InDag(status)
  BY DEF Broken
<1> QED BY <1>2, <1>3, <1>4 DEF ResetChoices

LEMMA ReplayHolds ==
  ASSUME IInv, Holds("replays"), NEW reset \in SUBSET Node, DagReplay(reset)
  PROVE  IInv' /\ Holds("replays")'
<1>1. /\ TypeOK /\ Graph(status, retries, phase)
      /\ reset \in ResetChoices /\ Replaced(status) = {}
  BY DEF IInv, Holds, Keeps, DagReplay, Replaced, Node
<1>2. /\ \A n \in reset : /\ status[n] # "absent" /\ status'[n] = "pending"
                          /\ retries'[n] = 0 /\ attempts'[n] = 0
      /\ \A n \in Node \ reset :
           /\ status'[n] = (IF status[n] = "running" THEN "pending" ELSE status[n])
           /\ retries'[n] = retries[n] /\ attempts'[n] = attempts[n]
      /\ \A n \in Node : phase'[n] = "idle"
      /\ UNCHANGED <<def, dependsOn, kills>>
  BY <1>1, ResetIsInDag DEF DagReplay, Mark, InDag
<1>3. TypeOK'
  <2>1. /\ status' \in [Node -> Status] /\ retries' \in [Node -> Nat]
        /\ attempts' \in [Node -> Nat] /\ phase' \in [Node -> Phase]
    BY <1>1 DEF DagReplay, Mark, TypeOK, Status, Phase
  <2> QED BY <1>1, <2>1 DEF DagReplay, TypeOK
<1>4. Sound(status, retries, phase, pendingTicks)'
  <2>1. InFlight(phase)' = {}
    BY <1>2 DEF InFlight
  <2>2. Cardinality(InFlight(phase))' <= Workers
    BY <2>1, FS_EmptySet, ExecutorAssumption
  <2> QED BY <1>2, <2>2 DEF DagReplay, Sound, Open
<1>5. /\ \A n \in Node : status'[n] = "absent" <=> status[n] = "absent"
      /\ InDag(status') = InDag(status) /\ Replaced(status') = {}
  <2>1. \A n \in Node : status'[n] = "absent" <=> status[n] = "absent"
    BY <1>2
  <2> QED BY <1>1, <2>1, SameNodes
<1>6. \A n \in Node : dependsOn[n] \subseteq InDag(status)
  BY <1>1 DEF Graph, Enlisted
<1>7. Enlisted(status, retries, phase)'
  BY <1>1, <1>2, <1>5 DEF Graph, Enlisted, Node
<1>8. Begun(status, retries, phase)'
  BY <1>1, <1>2 DEF Graph, Begun
<1>9. Terminal(status, retries)'
  <2>1. \A n \in Node : status'[n] \in {"failed", "skipped"} =>
          /\ status'[n] = status[n]
          /\ retries'[n] = retries[n] /\ attempts'[n] = attempts[n]
    BY <1>2
  <2> QED BY <1>1, <1>2, <2>1 DEF Graph, Terminal
<1>10. Fed(status)'
  <2> SUFFICES ASSUME NEW n \in Node, attempts'[n] > 0, NEW d \in dependsOn[n]
               PROVE  /\ status'[d] = status[d] /\ attempts'[d] = attempts[d]
                      /\ \/ status[d] = "done"
                         \/ /\ Weakly(n, d)
                            /\ \/ status[d] = "skipped"
                               \/ status[d] = "blocked" /\ attempts[d] = 0
    BY <1>2 DEF Fed, Weakly
  <2>1. n \notin reset /\ attempts[n] > 0
    BY <1>2
  <2>2. n \in InDag(status) /\ d \in Node
    BY <1>1, <1>6, <2>1 DEF Graph, Enlisted, InDag
  <2>3. d \notin reset
    BY <1>1, <2>1, <2>2, ResetIsClosed
  <2>4. \/ status[d] = "done"
        \/ /\ Weakly(n, d)
           /\ \/ status[d] = "skipped"
              \/ status[d] = "blocked" /\ attempts[d] = 0
    BY <1>1, <2>1 DEF Graph, Fed
  <2> QED BY <1>2, <2>2, <2>3, <2>4
<1>11. Graph(status, retries, phase)'
  BY <1>7, <1>8, <1>9, <1>10 DEF Graph
<1> QED BY <1>3, <1>4, <1>11 DEF IInv, Holds, Keeps

LEMMA ReplayInvariance == ReplaySpec => [](IInv /\ Holds("replays"))
<1>1. ReplayInit => IInv /\ Holds("replays")
  BY InitSound, InitGraph DEF ReplayInit, GraphInv, Holds, Keeps
<1>2. IInv /\ Holds("replays") /\ [ReplayNext]_replayVars => (IInv /\ Holds("replays"))'
  <2> SUFFICES ASSUME IInv, Holds("replays"), [ReplayNext]_replayVars
               PROVE  IInv' /\ Holds("replays")'
    OBVIOUS
  <2>1. CASE [Next]_vars
    BY <2>1, NextSound, NextGraph
  <2>2. CASE \E reset \in SUBSET Node : DagReplay(reset)
    BY <2>2, ReplayHolds
  <2> QED BY <2>1, <2>2 DEF ReplayNext, Goes, replayVars
<1> QED BY <1>1, <1>2, PTL DEF ReplaySpec

(* Over any number of crashes, cancellations and replays a started node    *)
(* keeps the dependencies it waited for: what a replay resets takes all    *)
(* that consumed it along.                                                 *)
THEOREM ReplayedDependenciesMet == ReplaySpec => []DependenciesMet
<1>1. IInv /\ Holds("replays") => DependenciesMet
  BY StartedStayFed DEF IInv, Holds, Keeps
<1> QED BY <1>1, ReplayInvariance, PTL

(* A run that nobody cancelled, replayed or not, fails with a failed or    *)
(* blocked node or one that waits for a skipped one.                       *)
THEOREM ReplayedFailureForCause == ReplaySpec => []ReplayFailsForCause
<1>1. IInv /\ Holds("replays") => ReplayFailsForCause
  <2> SUFFICES ASSUME IInv, Holds("replays"), outcome = "failure", ~aborting,
                      \A n \in BaseNode : ~HasFallback(status, n), Broken = {}
               PROVE  \E n \in InDag(status) : Unreachable(n)
    BY DEF ReplayFailsForCause
  <2>1. Over(status, retries, phase, pendingTicks) /\ finals = {"failure"}
    BY DEF IInv, Sound
  <2>2. \A n \in InDag(status) : status[n] \notin {"failed", "blocked"}
    BY DEF Broken
  <2>3. /\ InFlight(phase) = {} /\ Runnable(def, status, dependsOn) = {}
        /\ ~IsComplete(def, status)
    BY <2>1, <2>2 DEF Over, IsFailed
  <2>4. Replaced(status) = {}
    BY DEF Replaced
  <2> QED BY <2>2, <2>3, <2>4, StuckOnSkipped DEF IInv, Holds, Keeps, Unreachable
<1> QED BY <1>1, ReplayInvariance, PTL

(* Type correctness over the replays of a run.                             *)
THEOREM ReplayTypeCorrect == ReplaySpec => []ReplayTypeOK
<1> DEFINE Counted == replays \in 0 .. MaxReplays
<1>1. ReplayInit => Counted
  BY ReplayAssumption DEF ReplayInit
<1>2. Counted /\ [ReplayNext]_replayVars => Counted'
  <2>1. ReplayNext => \/ UNCHANGED replays
                      \/ replays < MaxReplays /\ replays' = replays + 1
    BY DEF ReplayNext, Goes, DagReplay
  <2> QED BY <2>1, ReplayAssumption DEF replayVars
<1>3. Counted /\ IInv => ReplayTypeOK
  BY DEF IInv, ReplayTypeOK
<1> HIDE DEF Counted
<1> QED BY <1>1, <1>2, <1>3, ReplayInvariance, PTL DEF ReplaySpec
=============================================================================
