---------------------------- MODULE DagScheduler ----------------------------
(***************************************************************************)
(* The pure part of the orchestration core: what src/orchestration/dag.ts, *)
(* task-graph.ts and scheduler.ts compute from the DAG's static definition *)
(* and the current status, retry count and dependency list of its nodes.   *)
(*                                                                         *)
(* A definition is what createDag accepts.  Per node it holds the fields   *)
(* the status machine reads: its dependencies, which of them it consumes   *)
(* only through optional inputs, maxRetries, the failurePolicy flags, and  *)
(* whether every declared output is optional.  Names, prompts, routing     *)
(* hints and priorities are left out: priority only decides which of the   *)
(* runnable nodes takes a free slot, a choice the executor model leaves    *)
(* open.                                                                   *)
(***************************************************************************)
EXTENDS Naturals, FiniteSets

CONSTANTS
  BaseNode,       \* ids of the nodes the DAG is created with
  FallbackNode,   \* ids of the nodes the executor may add: "<id>--fallback"
  fallbackId      \* the id the executor picks for the fallback of a node

(* The executor picks an id that no node of the DAG has, so the fallback   *)
(* ids are new and different nodes get different ones.                     *)
ASSUME NodesAssumption ==
  /\ IsFiniteSet(BaseNode)
  /\ IsFiniteSet(FallbackNode)
  /\ BaseNode \cap FallbackNode = {}
  /\ fallbackId \in [BaseNode -> FallbackNode]
  /\ \A m, n \in BaseNode : fallbackId[m] = fallbackId[n] => m = n
  /\ \A f \in FallbackNode : \E n \in BaseNode : fallbackId[n] = f

Node == BaseNode \cup FallbackNode

(* TaskStatus, and "absent" for a fallback node that is not (yet) in the   *)
(* DAG's node list.                                                        *)
Status == {"absent", "pending", "running", "done", "failed", "blocked", "skipped"}

(* The definitions of DAGs; createDag throws on those with a cycle.        *)
Definition ==
  [dependsOn   : [BaseNode -> SUBSET BaseNode],
   weak        : SUBSET (BaseNode \X BaseNode),
   maxRetries  : [BaseNode -> Nat \ {0}],
   skips       : SUBSET BaseNode,    \* failurePolicy.skipOnFailure
   nonBlocking : SUBSET BaseNode,    \* failurePolicy.blockDependents = false
   fallback    : SUBSET BaseNode,    \* failurePolicy.fallbackRole
   optional    : SUBSET BaseNode,    \* every output has required = false
   gated       : SUBSET BaseNode]    \* some output carries an evidence gate

(* The topological sort of the graph takes every node: each set of nodes   *)
(* has one that depends on none of the others.                             *)
Acyclic(def) ==
  \A S \in (SUBSET BaseNode) \ {{}} : \E n \in S : def.dependsOn[n] \cap S = {}

-----------------------------------------------------------------------------
(* Per-node settings.  A fallback node copies the inputs, outputs and      *)
(* evidence gates of the node it replaces; it has one try, blocks its      *)
(* dependents, and has neither skipOnFailure nor a fallback of its own.    *)

Original(n) == IF n \in BaseNode THEN n
               ELSE CHOOSE b \in BaseNode : fallbackId[b] = n

MaxRetries(def, n) == IF n \in BaseNode THEN def.maxRetries[n] ELSE 1

OutputsOptional(def, n) == Original(n) \in def.optional

Gated(def, n) == Original(n) \in def.gated

InDag(st) == {n \in Node : st[n] # "absent"}

(* dependsOnRequiredOutput: a dependency counts unless the node declares   *)
(* inputs from it and all of them are optional.                            *)
Requires(def, dep, n, d) == d \in dep[n] /\ <<Original(n), d>> \notin def.weak

-----------------------------------------------------------------------------
(* runnableNodes: which pending nodes may start.                           *)

Unblocking(def, dep, n, d) ==
  \/ d \in def.nonBlocking
  \/ OutputsOptional(def, d)
  \/ n \in def.nonBlocking
  \/ ~Requires(def, dep, n, d)

Satisfied(def, st, dep, n, d) ==
  \/ st[d] = "done"
  \/ st[d] = "skipped" /\ ~Requires(def, dep, n, d)
  \/ st[d] \in {"failed", "blocked"} /\ Unblocking(def, dep, n, d)

(* Mutant: a dependency only has to be over.                               *)
RunnableOnceOver(def, st, dep) ==
  {n \in Node : st[n] = "pending" /\ \A d \in dep[n] : st[d] \notin {"pending", "running"}}

Runnable(def, st, dep) ==
  {n \in Node : st[n] = "pending" /\ \A d \in dep[n] : Satisfied(def, st, dep, n, d)}

-----------------------------------------------------------------------------
(* The breadth-first walks of blockDependents and skipNode.  Both visit    *)
(* the nodes reachable from the failed one over "requires" edges into      *)
(* nodes they may still change; a walk over a finite graph visits the      *)
(* least set closed under those edges.                                     *)

Reached(f, Edge) ==
  LET heads == {e[2] : e \in Edge} IN
  {n \in heads : \A S \in SUBSET heads :
     (\A e \in Edge : e[1] \in S \cup {f} => e[2] \in S) => n \in S}

(* Mutant: optional inputs are followed too.                               *)
AllEdges(def, dep, target) == UNION {dep[n] \X {n} : n \in target}

RequireEdges(def, dep, target) ==
  {e \in UNION {dep[n] \X {n} : n \in target} : Requires(def, dep, e[2], e[1])}

ToBlock(def, st, dep, f) ==
  Reached(f, RequireEdges(def, dep,
    {n \in Node \ def.nonBlocking : st[n] \notin {"absent", "done", "running", "blocked"}}))

(* Mutant: only the direct dependents are skipped.                         *)
DirectSkips(def, st, dep, f) ==
  {n \in Node : /\ st[n] \notin {"absent", "done", "running", "skipped"}
                /\ Requires(def, dep, n, f)}

ToSkip(def, st, dep, f) ==
  Reached(f, RequireEdges(def, dep,
    {n \in Node : st[n] \notin {"absent", "done", "running", "skipped"}}))

-----------------------------------------------------------------------------
(* updateNodeStatus(id, "failed"): the statuses after one more failure of  *)
(* n, which has now failed r times.                                        *)

Mark(st, S, s) == [n \in Node |-> IF n \in S THEN s ELSE st[n]]

(* Mutant: one try too many.                                               *)
ExhaustedLate(def, n, r) == r > MaxRetries(def, n)

Exhausted(def, n, r) == r >= MaxRetries(def, n)

(* A terminal failure that counts as a skip.                               *)
FailsSoftly(def, n) == n \in def.skips \/ OutputsOptional(def, n)

AfterFailure(def, st, dep, n, r) ==
  LET failed == Mark(st, {n}, "failed") IN
  IF ~Exhausted(def, n, r)         THEN Mark(st, {n}, "pending")
  ELSE IF FailsSoftly(def, n)      THEN Mark(st, {n} \cup ToSkip(def, failed, dep, n), "skipped")
  ELSE IF n \notin def.nonBlocking THEN Mark(failed, ToBlock(def, failed, dep, n), "blocked")
  ELSE failed

-----------------------------------------------------------------------------
(* The scheduler's two verdicts on a DAG.                                  *)

(* Mutant: a failed node counts as finished.                               *)
OverMeansComplete(def, st) ==
  \A n \in InDag(st) : st[n] \in {"done", "skipped", "failed"}

IsComplete(def, st) ==
  \A n \in InDag(st) : st[n] \in {"done", "skipped"} \/ (st[n] = "failed" /\ n \in def.fallback)

IsFailed(def, st, rt) ==
  \E n \in InDag(st) :
     \/ st[n] = "blocked"
     \/ /\ st[n] = "failed"
        /\ Exhausted(def, n, rt[n])
        /\ n \notin def.skips
        /\ n \notin def.fallback
        /\ ~OutputsOptional(def, n)
=============================================================================
