---------------------------- MODULE MCExecutor ----------------------------
(***************************************************************************)
(* Instances of the executor for TLC: three or four nodes, the fallbacks   *)
(* they may get, and the DAG definitions a run may be started with.        *)
(***************************************************************************)
EXTENDS Executor, TLC

CONSTANTS a, b, c, d, fa, fb, fc, fd   \* only executor_core has node d

MCBase == {a, b, c}
MCFallback == {fa, fb, fc}
MCfallbackId == (a :> fa) @@ (b :> fb) @@ (c :> fc)

FourBase == MCBase \cup {d}
FourFallback == MCFallback \cup {fd}
FourfallbackId == MCfallbackId @@ (d :> fd)

(* Shapes: a chain, two dependents of one node and a join; of four nodes,  *)
(* a join with a node behind it and a fork that joins again.               *)
Chain == (a :> {}) @@ (b :> {a}) @@ (c :> {b})
Fork == (a :> {}) @@ (b :> {a}) @@ (c :> {a})
Join == (a :> {}) @@ (b :> {}) @@ (c :> {a, b})
JoinAndOn == Join @@ (d :> {c})
Diamond == Fork @@ (d :> {b, c})

(* What the failure policy and the outputs of a node say about a failure.  *)
Policy == {"block", "skip", "optional", "proceed", "replace", "replace and proceed"}

Dag(shape, policy, weak, tries) ==
  [dependsOn   |-> shape,
   weak        |-> weak,
   maxRetries  |-> tries,
   skips       |-> {n \in BaseNode : policy[n] = "skip"},
   nonBlocking |-> {n \in BaseNode : policy[n] \in {"proceed", "replace and proceed"}},
   fallback    |-> {n \in BaseNode : policy[n] \in {"replace", "replace and proceed"}},
   optional    |-> {n \in BaseNode : policy[n] = "optional"},
   gated       |-> {b}]

Once == [n \in BaseNode |-> 1]
OneRetry == [Once EXCEPT ![b] = 2]

(* Every assignment of policies to the nodes before the last one, which    *)
(* blocks or is replaced, inputs being required or optional, and the gated *)
(* node retried or not.                                                    *)
AllPolicies ==
  LET policies == {p \in [FourBase -> Policy] : p[d] \in {"block", "replace"}}
  IN {Dag(JoinAndOn, p, weak, tries) :
        p \in policies, weak \in {{}, {<<d, c>>}, {<<c, a>>}}, tries \in {Once, OneRetry}}
       \cup {Dag(Diamond, p, weak, Once) : p \in policies, weak \in {{}, {<<d, b>>}}}

(* One policy for all nodes, for the runs with faults.                     *)
SamePolicy ==
  {Dag(shape, [n \in MCBase |-> p], {}, OneRetry) : shape \in {Chain, Join}, p \in Policy}

(* The first node of a chain of three names a fallback role.               *)
ReplacedInChain ==
  {Dag(Chain, [n \in MCBase |-> IF n = a THEN "replace" ELSE "block"], {}, Once)}

(* The DAG of the test "scheduler keeps transitive optional dependents     *)
(* runnable after a blocker".                                              *)
OptionalInput == {Dag(Chain, [n \in MCBase |-> "block"], {<<c, b>>}, Once)}
=============================================================================
