--------------------------- MODULE ProviderRouter ---------------------------
(***************************************************************************)
(* Who works on a node: routeProvider, inferNodeRisk and the votes of the  *)
(* route ensemble in src/providers/router.ts, as functions of the node.    *)
(*                                                                         *)
(* A role stands for the roles the code treats alike: "merger" also for    *)
(* integrator, "security" for coordinator, "coder" for refactorer and      *)
(* executor, "reviewer" for the other read-only roles, "other" for a role  *)
(* the code does not name.  Model tiers, scores and reasons are left out.  *)
(***************************************************************************)
EXTENDS Naturals

Job == [role       : {"orchestrator", "merger", "security", "reviewer", "coder", "other"},
        mergeId    : BOOLEAN,   \* the id of the node contains "merge"
        gated      : BOOLEAN,   \* an output has a command-pass or test-pass gate
        tools      : BOOLEAN,   \* routing.requiresToolCalling
        mcp        : BOOLEAN,   \* routing.requiresMcp
        readOnly   : BOOLEAN,   \* routing.readOnly
        hint       : {"none", "kimi", "deepseek"},
        tier       : BOOLEAN,   \* routing.providerModelTier is set
        complexity : {"simple", "moderate", "complex"},
        policy     : {"auto", "kimi"}]

(* inferNodeRisk.                                                          *)
Risk(j) ==
  IF j.role = "merger" \/ j.mergeId THEN "merge"
  ELSE IF j.gated \/ j.tools THEN "shell"
  ELSE IF j.role = "coder" THEN "write" ELSE "read"

KimiOnly(j) == j.policy = "kimi" \/ j.hint = "kimi"

CoreRole(j) == j.role \in {"orchestrator", "merger"}

AuthorityRole(j) == j.role \in {"orchestrator", "merger", "security"}

NeedsTools(j) == j.mcp \/ j.tools

(* isDedicatedDeepSeekAgent, canUseDirectDeepSeek, and                     *)
(* canUseDeepSeekProAdvisory with the risk it is asked for.                *)
Dedicated(j) == j.hint = "deepseek" /\ j.tier

DirectAllowed(j) == Risk(j) = "read" /\ (j.readOnly \/ j.role = "reviewer")

AdvisoryAllowed(j) ==
  Risk(j) = "write" /\ j.role = "coder" /\ j.complexity # "simple" /\ ~NeedsTools(j)

(* routeProvider: the winner of the route, by its conditions in order.     *)
(* Every winner but "deepseek-direct" leaves the node to Kimi.             *)
Winner(j, available) ==
  IF KimiOnly(j) \/ CoreRole(j) \/ ~available THEN "safety-gate"
  ELSE IF AdvisoryAllowed(j) THEN "deepseek-pro-advisory"
  ELSE IF Risk(j) # "read" \/ NeedsTools(j) THEN "safety-gate"
  ELSE IF j.hint = "deepseek" /\ ~DirectAllowed(j) THEN "safety-gate"
  ELSE IF \/ j.hint = "deepseek" /\ (j.complexity # "complex" \/ Dedicated(j))
          \/ j.hint # "deepseek" /\ ~AuthorityRole(j) /\ DirectAllowed(j)
             /\ j.complexity # "complex"
          \/ j.hint # "deepseek" /\ ~AuthorityRole(j) /\ j.readOnly
             /\ j.complexity = "simple"
       THEN "deepseek-direct"
       ELSE "kimi-authority"

(* providerSafetyReason has one, and what buildProviderRouteEnsemble       *)
(* vetoes: a second computation of who may work on the node.               *)
SafetyReason(j, available) ==
  \/ KimiOnly(j) \/ CoreRole(j) \/ ~available
  \/ Risk(j) # "read" /\ ~AdvisoryAllowed(j)
  \/ NeedsTools(j)
  \/ j.hint = "deepseek" /\ ~DirectAllowed(j)

Vetoed(j, available) ==
  (IF /\ ~SafetyReason(j, available) /\ available /\ DirectAllowed(j)
      /\ (j.complexity # "complex" \/ Dedicated(j)) /\ ~NeedsTools(j)
   THEN {} ELSE {"deepseek-direct"})
  \cup (IF ~SafetyReason(j, available) /\ AdvisoryAllowed(j) /\ available
        THEN {} ELSE {"deepseek-pro-advisory"})
  \cup (IF SafetyReason(j, available) THEN {"safety-gate"} ELSE {})

-----------------------------------------------------------------------------
(* The two computations agree: the gate wins exactly the nodes that have a *)
(* safety reason, and no other winner is vetoed.  The exception is a coder *)
(* with a hint to DeepSeek, which routeProvider gives an adviser before it *)
(* looks at the hint, and the ensemble vetoes for its hint.                *)
RoutesAgree(j, available) ==
  LET winner == Winner(j, available)
      advised == winner = "deepseek-pro-advisory"
  IN /\ (winner = "safety-gate") <=> (SafetyReason(j, available) /\ ~advised)
     /\ winner \in Vetoed(j, available) =>
          winner = "safety-gate" \/ (advised /\ j.hint = "deepseek")
=============================================================================
