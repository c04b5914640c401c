----------------------------- MODULE MCServices -----------------------------
(***************************************************************************)
(* The components around the executor, as one instance for TLC: replays of *)
(* a run, the wire client, the MCP host, the provider runner, the goal     *)
(* loop and the cron engine.  They share no state, so that in a behavior   *)
(* only one of them, the part, takes steps, and the others stay at rest.   *)
(***************************************************************************)
EXTENDS MCExecutor, Replay, WireClient, McpHost, ProviderRunner, GoalLoop, CronEngine

CONSTANT DefaultDefinition   \* the DAG of the parts that replay nothing

VARIABLE part

Policies(x, y, z) == (a :> x) @@ (b :> y) @@ (c :> z)

(* DAGs to replay: results behind a failure that is skipped, that blocks   *)
(* or that does not, with a required and with an optional input.           *)
MCReplayed ==
  {Dag(Chain, Policies("block", "block", "block"), {}, OneRetry),
   Dag(Join, Policies("skip", "block", "block"), {}, Once),
   Dag(Fork, Policies("proceed", "block", "skip"), {}, OneRetry),
   Dag(Chain, Policies("skip", "optional", "block"), {<<c, b>>}, Once)}

MCDefault == Dag(Chain, Policies("block", "block", "block"), {}, OneRetry)

(* Nodes for the provider runner: one for each way through the router.     *)
Reviewer ==
  [role |-> "reviewer", mergeId |-> FALSE, gated |-> FALSE, tools |-> FALSE,
   mcp |-> FALSE, readOnly |-> TRUE, hint |-> "none", tier |-> FALSE,
   complexity |-> "moderate", policy |-> "auto"]

MCJobs ==
  {Reviewer,
   [Reviewer EXCEPT !.readOnly = FALSE],
   [Reviewer EXCEPT !.role = "coder", !.readOnly = FALSE],
   [Reviewer EXCEPT !.gated = TRUE],
   [Reviewer EXCEPT !.role = "security"],
   [Reviewer EXCEPT !.role = "other", !.readOnly = FALSE],
   [Reviewer EXCEPT !.mcp = TRUE],
   [Reviewer EXCEPT !.hint = "kimi"]}

(* What the file says of a job: that it may overlap with itself (as        *)
(* "replace" lets it too), that it may not, or nothing.                    *)
MCSetting ==
  {[listed |-> TRUE, enabled |-> TRUE, catchup |-> TRUE, policy |-> "allow"],
   [listed |-> TRUE, enabled |-> TRUE, catchup |-> FALSE, policy |-> "forbid"],
   [listed |-> FALSE, enabled |-> TRUE, catchup |-> FALSE, policy |-> "forbid"]}

ServicesVars == <<part, replayVars, wireVars, hostVars, providerVars, goalVars, cronVars>>

ServicesInit ==
  /\ part \in {"replay", "wire", "host", "provider", "goal", "cron"}
  /\ ReplayInit /\ WireInit /\ HostInit /\ ProviderInit /\ GoalInit /\ CronInit
  /\ part # "replay" => def = DefaultDefinition /\ ~aborted
  /\ part # "provider" => \A n \in Worker : job[n] = Reviewer
  /\ part # "goal" => \A p \in Command : limit[p] = 0
  /\ part # "cron" => \A j \in CronJob : ~file[j].listed /\ ~jobs[j].listed

ServicesNext ==
  /\ UNCHANGED part
  /\ \/ /\ part = "replay" /\ ReplayNext
        /\ UNCHANGED <<wireVars, hostVars, providerVars, goalVars, cronVars>>
     \/ /\ part = "wire" /\ WireNext
        /\ UNCHANGED <<replayVars, hostVars, providerVars, goalVars, cronVars>>
     \/ /\ part = "host" /\ HostNext
        /\ UNCHANGED <<replayVars, wireVars, providerVars, goalVars, cronVars>>
     \/ /\ part = "provider" /\ ProviderNext
        /\ UNCHANGED <<replayVars, wireVars, hostVars, goalVars, cronVars>>
     \/ /\ part = "goal" /\ GoalNext
        /\ UNCHANGED <<replayVars, wireVars, hostVars, providerVars, cronVars>>
     \/ /\ part = "cron" /\ CronNext
        /\ UNCHANGED <<replayVars, wireVars, hostVars, providerVars, goalVars>>

(* The fairness of the parts concerns steps that are disabled at rest.     *)
ServicesSpec ==
  /\ ServicesInit /\ [][ServicesNext]_ServicesVars
  /\ WireFairness /\ HostFairness

ServicesTypeOK ==
  ReplayTypeOK /\ WireTypeOK /\ HostTypeOK /\ ProviderTypeOK /\ GoalTypeOK /\ CronTypeOK
=============================================================================
