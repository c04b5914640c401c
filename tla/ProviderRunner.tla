--------------------------- MODULE ProviderRunner ---------------------------
(***************************************************************************)
(* The task runner of src/providers/provider-task-runner.ts: nodes that    *)
(* run beside each other, each through a fork of its own, over one         *)
(* ProviderHealthRegistry (src/providers/health.ts).                       *)
(*                                                                         *)
(* A call of the Kimi or DeepSeek runner is one step to begin it and one   *)
(* for its result; "quota" is a failure diagnosed as Kimi's monthly quota. *)
(***************************************************************************)
EXTENDS ProviderRouter, Sequences

CONSTANTS
  Worker,             \* nodes
  Jobs,               \* what a node may be
  DeepSeekRetries,    \* deepseekMaxRetries
  DeepSeekRunner      \* a DeepSeek runner was configured

ASSUME ProviderRunnerAssumption ==
  Jobs \subseteq Job /\ DeepSeekRetries \in Nat /\ DeepSeekRunner \in BOOLEAN

VARIABLES
  kimiOk,      \* isKimiAvailable
  deepseekOk,  \* isDeepSeekAvailable
  job,         \* the node each fork was given
  step,        \* what its run awaits
  route,       \* the winner of its route
  calls,       \* the providers it has called, in order
  answer       \* the provider named in its result and whether it succeeded

providerVars == <<kimiOk, deepseekOk, job, step, route, calls, answer>>

Step == {"idle", "direct", "backoff", "advice", "notify", "kimi", "quota", "done"}

NoAnswer == [provider |-> "none", success |-> FALSE]

ProviderTypeOK ==
  /\ kimiOk \in BOOLEAN /\ deepseekOk \in BOOLEAN
  /\ job \in [Worker -> Jobs]
  /\ step \in [Worker -> Step]
  /\ route \in [Worker -> {"none", "safety-gate", "kimi-authority",
                           "deepseek-direct", "deepseek-pro-advisory"}]
  /\ calls \in [Worker -> Seq({"kimi", "deepseek"})]
  /\ answer \in [Worker -> [provider : {"none", "kimi", "deepseek"}, success : BOOLEAN]]

ProviderInit ==
  /\ kimiOk = TRUE /\ deepseekOk = TRUE
  /\ job \in [Worker -> Jobs]
  /\ step = [n \in Worker |-> "idle"]
  /\ route = [n \in Worker |-> "none"]
  /\ calls = [n \in Worker |-> <<>>]
  /\ answer = [n \in Worker |-> NoAnswer]

(* runWith: the runner of a provider is called for the node.               *)
CallProvider(n, provider, at) ==
  /\ step' = [step EXCEPT ![n] = at]
  /\ calls' = [calls EXCEPT ![n] = Append(@, provider)]
  /\ UNCHANGED answer

(* The run resolves with a result that names the provider.                 *)
Return(n, provider, success) ==
  /\ step' = [step EXCEPT ![n] = "done"]
  /\ answer' = [answer EXCEPT ![n] = [provider |-> provider, success |-> success]]
  /\ UNCHANGED calls

-----------------------------------------------------------------------------

(* The node is routed by the health of DeepSeek at this moment; that of    *)
(* Kimi is not asked for.  Mutant: neither is that of DeepSeek.            *)
BeginUnchecked(n) ==
  LET winner == Winner(job[n], DeepSeekRunner) IN
  /\ step[n] = "idle"
  /\ route' = [route EXCEPT ![n] = winner]
  /\ CASE winner = "deepseek-direct" -> CallProvider(n, "deepseek", "direct")
       [] winner = "deepseek-pro-advisory" -> CallProvider(n, "deepseek", "advice")
       [] OTHER -> CallProvider(n, "kimi", "kimi")
  /\ UNCHANGED <<kimiOk, deepseekOk, job>>

Begin(n) ==
  LET winner == Winner(job[n], DeepSeekRunner /\ deepseekOk) IN
  /\ step[n] = "idle"
  /\ route' = [route EXCEPT ![n] = winner]
  /\ CASE winner = "deepseek-direct" -> CallProvider(n, "deepseek", "direct")
       [] winner = "deepseek-pro-advisory" -> CallProvider(n, "deepseek", "advice")
       [] OTHER -> CallProvider(n, "kimi", "kimi")
  /\ UNCHANGED <<kimiOk, deepseekOk, job>>

(* A direct call succeeds.                                                 *)
DirectSucceeds(n) ==
  /\ step[n] = "direct"
  /\ Return(n, "deepseek", TRUE)
  /\ UNCHANGED <<kimiOk, deepseekOk, job, route>>

(* It fails in a way that may pass, with tries left: the loop sleeps and   *)
(* calls again, whatever became of DeepSeek's health meanwhile.            *)
DirectRetries(n) ==
  /\ step[n] = "direct" /\ Len(calls[n]) <= DeepSeekRetries
  /\ step' = [step EXCEPT ![n] = "backoff"]
  /\ UNCHANGED <<kimiOk, deepseekOk, job, route, calls, answer>>

BackoffOver(n) ==
  /\ step[n] = "backoff"
  /\ CallProvider(n, "deepseek", "direct")
  /\ UNCHANGED <<kimiOk, deepseekOk, job, route>>

(* The last direct call, or the advisory one, failed.  A payment or        *)
(* availability failure disables DeepSeek and the callback is awaited, of  *)
(* every fork again; a transient one disables it too, any other does not.  *)
(* Then Kimi is called.                                                    *)
DeepSeekFails(n, kind) ==
  /\ \/ /\ step[n] = "direct"
        /\ kind = "transient" => Len(calls[n]) > DeepSeekRetries
     \/ step[n] = "advice"
  /\ deepseekOk' = (deepseekOk /\ kind \notin {"availability", "transient"})
  /\ IF kind = "availability"
     THEN /\ step' = [step EXCEPT ![n] = "notify"]
          /\ UNCHANGED <<calls, answer>>
     ELSE CallProvider(n, "kimi", "kimi")
  /\ UNCHANGED <<kimiOk, job, route>>

Advised(n) ==
  /\ step[n] = "advice"
  /\ CallProvider(n, "kimi", "kimi")
  /\ UNCHANGED <<kimiOk, deepseekOk, job, route>>

(* onDeepSeekDisabled, which writes the provider configuration, is over;   *)
(* if it throws the run rejects without a result.                          *)
Notified(n) ==
  /\ step[n] = "notify"
  /\ \/ CallProvider(n, "kimi", "kimi")
     \/ Return(n, "none", FALSE)
  /\ UNCHANGED <<kimiOk, deepseekOk, job, route>>

-----------------------------------------------------------------------------

(* canFallbackKimiQuotaToDeepSeek.                                         *)
(* Mutant: the requirements of the node are not looked at.                 *)
CanFallbackAnyNode(j) ==
  /\ DeepSeekRunner /\ deepseekOk
  /\ ~KimiOnly(j)

CanFallback(j) ==
  /\ DeepSeekRunner /\ deepseekOk
  /\ ~KimiOnly(j)
  /\ Risk(j) = "read" /\ j.readOnly /\ ~NeedsTools(j)

(* Kimi's answer stands when it succeeds or fails for another reason than  *)
(* its quota, and when DeepSeek was tried before.                          *)
KimiAnswers(n, success) ==
  /\ step[n] = "kimi"
  /\ Return(n, "kimi", success)
  /\ UNCHANGED <<kimiOk, deepseekOk, job, route>>

(* The quota of Kimi is exhausted.  Mutant: a node that came from DeepSeek *)
(* goes back to it.                                                        *)
KimiQuotaAlwaysRecovers(n) ==
  /\ step[n] = "kimi"
  /\ kimiOk' = FALSE
  /\ IF CanFallback(job[n])
     THEN CallProvider(n, "deepseek", "quota")
     ELSE Return(n, "kimi", FALSE)
  /\ UNCHANGED <<deepseekOk, job, route>>

KimiQuota(n) ==
  /\ step[n] = "kimi"
  /\ kimiOk' = FALSE
  /\ IF route[n] # "deepseek-direct" /\ CanFallback(job[n])
     THEN CallProvider(n, "deepseek", "quota")
     ELSE Return(n, "kimi", FALSE)
  /\ UNCHANGED <<deepseekOk, job, route>>

(* The one DeepSeek call for a node Kimi had no quota for.  Its failure    *)
(* does not count against DeepSeek's health.                               *)
QuotaAnswers(n, success) ==
  /\ step[n] = "quota"
  /\ Return(n, "deepseek", success)
  /\ UNCHANGED <<kimiOk, deepseekOk, job, route>>

RunStep(n) ==
  \/ DirectSucceeds(n) \/ DirectRetries(n) \/ BackoffOver(n)
  \/ \E kind \in {"availability", "transient", "other"} : DeepSeekFails(n, kind)
  \/ Advised(n) \/ Notified(n)
  \/ \E success \in BOOLEAN : KimiAnswers(n, success) \/ QuotaAnswers(n, success)
  \/ KimiQuota(n)

ProviderNext == \E n \in Worker : Begin(n) \/ RunStep(n)

ProviderSpec == ProviderInit /\ [][ProviderNext]_providerVars

-----------------------------------------------------------------------------
(* Safety.                                                                 *)

(* DeepSeek does the work of a node, by its route or because Kimi has no   *)
(* quota, only if the node reads, needs no tools, was not reserved for     *)
(* Kimi, and is marked or known as read-only: the two ways to DeepSeek     *)
(* decide that separately, the second one over the head of the router.     *)
ReadOnlyForDeepSeek ==
  \A n \in Worker :
    step[n] \in {"direct", "backoff", "quota"} \/ answer[n].provider = "deepseek" =>
      /\ Risk(job[n]) = "read" /\ ~NeedsTools(job[n]) /\ ~KimiOnly(job[n])
      /\ job[n].readOnly \/ job[n].role = "reviewer"

(* A node changes its provider at most once, leaving advice aside, however *)
(* the failures of the two fall: never back to one it has given up, so     *)
(* that two exhausted providers do not hand a node to and fro.  It calls   *)
(* DeepSeek at most deepseekMaxRetries times more than once, and Kimi once.*)
Work(n) == IF route[n] = "deepseek-pro-advisory" THEN Tail(calls[n]) ELSE calls[n]

OneSwitch ==
  \A n \in Worker : step[n] # "idle" =>
    LET w == Work(n)
        At(provider) == {i \in 1 .. Len(w) : w[i] = provider}
    IN /\ \A i, j, k \in 1 .. Len(w) : i < j /\ j < k /\ w[i] = w[k] => w[j] = w[i]
       /\ \A i, j \in At("deepseek") : j - i <= DeepSeekRetries
       /\ \A i, j \in At("kimi") : i = j

(* The result names the provider that was asked last, so that what the     *)
(* executor records as its author did the work.                            *)
HonestAuthor ==
  \A n \in Worker : answer[n].provider # "none" =>
    answer[n].provider = calls[n][Len(calls[n])]

(* Once DeepSeek is disabled it stays so, and nothing but the retry of a   *)
(* node that was already there is sent to it.                              *)
OnlyRetriesWhenDisabled ==
  [][/\ ~deepseekOk => ~deepseekOk'
     /\ \A n \in Worker :
          ~deepseekOk /\ Len(calls'[n]) > Len(calls[n]) =>
            calls'[n][Len(calls'[n])] = "kimi" \/ step[n] = "backoff"]_providerVars
=============================================================================
