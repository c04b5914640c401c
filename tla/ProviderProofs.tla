--------------------------- MODULE ProviderProofs ---------------------------
(***************************************************************************)
(* Proofs about ProviderRouter, for every node and state of health, and    *)
(* about ProviderRunner, for every number of nodes and retries.            *)
(*                                                                         *)
(* PInv is inductive.  Fits says for each step of a run which calls may    *)
(* lie behind it; the safety properties follow from it.                    *)
(***************************************************************************)
EXTENDS ProviderRunner, TLAPS

-----------------------------------------------------------------------------
(* The router.                                                             *)

ReadOnlyJob(j) ==
  /\ Risk(j) = "read" /\ ~NeedsTools(j) /\ ~KimiOnly(j)
  /\ j.readOnly \/ j.role = "reviewer"

(* routeProvider and the vetoes of its ensemble decide alike on every      *)
(* node, but for the advised coder with a hint to DeepSeek.                *)
THEOREM RouterAgrees ==
  \A j \in Job, available \in BOOLEAN : RoutesAgree(j, available)
BY DEF Job, RoutesAgree, Winner, Vetoed, SafetyReason, KimiOnly, CoreRole, AuthorityRole,
       NeedsTools, Dedicated, DirectAllowed, AdvisoryAllowed, Risk

(* A node goes to DeepSeek only if it reads and needs no tools.            *)
LEMMA DirectIsReadOnly ==
  ASSUME NEW j \in Job, NEW available \in BOOLEAN, Winner(j, available) = "deepseek-direct"
  PROVE  ReadOnlyJob(j) /\ available
BY DEF Job, Winner, ReadOnlyJob, KimiOnly, CoreRole, AuthorityRole, NeedsTools, Dedicated,
       DirectAllowed, AdvisoryAllowed, Risk

(* Without DeepSeek every node is Kimi's.                                  *)
LEMMA UnavailableMeansKimi ==
  ASSUME NEW j \in Job PROVE Winner(j, FALSE) = "safety-gate"
BY DEF Winner

LEMMA WinnerType ==
  ASSUME NEW j \in Job, NEW available \in BOOLEAN
  PROVE  Winner(j, available) \in {"safety-gate", "kimi-authority", "deepseek-direct",
                                   "deepseek-pro-advisory"}
BY DEF Winner

-----------------------------------------------------------------------------
(* The invariant.                                                          *)

Provider == {"kimi", "deepseek"}

Route == {"none", "safety-gate", "kimi-authority", "deepseek-direct", "deepseek-pro-advisory"}

Answer == [provider : {"none", "kimi", "deepseek"}, success : BOOLEAN]

(* A node that went to DeepSeek: DeepSeek's calls, then perhaps Kimi's.    *)
DirectFits(s, c) ==
  /\ s \in {"direct", "backoff", "notify", "kimi", "done"}
  /\ \A i \in 1 .. Len(c) : i < Len(c) => c[i] = "deepseek"
  /\ Len(c) <= DeepSeekRetries + (IF c[Len(c)] = "kimi" THEN 2 ELSE 1)
  /\ s \in {"direct", "backoff", "notify"} => c[Len(c)] = "deepseek"
  /\ s = "backoff" => Len(c) <= DeepSeekRetries
  /\ s = "kimi" => c[Len(c)] = "kimi"

(* Any other: Kimi's call is the first or, after advice, the second, and   *)
(* DeepSeek's may follow it.                                               *)
KimiFits(s, c, first) ==
  /\ s \in {"advice", "notify", "kimi", "quota", "done"}
  /\ s \in {"advice", "notify"} => first = 2 /\ Len(c) = 1
  /\ s = "kimi" => Len(c) = first
  /\ s = "quota" => Len(c) = first + 1
  /\ Len(c) <= first + 1
  /\ Len(c) >= first => c[first] = "kimi"
  /\ Len(c) = first + 1 => c[Len(c)] = "deepseek"

Fits(j, s, r, c, a) ==
  /\ (s = "idle") <=> (r = "none")
  /\ IF s = "idle" THEN c = <<>> ELSE Len(c) >= 1
  /\ s # "done" => a.provider = "none"
  /\ a.provider # "none" => a.provider = c[Len(c)]
  /\ r = "deepseek-direct" => DirectFits(s, c) /\ ReadOnlyJob(j)
  /\ r = "deepseek-pro-advisory" => KimiFits(s, c, 2)
  /\ r \in {"safety-gate", "kimi-authority"} => KimiFits(s, c, 1)
  /\ s = "quota" \/ a.provider = "deepseek" => ReadOnlyJob(j)

PInv ==
  /\ ProviderTypeOK
  /\ \A n \in Worker : Fits(job[n], step[n], route[n], calls[n], answer[n])

(* What Append does, in the form the provers use.                          *)
LEMMA AppendShape ==
  ASSUME NEW c \in Seq(Provider), NEW p \in Provider
  PROVE  /\ Append(c, p) \in Seq(Provider)
         /\ Len(Append(c, p)) = Len(c) + 1 /\ Len(c) \in Nat
         /\ Append(c, p)[Len(c) + 1] = p
         /\ \A i \in 1 .. Len(c) : Append(c, p)[i] = c[i]
OBVIOUS

(* A step of node n that changes only what belongs to n, and fits.         *)
WorkStep(n, s, r, c, a) ==
  /\ s \in Step /\ r \in Route /\ c \in Seq(Provider) /\ a \in Answer
  /\ step' = [step EXCEPT ![n] = s] /\ route' = [route EXCEPT ![n] = r]
  /\ calls' = [calls EXCEPT ![n] = c] /\ answer' = [answer EXCEPT ![n] = a]
  /\ job' = job /\ kimiOk' \in BOOLEAN /\ deepseekOk' \in BOOLEAN
  /\ Fits(job[n], s, r, c, a)

LEMMA OneNode ==
  ASSUME PInv, NEW n \in Worker, NEW s, NEW r, NEW c, NEW a, WorkStep(n, s, r, c, a)
  PROVE  PInv'
<1> USE DEF WorkStep
<1>1. ProviderTypeOK'
  BY DEF PInv, ProviderTypeOK, Provider, Route, Answer
<1>2. ASSUME NEW m \in Worker
      PROVE  Fits(job'[m], step'[m], route'[m], calls'[m], answer'[m])
  <2>0. Fits(job[m], step[m], route[m], calls[m], answer[m])
    BY DEF PInv
  <2>1. CASE m = n
    <3>1. step'[m] = s /\ route'[m] = r /\ calls'[m] = c /\ answer'[m] = a /\ job'[m] = job[n]
      BY <2>1 DEF PInv, ProviderTypeOK
    <3> QED BY <3>1
  <2>2. CASE m # n
    <3>1. /\ step'[m] = step[m] /\ route'[m] = route[m] /\ calls'[m] = calls[m]
          /\ answer'[m] = answer[m] /\ job'[m] = job[m]
      BY <2>2 DEF PInv, ProviderTypeOK
    <3> QED BY <2>0, <3>1
  <2> QED BY <2>1, <2>2
<1> QED BY <1>1, <1>2 DEF PInv

(* The values of one node.                                                 *)
LEMMA NodeTypes ==
  ASSUME PInv, NEW n \in Worker
  PROVE  /\ job[n] \in Job /\ step[n] \in Step /\ calls[n] \in Seq(Provider)
         /\ route[n] \in Route
         /\ answer[n] \in Answer
         /\ Fits(job[n], step[n], route[n], calls[n], answer[n])
         /\ kimiOk \in BOOLEAN /\ deepseekOk \in BOOLEAN
         /\ DeepSeekRetries \in Nat
BY ProviderRunnerAssumption DEF PInv, ProviderTypeOK, Provider, Route, Answer

(* A call of a provider, and a result, as OneNode wants them.              *)
LEMMA CallKeeps ==
  ASSUME PInv, NEW n \in Worker, NEW p \in Provider, NEW s \in Step \ {"idle", "done"}, NEW r,
         r \in {"safety-gate", "kimi-authority", "deepseek-direct", "deepseek-pro-advisory"},
         step[n] # "done", CallProvider(n, p, s), route' = [route EXCEPT ![n] = r],
         job' = job, kimiOk' \in BOOLEAN, deepseekOk' \in BOOLEAN,
         r = "deepseek-direct" =>
           DirectFits(s, Append(calls[n], p)) /\ ReadOnlyJob(job[n]),
         r = "deepseek-pro-advisory" => KimiFits(s, Append(calls[n], p), 2),
         r \in {"safety-gate", "kimi-authority"} => KimiFits(s, Append(calls[n], p), 1),
         s = "quota" => ReadOnlyJob(job[n])
  PROVE  PInv'
<1> DEFINE c == Append(calls[n], p)
           a == answer[n]
<1>1. /\ calls[n] \in Seq(Provider) /\ Fits(job[n], step[n], route[n], calls[n], a)
      /\ a \in Answer
  BY NodeTypes
<1>2. c \in Seq(Provider) /\ Len(c) >= 1
  BY <1>1, AppendShape
<1>3. a.provider = "none"
  BY <1>1 DEF Fits
<1>4. Fits(job[n], s, r, c, a)
  BY <1>2, <1>3 DEF Fits
<1>5. /\ step' = [step EXCEPT ![n] = s] /\ calls' = [calls EXCEPT ![n] = c]
      /\ answer' = [answer EXCEPT ![n] = a]
  BY DEF CallProvider, PInv, ProviderTypeOK
<1> HIDE DEF c, a
<1>6. WorkStep(n, s, r, c, a)
  BY <1>1, <1>2, <1>4, <1>5 DEF WorkStep, Route
<1> QED BY <1>6, OneNode

LEMMA ReturnKeeps ==
  ASSUME PInv, NEW n \in Worker, NEW p \in {"none", "kimi", "deepseek"}, NEW ok \in BOOLEAN,
         step[n] \notin {"idle", "done"}, Return(n, p, ok), route' = route,
         job' = job, kimiOk' \in BOOLEAN, deepseekOk' \in BOOLEAN,
         p # "none" => p = calls[n][Len(calls[n])],
         p = "deepseek" => ReadOnlyJob(job[n]),
         route[n] = "deepseek-direct" => step[n] # "quota"
  PROVE  PInv'
<1> DEFINE c == calls[n]
           r == route[n]
           a == [provider |-> p, success |-> ok]
<1>1. /\ c \in Seq(Provider) /\ Fits(job[n], step[n], r, c, answer[n])
      /\ r \in Route
  BY NodeTypes
<1>2. a \in Answer /\ a.provider = p
  BY DEF Answer
<1>3. /\ step' = [step EXCEPT ![n] = "done"] /\ answer' = [answer EXCEPT ![n] = a]
      /\ calls' = [calls EXCEPT ![n] = c] /\ route' = [route EXCEPT ![n] = r]
  BY DEF Return, PInv, ProviderTypeOK
<1> HIDE DEF a
<1>4. Fits(job[n], "done", r, c, a)
  BY <1>1, <1>2 DEF Fits, DirectFits, KimiFits
<1> HIDE DEF c, r
<1>5. WorkStep(n, "done", r, c, a)
  BY <1>1, <1>2, <1>3, <1>4 DEF WorkStep, Step
<1> QED BY <1>5, OneNode

-----------------------------------------------------------------------------
(* PInv is inductive.                                                      *)

LEMMA InitPInv == ProviderInit => PInv
<1> SUFFICES ASSUME ProviderInit PROVE PInv
  OBVIOUS
<1>1. ProviderTypeOK
  BY DEF ProviderInit, ProviderTypeOK, Step, NoAnswer
<1>2. \A n \in Worker : Fits(job[n], step[n], route[n], calls[n], answer[n])
  BY DEF ProviderInit, Fits, NoAnswer
<1> QED BY <1>1, <1>2 DEF PInv

LEMMA BeginKeeps ==
  ASSUME PInv, NEW n \in Worker, Begin(n) PROVE PInv'
<1> DEFINE available == DeepSeekRunner /\ deepseekOk
           winner == Winner(job[n], available)
<1>1. /\ job[n] \in Job /\ calls[n] \in Seq(Provider) /\ available \in BOOLEAN
      /\ Fits(job[n], step[n], route[n], calls[n], answer[n]) /\ step[n] = "idle"
      /\ kimiOk \in BOOLEAN /\ deepseekOk \in BOOLEAN /\ DeepSeekRetries \in Nat
  BY NodeTypes, ProviderRunnerAssumption DEF Begin
<1>2. winner \in {"safety-gate", "kimi-authority", "deepseek-direct", "deepseek-pro-advisory"}
  BY <1>1, WinnerType
<1>3. winner = "deepseek-direct" => ReadOnlyJob(job[n])
  BY <1>1, DirectIsReadOnly
<1>4. calls[n] = <<>>
  BY <1>1 DEF Fits
<1>5. /\ route' = [route EXCEPT ![n] = winner] /\ job' = job
      /\ kimiOk' \in BOOLEAN /\ deepseekOk' \in BOOLEAN
  BY <1>1 DEF Begin
<1>6. \A p \in Provider :
        LET c == Append(calls[n], p) IN Len(c) = 1 /\ c[1] = p
  BY <1>4 DEF Provider
<1>7. CASE winner = "deepseek-direct"
  <2>1. CallProvider(n, "deepseek", "direct")
    BY <1>7 DEF Begin
  <2>2. DirectFits("direct", Append(calls[n], "deepseek"))
    BY <1>1, <1>6 DEF DirectFits, Provider
  <2> QED BY <1>1, <1>3, <1>5, <1>7, <2>1, <2>2, CallKeeps DEF Provider, Step
<1>8. CASE winner = "deepseek-pro-advisory"
  <2>1. CallProvider(n, "deepseek", "advice")
    BY <1>8 DEF Begin
  <2>2. KimiFits("advice", Append(calls[n], "deepseek"), 2)
    BY <1>6 DEF KimiFits, Provider
  <2> QED BY <1>1, <1>5, <1>8, <2>1, <2>2, CallKeeps DEF Provider, Step
<1>9. CASE winner \in {"safety-gate", "kimi-authority"}
  <2>1. CallProvider(n, "kimi", "kimi")
    BY <1>9 DEF Begin
  <2>2. KimiFits("kimi", Append(calls[n], "kimi"), 1)
    BY <1>6 DEF KimiFits, Provider
  <2> QED BY <1>1, <1>5, <1>9, <2>1, <2>2, CallKeeps DEF Provider, Step
<1> QED BY <1>2, <1>7, <1>8, <1>9

LEMMA ToKimiKeeps ==
  ASSUME PInv, NEW n \in Worker, step[n] \in {"direct", "advice", "notify"},
         CallProvider(n, "kimi", "kimi"), route' = route, job' = job,
         kimiOk' \in BOOLEAN, deepseekOk' \in BOOLEAN
  PROVE  PInv'
<1> DEFINE c == calls[n]
           d == Append(c, "kimi")
<1>1. /\ c \in Seq(Provider) /\ Fits(job[n], step[n], route[n], c, answer[n])
      /\ route[n] \in Route
      /\ DeepSeekRetries \in Nat
  BY NodeTypes
<1>2. /\ Len(d) = Len(c) + 1 /\ Len(c) \in Nat /\ d[Len(c) + 1] = "kimi"
      /\ \A i \in 1 .. Len(c) : d[i] = c[i]
  BY <1>1, AppendShape DEF Provider
<1>3. route' = [route EXCEPT ![n] = route[n]]
  BY DEF PInv, ProviderTypeOK
<1>4. route[n] # "none" /\ Len(c) >= 1
  BY <1>1 DEF Fits
<1> HIDE DEF d
<1>5. route[n] = "deepseek-direct" => DirectFits("kimi", d) /\ ReadOnlyJob(job[n])
  <2> SUFFICES ASSUME route[n] = "deepseek-direct"
               PROVE  DirectFits("kimi", d) /\ ReadOnlyJob(job[n])
    OBVIOUS
  <2>1. DirectFits(step[n], c) /\ ReadOnlyJob(job[n])
    BY <1>1 DEF Fits
  <2>2. c[Len(c)] = "deepseek" /\ Len(c) <= DeepSeekRetries + 1
    BY <2>1 DEF DirectFits
  <2>3. \A i \in 1 .. Len(c) : c[i] = "deepseek"
    BY <1>2, <2>1, <2>2 DEF DirectFits
  <2>4. \A i \in 1 .. Len(d) : i < Len(d) => d[i] = "deepseek"
    BY <1>2, <2>3
  <2> QED BY <1>1, <1>2, <2>1, <2>2, <2>4 DEF DirectFits
<1>6. route[n] = "deepseek-pro-advisory" => KimiFits("kimi", d, 2)
  BY <1>1, <1>2 DEF Fits, KimiFits
<1>7. route[n] \in {"safety-gate", "kimi-authority"} => KimiFits("kimi", d, 1)
  BY <1>1, <1>2 DEF Fits, KimiFits
<1> QED BY <1>1, <1>3, <1>4, <1>5, <1>6, <1>7, CallKeeps
    DEF d, Provider, Step, Route

LEMMA RunStepKeeps ==
  ASSUME PInv, NEW n \in Worker, RunStep(n) PROVE PInv'
<1>0. /\ job[n] \in Job /\ calls[n] \in Seq(Provider) /\ Len(calls[n]) \in Nat
      /\ Fits(job[n], step[n], route[n], calls[n], answer[n])
      /\ route[n] \in Route
      /\ kimiOk \in BOOLEAN /\ deepseekOk \in BOOLEAN /\ DeepSeekRetries \in Nat
      /\ answer[n] \in Answer
  BY NodeTypes
<1>a. route = [route EXCEPT ![n] = route[n]] /\ calls = [calls EXCEPT ![n] = calls[n]]
      /\ answer = [answer EXCEPT ![n] = answer[n]]
  BY DEF PInv, ProviderTypeOK
<1>b. /\ step[n] \in {"direct", "backoff"} => route[n] = "deepseek-direct"
      /\ route[n] = "deepseek-direct" =>
           DirectFits(step[n], calls[n]) /\ ReadOnlyJob(job[n]) /\ step[n] # "quota"
  BY <1>0 DEF Fits, DirectFits, KimiFits, Route
<1>1. CASE DirectSucceeds(n)
  <2>1. /\ Return(n, "deepseek", TRUE) /\ route' = route /\ job' = job /\ step[n] = "direct"
        /\ kimiOk' \in BOOLEAN /\ deepseekOk' \in BOOLEAN
    BY <1>0, <1>1 DEF DirectSucceeds
  <2>2. calls[n][Len(calls[n])] = "deepseek" /\ ReadOnlyJob(job[n])
    BY <1>b, <2>1 DEF DirectFits
  <2> QED BY <2>1, <2>2, ReturnKeeps
<1>2. CASE DirectRetries(n)
  <2>1. /\ step' = [step EXCEPT ![n] = "backoff"] /\ step[n] = "direct"
        /\ Len(calls[n]) <= DeepSeekRetries
        /\ UNCHANGED <<kimiOk, deepseekOk, job, route, calls, answer>>
    BY <1>2 DEF DirectRetries
  <2>2. Fits(job[n], "backoff", route[n], calls[n], answer[n])
    BY <1>0, <1>b, <2>1 DEF Fits, DirectFits
  <2>3. WorkStep(n, "backoff", route[n], calls[n], answer[n])
    BY <1>0, <1>a, <2>1, <2>2 DEF WorkStep, Step
  <2> QED BY <2>3, OneNode
<1>3. CASE BackoffOver(n)
  <2> DEFINE c == calls[n]
             d == Append(c, "deepseek")
  <2>1. /\ CallProvider(n, "deepseek", "direct") /\ route' = route /\ job' = job
        /\ step[n] = "backoff" /\ kimiOk' \in BOOLEAN /\ deepseekOk' \in BOOLEAN
    BY <1>0, <1>3 DEF BackoffOver
  <2>2. /\ Len(d) = Len(c) + 1 /\ d[Len(c) + 1] = "deepseek"
        /\ \A i \in 1 .. Len(c) : d[i] = c[i]
    BY <1>0, AppendShape DEF Provider
  <2> HIDE DEF d
  <2>3. /\ DirectFits("backoff", c) /\ ReadOnlyJob(job[n]) /\ route[n] = "deepseek-direct"
    BY <1>b, <2>1
  <2>4. \A i \in 1 .. Len(d) : d[i] = "deepseek"
    BY <1>0, <2>2, <2>3 DEF DirectFits
  <2>5. DirectFits("direct", d)
    BY <1>0, <2>2, <2>3, <2>4 DEF DirectFits
  <2> QED BY <1>a, <2>1, <2>3, <2>5, CallKeeps DEF d, Provider, Step
<1>4. ASSUME NEW kind, DeepSeekFails(n, kind) PROVE PInv'
  <2>1. /\ route' = route /\ job' = job /\ kimiOk' \in BOOLEAN /\ deepseekOk' \in BOOLEAN
        /\ step[n] \in {"direct", "advice"}
    BY <1>0, <1>4 DEF DeepSeekFails
  <2>2. CASE kind = "availability"
    <3>1. step' = [step EXCEPT ![n] = "notify"] /\ UNCHANGED <<calls, answer>>
      BY <1>4, <2>2 DEF DeepSeekFails
    <3>2. Fits(job[n], "notify", route[n], calls[n], answer[n])
      BY <1>0, <1>b, <2>1 DEF Fits, DirectFits, KimiFits
    <3>3. WorkStep(n, "notify", route[n], calls[n], answer[n])
      BY <1>0, <1>a, <2>1, <3>1, <3>2 DEF WorkStep, Step
    <3> QED BY <3>3, OneNode
  <2>3. CASE kind # "availability"
    <3>1. CallProvider(n, "kimi", "kimi")
      BY <1>4, <2>3 DEF DeepSeekFails
    <3> QED BY <2>1, <3>1, ToKimiKeeps
  <2> QED BY <2>2, <2>3
<1>5. CASE Advised(n)
  BY <1>0, <1>5, ToKimiKeeps DEF Advised
<1>6. CASE Notified(n)
  <2>1. CASE CallProvider(n, "kimi", "kimi")
    BY <1>0, <1>6, <2>1, ToKimiKeeps DEF Notified
  <2>2. CASE Return(n, "none", FALSE)
    <3>1. /\ step[n] = "notify" /\ route' = route /\ job' = job
          /\ kimiOk' \in BOOLEAN /\ deepseekOk' \in BOOLEAN
      BY <1>0, <1>6 DEF Notified
    <3> QED BY <2>2, <3>1, ReturnKeeps
  <2> QED BY <1>6, <2>1, <2>2 DEF Notified
<1>7. ASSUME step[n] = "kimi" PROVE calls[n][Len(calls[n])] = "kimi"
  <2>1. CASE route[n] = "deepseek-direct"
    BY <1>7, <1>b, <2>1 DEF DirectFits
  <2>2. CASE route[n] # "deepseek-direct"
    <3>1. \E first \in 1 .. 2 : KimiFits(step[n], calls[n], first)
      BY <1>0, <1>7, <2>2 DEF Fits, Route
    <3> QED BY <1>7, <3>1 DEF KimiFits
  <2> QED BY <2>1, <2>2
<1>8. ASSUME NEW success \in BOOLEAN, KimiAnswers(n, success) PROVE PInv'
  <2>1. /\ Return(n, "kimi", success) /\ step[n] = "kimi" /\ route' = route /\ job' = job
        /\ kimiOk' \in BOOLEAN /\ deepseekOk' \in BOOLEAN
    BY <1>0, <1>8 DEF KimiAnswers
  <2> QED BY <1>7, <2>1, ReturnKeeps
<1>9. ASSUME NEW success \in BOOLEAN, QuotaAnswers(n, success) PROVE PInv'
  <2>1. /\ Return(n, "deepseek", success) /\ step[n] = "quota" /\ route' = route /\ job' = job
        /\ kimiOk' \in BOOLEAN /\ deepseekOk' \in BOOLEAN
    BY <1>0, <1>9 DEF QuotaAnswers
  <2>2. calls[n][Len(calls[n])] = "deepseek" /\ ReadOnlyJob(job[n]) /\ route[n] # "deepseek-direct"
    <3>1. route[n] # "deepseek-direct" /\ ReadOnlyJob(job[n])
      BY <1>0, <1>b, <2>1 DEF Fits
    <3>2. \E first \in 1 .. 2 : KimiFits(step[n], calls[n], first)
      BY <1>0, <2>1, <3>1 DEF Fits, Route
    <3> QED BY <2>1, <3>1, <3>2 DEF KimiFits
  <2> QED BY <2>1, <2>2, ReturnKeeps
<1>10. CASE KimiQuota(n)
  <2>1. /\ step[n] = "kimi" /\ route' = route /\ job' = job
        /\ kimiOk' \in BOOLEAN /\ deepseekOk' \in BOOLEAN
    BY <1>0, <1>10 DEF KimiQuota
  <2>2. CASE route[n] # "deepseek-direct" /\ CanFallback(job[n])
    <3> DEFINE c == calls[n]
               d == Append(c, "deepseek")
    <3>1. CallProvider(n, "deepseek", "quota")
      BY <1>10, <2>2 DEF KimiQuota
    <3>2. /\ Len(d) = Len(c) + 1 /\ d[Len(c) + 1] = "deepseek"
          /\ \A i \in 1 .. Len(c) : d[i] = c[i]
      BY <1>0, AppendShape DEF Provider
    <3> HIDE DEF d
    <3>3. ReadOnlyJob(job[n])
      BY <2>2 DEF CanFallback, ReadOnlyJob
    <3>4. route[n] # "none"
      BY <1>0, <2>1 DEF Fits
    <3>a. ASSUME NEW first \in 1 .. 2, KimiFits("kimi", c, first) PROVE KimiFits("quota", d, first)
      <4>1. Len(c) = first /\ c[first] = "kimi" /\ Len(d) = first + 1
        BY <1>0, <3>2, <3>a DEF KimiFits
      <4>2. d[first] = "kimi" /\ d[Len(d)] = "deepseek"
        BY <3>2, <4>1
      <4> QED BY <4>1, <4>2 DEF KimiFits
    <3>5. route[n] = "deepseek-pro-advisory" => KimiFits("quota", d, 2)
      BY <1>0, <2>1, <3>a DEF Fits
    <3>6. route[n] \in {"safety-gate", "kimi-authority"} => KimiFits("quota", d, 1)
      BY <1>0, <2>1, <3>a DEF Fits
    <3> QED BY <1>0, <1>a, <2>1, <2>2, <3>1, <3>3, <3>4, <3>5, <3>6, CallKeeps
            DEF d, Provider, Step, Route
  <2>3. CASE ~(route[n] # "deepseek-direct" /\ CanFallback(job[n]))
    <3>1. Return(n, "kimi", FALSE)
      BY <1>10, <2>3 DEF KimiQuota
    <3> QED BY <1>7, <2>1, <3>1, ReturnKeeps
  <2> QED BY <2>2, <2>3
<1> QED BY <1>1, <1>2, <1>3, <1>4, <1>5, <1>6, <1>8, <1>9, <1>10 DEF RunStep

LEMMA NextPInv == PInv /\ [ProviderNext]_providerVars => PInv'
<1> SUFFICES ASSUME PInv, [ProviderNext]_providerVars PROVE PInv'
  OBVIOUS
<1>1. ASSUME NEW n \in Worker, Begin(n) \/ RunStep(n) PROVE PInv'
  BY <1>1, BeginKeeps, RunStepKeeps
<1>2. CASE UNCHANGED providerVars
  BY <1>2 DEF providerVars, PInv, ProviderTypeOK
<1> QED BY <1>1, <1>2 DEF ProviderNext

(* Which calls may lie behind each step of each node.                      *)
THEOREM ProviderInvariance == ProviderSpec => []PInv
BY InitPInv, NextPInv, PTL DEF ProviderSpec

-----------------------------------------------------------------------------
(* What follows.                                                           *)

(* DeepSeek does no work that writes, needs tools or was kept for Kimi.    *)
THEOREM DeepSeekOnlyReads == ProviderSpec => []ReadOnlyForDeepSeek
<1>1. PInv => ReadOnlyForDeepSeek
  <2> SUFFICES ASSUME PInv, NEW n \in Worker,
                      step[n] \in {"direct", "backoff", "quota"} \/ answer[n].provider = "deepseek"
               PROVE  ReadOnlyJob(job[n])
    BY DEF ReadOnlyForDeepSeek, ReadOnlyJob
  <2>1. Fits(job[n], step[n], route[n], calls[n], answer[n]) /\
        route[n] \in Route
    BY NodeTypes
  <2> QED BY <2>1 DEF Fits, KimiFits, Route
<1> QED BY <1>1, ProviderInvariance, PTL

(* The provider named in a result is the one that was asked last.          *)
THEOREM AuthorIsHonest == ProviderSpec => []HonestAuthor
<1>1. PInv => HonestAuthor
  <2> SUFFICES ASSUME PInv, NEW n \in Worker, answer[n].provider # "none"
               PROVE  answer[n].provider = calls[n][Len(calls[n])]
    BY DEF HonestAuthor
  <2> QED BY NodeTypes DEF Fits
<1> QED BY <1>1, ProviderInvariance, PTL

(* The two shapes of the calls behind a node's work.                       *)
KimiFirst(w) ==
  /\ Len(w) <= 2
  /\ Len(w) >= 1 => w[1] = "kimi"
  /\ Len(w) = 2 => w[2] = "deepseek"

LEMMA KimiIsFirst ==
  ASSUME NEW c \in Seq(Provider), NEW s, KimiFits(s, c, 1) PROVE KimiFirst(c)
<1>1. /\ Len(c) <= 1 + 1 /\ Len(c) \in Nat
      /\ Len(c) >= 1 => c[1] = "kimi"
      /\ Len(c) = 1 + 1 => c[Len(c)] = "deepseek"
  BY DEF KimiFits
<1> QED BY <1>1 DEF KimiFirst

LEMMA KimiAfterAdvice ==
  ASSUME NEW c \in Seq(Provider), NEW s, KimiFits(s, c, 2), c # <<>> PROVE KimiFirst(Tail(c))
<1> DEFINE w == Tail(c)
<1>1. /\ Len(c) <= 2 + 1 /\ Len(c) \in Nat
      /\ Len(c) >= 2 => c[2] = "kimi"
      /\ Len(c) = 2 + 1 => c[Len(c)] = "deepseek"
  BY DEF KimiFits
<1>2. /\ Len(w) = Len(c) - 1
      /\ \A i \in 1 .. Len(w) : w[i] = c[i + 1]
  OBVIOUS
<1> HIDE DEF w
<1>3. Len(w) >= 1 => w[1] = c[1 + 1]
  BY <1>1, <1>2
<1>4. Len(w) = 2 => w[2] = c[2 + 1]
  <2> SUFFICES ASSUME Len(w) = 2 PROVE w[2] = c[2 + 1]
    OBVIOUS
  <2>1. 2 \in 1 .. Len(w)
    OBVIOUS
  <2> QED BY <1>2, <2>1
<1>5. KimiFirst(w)
  BY <1>1, <1>2, <1>3, <1>4 DEF KimiFirst
<1> QED BY <1>5 DEF w

SwitchesOnce(w) ==
  /\ \A i, j, k \in 1 .. Len(w) : i < j /\ j < k /\ w[i] = w[k] => w[j] = w[i]
  /\ \A i, j \in {i \in 1 .. Len(w) : w[i] = "deepseek"} : j - i <= DeepSeekRetries
  /\ \A i, j \in {i \in 1 .. Len(w) : w[i] = "kimi"} : i = j

LEMMA KimiFirstSwitches ==
  ASSUME NEW w, Len(w) \in Nat, KimiFirst(w) PROVE SwitchesOnce(w)
<1> DEFINE len == Len(w)
<1>0. len \in Nat /\ len <= 2
  BY DEF KimiFirst
<1> HIDE DEF len
<1>1. \A i \in 1 .. Len(w) : i = 1 \/ (i = 2 /\ Len(w) = 2)
  <2>1. \A i \in 1 .. len : i = 1 \/ (i = 2 /\ len = 2)
    BY <1>0
  <2> QED BY <2>1 DEF len
<1>2. \A i \in 1 .. Len(w) : w[i] = IF i = 1 THEN "kimi" ELSE "deepseek"
  BY <1>1 DEF KimiFirst
<1> QED BY <1>1, <1>2, ProviderRunnerAssumption DEF SwitchesOnce

LEMMA DirectSwitches ==
  ASSUME NEW c, Len(c) \in Nat, NEW s, DirectFits(s, c) PROVE SwitchesOnce(c)
<1>1. \A i \in 1 .. Len(c) : i < Len(c) => c[i] = "deepseek"
  BY DEF DirectFits
<1>2. Len(c) <= DeepSeekRetries + (IF c[Len(c)] = "kimi" THEN 2 ELSE 1)
  BY DEF DirectFits
<1>3. DeepSeekRetries \in Nat
  BY ProviderRunnerAssumption
<1> QED BY <1>1, <1>2, <1>3 DEF SwitchesOnce

(* No node is handed to and fro between two exhausted providers.           *)
THEOREM NodesSwitchOnce == ProviderSpec => []OneSwitch
<1>1. ASSUME PInv, NEW n \in Worker, step[n] # "idle" PROVE SwitchesOnce(Work(n))
  <2>0. /\ Fits(job[n], step[n], route[n], calls[n], answer[n])
        /\ calls[n] \in Seq(Provider) /\ route[n] \in Route
    BY <1>1, NodeTypes
  <2>1. calls[n] # <<>> /\ Len(calls[n]) \in Nat /\ route[n] # "none"
    BY <1>1, <2>0 DEF Fits
  <2>2. CASE route[n] = "deepseek-direct"
    BY <2>0, <2>1, <2>2, DirectSwitches DEF Fits, Work
  <2>3. CASE route[n] = "deepseek-pro-advisory"
    <3>1. Work(n) = Tail(calls[n]) /\ KimiFirst(Work(n))
      BY <2>0, <2>1, <2>3, KimiAfterAdvice DEF Fits, Work
    <3>2. Len(Work(n)) \in Nat
      BY <2>0, <2>1, <3>1
    <3> QED BY <3>1, <3>2, KimiFirstSwitches
  <2>4. CASE route[n] \in {"safety-gate", "kimi-authority"}
    <3>1. Work(n) = calls[n] /\ KimiFirst(Work(n))
      BY <2>0, <2>4, KimiIsFirst DEF Fits, Work
    <3> QED BY <2>1, <3>1, KimiFirstSwitches
  <2> QED BY <2>0, <2>1, <2>2, <2>3, <2>4 DEF Route
<1>2. PInv => OneSwitch
  BY <1>1 DEF OneSwitch, SwitchesOnce
<1> QED BY <1>2, ProviderInvariance, PTL

(* After DeepSeek was disabled only a retry that was waiting calls it.     *)
THEOREM DisabledStaysDisabled == ProviderSpec => OnlyRetriesWhenDisabled
<1> DEFINE Sent(n) == ~deepseekOk /\ Len(calls'[n]) > Len(calls[n]) =>
                        calls'[n][Len(calls'[n])] = "kimi" \/ step[n] = "backoff"
<1>1. ASSUME PInv, [ProviderNext]_providerVars
      PROVE  (~deepseekOk => ~deepseekOk') /\ \A n \in Worker : Sent(n)
  <2>0. deepseekOk \in BOOLEAN /\ calls \in [Worker -> Seq(Provider)] /\ job \in [Worker -> Job]
    BY <1>1, ProviderRunnerAssumption DEF PInv, ProviderTypeOK, Provider
  <2>1. ~deepseekOk => ~deepseekOk'
    BY <1>1, <2>0 DEF ProviderNext, Begin, RunStep, DirectSucceeds, DirectRetries, BackoffOver,
                      DeepSeekFails, Advised, Notified, KimiAnswers, KimiQuota, QuotaAnswers,
                      providerVars
  <2>2. ASSUME ~deepseekOk PROVE \A n \in Worker : Sent(n)
    <3>1. ASSUME UNCHANGED calls PROVE \A n \in Worker : Sent(n)
      BY <3>1, <2>0
    <3>2. ASSUME NEW m \in Worker, NEW p \in Provider, NEW s, CallProvider(m, p, s),
                 p = "kimi" \/ step[m] = "backoff"
          PROVE  \A n \in Worker : Sent(n)
      <4> SUFFICES ASSUME NEW n \in Worker PROVE Sent(n)
        OBVIOUS
      <4>1. CASE n = m
        <5>1. calls'[n] = Append(calls[n], p)
          BY <2>0, <3>2, <4>1 DEF CallProvider
        <5> QED BY <2>0, <3>2, <4>1, <5>1, AppendShape
      <4>2. CASE n # m
        <5>1. calls'[n] = calls[n]
          BY <2>0, <3>2, <4>2 DEF CallProvider
        <5> QED BY <2>0, <5>1
      <4> QED BY <4>1, <4>2
    <3>3. ASSUME NEW m \in Worker, Begin(m) PROVE \A n \in Worker : Sent(n)
      <4>1. Winner(job[m], DeepSeekRunner /\ deepseekOk) = "safety-gate"
        BY <2>0, <2>2, UnavailableMeansKimi
      <4>2. CallProvider(m, "kimi", "kimi")
        BY <3>3, <4>1 DEF Begin
      <4> QED BY <3>2, <4>2 DEF Provider
    <3>4. ASSUME NEW m \in Worker, RunStep(m) PROVE \A n \in Worker : Sent(n)
      <4>1. \/ UNCHANGED calls
            \/ CallProvider(m, "kimi", "kimi")
            \/ CallProvider(m, "deepseek", "direct") /\ step[m] = "backoff"
        BY <2>2, <3>4 DEF RunStep, DirectSucceeds, DirectRetries, BackoffOver, DeepSeekFails,
                          Advised, Notified, KimiAnswers, KimiQuota, QuotaAnswers, Return,
                          CanFallback
      <4> QED BY <3>1, <3>2, <4>1 DEF Provider
    <3>5. CASE UNCHANGED providerVars
      BY <3>1, <3>5 DEF providerVars
    <3> QED BY <1>1, <3>3, <3>4, <3>5 DEF ProviderNext
  <2>3. CASE deepseekOk
    BY <2>3
  <2> QED BY <2>1, <2>2, <2>3
<1> QED BY <1>1, ProviderInvariance, PTL DEF ProviderSpec, OnlyRetriesWhenDisabled
=============================================================================
