-------------------------- MODULE WireClientProofs --------------------------
(***************************************************************************)
(* Proofs about WireClient, for every limit on the pending calls and every *)
(* number of calls and processes: WireInv is inductive, and the client     *)
(* implements CallContract.                                                *)
(***************************************************************************)
EXTENDS WireClient, TLAPS, FiniteSetTheorems

(* The map is finite, and shrinking it keeps its limit.                    *)
LEMMA FewerPending ==
  ASSUME WireInv, NEW S \in SUBSET pending
  PROVE  Cardinality(S) <= MaxPendingRpcs
<1>1. IsFiniteSet(Id)
  BY FS_Interval, WireClientAssumption DEF Id
<1>2. pending \in SUBSET Id
  BY DEF WireInv, WireTypeOK
<1>3. IsFiniteSet(pending)
  BY <1>1, <1>2, FS_Subset
<1>4. Cardinality(S) <= Cardinality(pending) /\ IsFiniteSet(S)
  BY <1>3, FS_Subset
<1>5. Cardinality(S) \in Nat /\ Cardinality(pending) \in Nat
  BY <1>3, <1>4, FS_CardinalityType
<1> QED BY <1>4, <1>5, WireClientAssumption DEF WireInv

(* A call added below the limit keeps it.                                  *)
LEMMA OneMorePending ==
  ASSUME WireInv, NEW i \in Id, Cardinality(pending) < MaxPendingRpcs
  PROVE  Cardinality(pending \cup {i}) <= MaxPendingRpcs
<1>1. IsFiniteSet(Id)
  BY FS_Interval, WireClientAssumption DEF Id
<1>2. pending \in SUBSET Id
  BY DEF WireInv, WireTypeOK
<1>3. IsFiniteSet(pending)
  BY <1>1, <1>2, FS_Subset
<1>4. Cardinality(pending) \in Nat
  BY <1>3, FS_CardinalityType
<1>5. Cardinality(pending \cup {i}) <= Cardinality(pending) + 1
  BY <1>3, <1>4, FS_AddElement
<1>6. Cardinality(pending \cup {i}) \in Nat
  BY <1>3, FS_AddElement, FS_CardinalityType
<1> QED BY <1>4, <1>5, <1>6, WireClientAssumption

-----------------------------------------------------------------------------
(* WireInv is inductive.                                                   *)

LEMMA InitWireInv == WireInit => WireInv
<1> SUFFICES ASSUME WireInit PROVE WireInv
  OBVIOUS
<1>1. WireTypeOK /\ IdsInOrder /\ ProcessRead /\ CallsTracked /\ NoCallLeftBehind
  BY WireClientAssumption
     DEF WireInit, WireTypeOK, IdsInOrder, ProcessRead, CallsTracked, NoCallLeftBehind, Id, Kimi
<1>2. Cardinality(pending) <= MaxPendingRpcs
  BY FS_EmptySet, WireClientAssumption DEF WireInit
<1> QED BY <1>1, <1>2 DEF WireInv

(* What Send does to the calls.                                            *)
LEMMA SendKeepsCalls ==
  ASSUME WireInv, NEW k \in Kimi, NEW stdinOpen \in BOOLEAN, Send(k, stdinOpen)
  PROVE  /\ CallsTracked' /\ Cardinality(pending') <= MaxPendingRpcs
         /\ requestId' \in 0 .. MaxCalls
         /\ call' \in [Id -> {"new", "open", "answered", "failed"}]
         /\ sentTo' \in [Id -> 0 .. MaxKimis]
         /\ pending' \subseteq Id /\ timers' \subseteq Id
         /\ \A i \in Id : (call'[i] = "new") <=> (i > requestId')
         /\ \A i \in pending' : IF i = requestId' THEN stdinOpen /\ sentTo'[i] = k
                                ELSE i \in pending /\ sentTo'[i] = sentTo[i]
<1> DEFINE i == requestId + 1
<1>1. /\ i \in Id /\ Cardinality(pending) < MaxPendingRpcs
      /\ requestId' = i
      /\ call' = [call EXCEPT ![i] = IF stdinOpen THEN "open" ELSE "failed"]
      /\ sentTo' = [sentTo EXCEPT ![i] = k]
      /\ pending' = IF stdinOpen THEN pending \cup {i} ELSE pending
      /\ timers' = IF stdinOpen THEN timers \cup {i} ELSE timers
  BY DEF Send
<1>2. /\ WireTypeOK /\ IdsInOrder /\ CallsTracked
      /\ requestId \in Nat /\ Cardinality(pending) <= MaxPendingRpcs
  BY WireClientAssumption DEF WireInv, WireTypeOK
<1>3. call[i] = "new" /\ i \notin pending
  BY <1>1, <1>2 DEF IdsInOrder, CallsTracked
<1>4. \A j \in Id : call'[j] = IF j = i THEN IF stdinOpen THEN "open" ELSE "failed" ELSE call[j]
  BY <1>1, <1>2 DEF WireTypeOK
<1>5. CallsTracked'
  BY <1>1, <1>2, <1>3, <1>4 DEF CallsTracked
<1>6. Cardinality(pending') <= MaxPendingRpcs
  BY <1>1, <1>2, OneMorePending
<1>7. \A j \in Id : (call'[j] = "new") <=> (j > requestId')
  BY <1>1, <1>2, <1>4 DEF IdsInOrder, Id
<1>8. \A j \in Id : sentTo'[j] = IF j = i THEN k ELSE sentTo[j]
  BY <1>1, <1>2 DEF WireTypeOK
<1>9. \A j \in pending' : IF j = requestId' THEN stdinOpen /\ sentTo'[j] = k
                          ELSE j \in pending /\ sentTo'[j] = sentTo[j]
  BY <1>1, <1>2, <1>3, <1>8 DEF WireTypeOK
<1>10. /\ requestId' \in 0 .. MaxCalls
       /\ call' \in [Id -> {"new", "open", "answered", "failed"}]
       /\ sentTo' \in [Id -> 0 .. MaxKimis]
       /\ pending' \subseteq Id /\ timers' \subseteq Id
  BY <1>1, <1>2 DEF WireTypeOK, Id, Kimi
<1> QED BY <1>5, <1>6, <1>7, <1>9, <1>10

LEMMA StartKeeps == WireInv /\ Start => WireInv'
<1> SUFFICES ASSUME WireInv, Start PROVE WireInv'
  OBVIOUS
<1>1. /\ WireTypeOK /\ IdsInOrder /\ NoCallLeftBehind
      /\ spawned \in Nat /\ MaxKimis \in Nat
  BY WireClientAssumption DEF WireInv, WireTypeOK
<1>2. /\ spawned' = spawned + 1 /\ spawned' \in Kimi
      /\ proc' = spawned' /\ rl' = spawned'
      /\ kimi' = [kimi EXCEPT ![spawned'] = "running"]
      /\ proc # 0 => kimi[proc] = "reaped"
  <2>1. spawned < MaxKimis /\ spawned' = spawned + 1
    BY DEF Start
  <2>2. spawned' \in Kimi
    BY <1>1, <2>1 DEF Kimi
  <2>3. /\ proc' = spawned' /\ rl' = spawned'
        /\ kimi' = [kimi EXCEPT ![spawned'] = "running"]
        /\ proc # 0 => kimi[proc] = "reaped"
    BY Zenon DEF Start
  <2> QED BY <2>1, <2>2, <2>3
<1>3. pending = {}
  BY <1>1, <1>2 DEF NoCallLeftBehind
<1> DEFINE k == spawned'
<1> HIDE DEF k
<1>4. /\ CallsTracked' /\ Cardinality(pending') <= MaxPendingRpcs
      /\ requestId' \in 0 .. MaxCalls
      /\ call' \in [Id -> {"new", "open", "answered", "failed"}]
      /\ sentTo' \in [Id -> 0 .. MaxKimis]
      /\ pending' \subseteq Id /\ timers' \subseteq Id
      /\ \A i \in Id : (call'[i] = "new") <=> (i > requestId')
      /\ \A i \in pending' : IF i = requestId' THEN sentTo'[i] = k
                             ELSE i \in pending /\ sentTo'[i] = sentTo[i]
  <2>1. k \in Kimi /\ Send(k, TRUE)
    BY Zenon, <1>2 DEF k, Start
  <2> QED BY <2>1, SendKeepsCalls
<1>5. \A j \in Kimi : kimi'[j] = IF j = k THEN "running" ELSE kimi[j]
  BY <1>1, <1>2 DEF WireTypeOK, k
<1>6. k \in Kimi /\ k = spawned + 1 /\ proc' = k /\ rl' = k /\ spawned' = k
  BY <1>2 DEF k
<1>7. WireTypeOK'
  BY <1>1, <1>2, <1>4, <1>6 DEF WireTypeOK, Kimi
<1>8. \A j \in Kimi : kimi[j] \in {"running", "exited"} => FALSE
  <2> SUFFICES ASSUME NEW j \in Kimi, kimi[j] \in {"running", "exited"} PROVE FALSE
    OBVIOUS
  <2>1. j = proc /\ proc # 0
    BY <1>1 DEF IdsInOrder, Kimi
  <2> QED BY <1>2, <2>1
<1>9. IdsInOrder'
  BY <1>1, <1>4, <1>5, <1>6, <1>8 DEF IdsInOrder, Kimi
<1>10. ProcessRead' /\ NoCallLeftBehind'
  BY <1>3, <1>4, <1>5, <1>6 DEF ProcessRead, NoCallLeftBehind, Kimi
<1> QED BY <1>4, <1>7, <1>9, <1>10 DEF WireInv

LEMMA CallKimiKeeps == WireInv /\ CallKimi => WireInv'
<1> SUFFICES ASSUME WireInv, CallKimi PROVE WireInv'
  OBVIOUS
<1> DEFINE open == kimi[proc] # "reaped"
<1>1. /\ WireTypeOK /\ IdsInOrder /\ NoCallLeftBehind /\ ProcessRead
      /\ proc \in Kimi /\ Send(proc, open) /\ open \in BOOLEAN
      /\ UNCHANGED <<spawned, proc, rl, kimi>>
  BY DEF WireInv, WireTypeOK, CallKimi, Kimi
<1>2. open => kimi[proc] \in {"running", "exited"} /\ rl = proc /\ proc # 0
  BY <1>1 DEF ProcessRead, Kimi
<1> HIDE DEF open
<1>3. /\ CallsTracked' /\ Cardinality(pending') <= MaxPendingRpcs
      /\ requestId' \in 0 .. MaxCalls
      /\ call' \in [Id -> {"new", "open", "answered", "failed"}]
      /\ sentTo' \in [Id -> 0 .. MaxKimis]
      /\ pending' \subseteq Id /\ timers' \subseteq Id
      /\ \A i \in Id : (call'[i] = "new") <=> (i > requestId')
      /\ \A i \in pending' : IF i = requestId' THEN open /\ sentTo'[i] = proc
                             ELSE i \in pending /\ sentTo'[i] = sentTo[i]
  BY <1>1, SendKeepsCalls
<1>4. WireTypeOK' /\ IdsInOrder' /\ ProcessRead'
  BY <1>1, <1>3 DEF WireTypeOK, IdsInOrder, ProcessRead
<1>5. NoCallLeftBehind'
  BY <1>1, <1>2, <1>3 DEF NoCallLeftBehind
<1> QED BY <1>3, <1>4, <1>5 DEF WireInv

(* A response or a time limit takes one call out of the map.               *)
LEMMA SettleKeeps ==
  ASSUME WireInv, NEW i \in pending, NEW how \in {"answered", "failed"},
         call' = [call EXCEPT ![i] = how],
         pending' = pending \ {i}, timers' = timers \ {i},
         UNCHANGED <<requestId, sentTo, spawned, proc, rl, kimi>>
  PROVE  WireInv'
<1>1. /\ WireTypeOK /\ IdsInOrder /\ NoCallLeftBehind /\ ProcessRead /\ CallsTracked
      /\ i \in Id /\ call[i] = "open"
  BY DEF WireInv, CallsTracked
<1>2. \A j \in Id : call'[j] = IF j = i THEN how ELSE call[j]
  BY <1>1 DEF WireTypeOK
<1>3. WireTypeOK' /\ IdsInOrder' /\ ProcessRead' /\ NoCallLeftBehind'
  BY <1>1, <1>2 DEF WireTypeOK, IdsInOrder, ProcessRead, NoCallLeftBehind
<1>4. CallsTracked'
  BY <1>1, <1>2 DEF CallsTracked
<1>5. Cardinality(pending') <= MaxPendingRpcs
  <2>1. pending \ {i} \in SUBSET pending
    OBVIOUS
  <2>2. Cardinality(pending \ {i}) <= MaxPendingRpcs
    BY <2>1, FewerPending
  <2> QED BY <2>2
<1> QED BY <1>3, <1>4, <1>5 DEF WireInv

(* An exit that is handled, or a stop, rejects all that is pending.        *)
LEMMA RejectAll ==
  ASSUME WireInv, call' = Rejected(pending), pending' = {}, timers' = timers \ pending,
         UNCHANGED <<requestId, sentTo>>
  PROVE  /\ call' \in [Id -> {"new", "open", "answered", "failed"}]
         /\ CallsTracked' /\ NoCallLeftBehind' /\ Cardinality(pending') <= MaxPendingRpcs
         /\ \A i \in Id : call'[i] = IF i \in pending THEN "failed" ELSE call[i]
         /\ \A i \in Id : (call'[i] = "new") <=> (i > requestId')
<1>1. /\ WireTypeOK /\ IdsInOrder /\ CallsTracked
  BY DEF WireInv
<1>2. \A i \in Id : call'[i] = IF i \in pending THEN "failed" ELSE call[i]
  BY <1>1 DEF Rejected, CallsTracked
<1>3. call' \in [Id -> {"new", "open", "answered", "failed"}]
  BY <1>1 DEF Rejected, WireTypeOK
<1>4. CallsTracked'
  BY <1>1, <1>2 DEF CallsTracked
<1>5. NoCallLeftBehind'
  BY DEF NoCallLeftBehind
<1>6. Cardinality(pending') <= MaxPendingRpcs
  BY FS_EmptySet, WireClientAssumption
<1>7. \A i \in Id : (call'[i] = "new") <=> (i > requestId')
  BY <1>1, <1>2 DEF IdsInOrder, CallsTracked
<1> QED BY <1>2, <1>3, <1>4, <1>5, <1>6, <1>7

LEMMA NextWireInv == WireInv /\ [WireNext]_wireVars => WireInv'
<1> SUFFICES ASSUME WireInv, [WireNext]_wireVars PROVE WireInv'
  OBVIOUS
<1>0. /\ WireTypeOK /\ IdsInOrder /\ NoCallLeftBehind /\ ProcessRead /\ CallsTracked
      /\ Cardinality(pending) <= MaxPendingRpcs
  BY DEF WireInv
<1>1. CASE Start
  BY <1>1, StartKeeps
<1>2. CASE CallKimi
  BY <1>2, CallKimiKeeps
<1>3. ASSUME NEW i \in Id, Response(i) PROVE WireInv'
  BY <1>3, SettleKeeps DEF Response
<1>4. ASSUME NEW i \in Id, TimeLimit(i) PROVE WireInv'
  <2>1. i \in pending /\ call[i] = "open"
    BY <1>0, <1>4 DEF TimeLimit, CallsTracked
  <2>2. call' = [call EXCEPT ![i] = "failed"]
    BY <1>0, <1>4, <2>1 DEF TimeLimit, Rejected, WireTypeOK
  <2> QED BY <1>4, <2>1, <2>2, SettleKeeps DEF TimeLimit
<1>5. ASSUME NEW k \in Kimi, KimiEnds(k) PROVE WireInv'
  <2>1. \A j \in Kimi : kimi'[j] = IF j = k THEN "exited" ELSE kimi[j]
    BY <1>0, <1>5 DEF KimiEnds, WireTypeOK
  <2>2. WireTypeOK' /\ IdsInOrder' /\ CallsTracked'
    BY <1>0, <1>5, <2>1 DEF KimiEnds, WireTypeOK, IdsInOrder, CallsTracked
  <2>3. ProcessRead' /\ NoCallLeftBehind'
    BY <1>0, <1>5, <2>1 DEF KimiEnds, ProcessRead, NoCallLeftBehind, WireTypeOK, Kimi
  <2> QED BY <1>0, <1>5, <2>2, <2>3 DEF WireInv, KimiEnds
<1>6. ASSUME NEW k \in Kimi, ExitHandler(k) PROVE WireInv'
  <2>1. /\ call' \in [Id -> {"new", "open", "answered", "failed"}]
        /\ CallsTracked' /\ NoCallLeftBehind' /\ Cardinality(pending') <= MaxPendingRpcs
        /\ \A i \in Id : (call'[i] = "new") <=> (i > requestId')
    BY <1>6, RejectAll DEF ExitHandler
  <2>2. \A j \in Kimi : kimi'[j] = IF j = k THEN "reaped" ELSE kimi[j]
    BY <1>0, <1>6 DEF ExitHandler, WireTypeOK
  <2>3. k = proc
    BY <1>0, <1>6 DEF ExitHandler, IdsInOrder
  <2>4. WireTypeOK'
    BY <1>0, <1>6, <2>1, WireClientAssumption DEF ExitHandler, WireTypeOK
  <2>6. IdsInOrder'
    BY <1>0, <1>6, <2>1, <2>2 DEF ExitHandler, IdsInOrder
  <2>5. ProcessRead'
    BY <1>6, <2>2, <2>3 DEF ExitHandler, ProcessRead
  <2> QED BY <2>1, <2>4, <2>5, <2>6 DEF WireInv
<1>7. CASE Stop
  <2>1. /\ call' \in [Id -> {"new", "open", "answered", "failed"}]
        /\ CallsTracked' /\ NoCallLeftBehind' /\ Cardinality(pending') <= MaxPendingRpcs
        /\ \A i \in Id : (call'[i] = "new") <=> (i > requestId')
    BY <1>7, RejectAll DEF Stop
  <2>2. \A j \in Kimi : kimi'[j] = IF j = proc THEN "detached" ELSE kimi[j]
    BY <1>0, <1>7 DEF Stop, WireTypeOK
  <2>3. proc \in Kimi /\ proc <= spawned
    BY <1>0, <1>7 DEF Stop, WireTypeOK, Kimi, IdsInOrder
  <2>4. WireTypeOK'
    <3>1. kimi' \in [Kimi -> {"none", "running", "exited", "reaped", "detached"}]
      BY <1>0, <1>7 DEF Stop, WireTypeOK
    <3>2. /\ pending' \subseteq Id /\ timers' \subseteq Id /\ proc' = 0 /\ rl' = 0
          /\ UNCHANGED <<requestId, sentTo, spawned>>
      BY <1>0, <1>7 DEF Stop, WireTypeOK
    <3> QED BY <1>0, <2>1, <3>1, <3>2, WireClientAssumption DEF WireTypeOK
  <2>5. IdsInOrder' /\ ProcessRead'
    BY <1>0, <1>7, <2>1, <2>2, <2>3, WireClientAssumption
       DEF Stop, IdsInOrder, ProcessRead, Kimi, WireTypeOK
  <2> QED BY <2>1, <2>4, <2>5 DEF WireInv
<1>8. CASE UNCHANGED wireVars
  BY <1>0, <1>8 DEF wireVars, WireInv, WireTypeOK, IdsInOrder, ProcessRead, CallsTracked,
                    NoCallLeftBehind
<1> QED BY <1>1, <1>2, <1>3, <1>4, <1>5, <1>6, <1>7, <1>8 DEF WireNext

(* Through every race of responses, time limits, exits and stops the map,  *)
(* the timers and the open promises are the same calls, and none of them   *)
(* waits for a process that is not read any more.                          *)
THEOREM WireInvariance == WireSpec => []WireInv
BY InitWireInv, NextWireInv, PTL DEF WireSpec

-----------------------------------------------------------------------------
(* The client implements CallContract.                                     *)

(* The contract counts calls as the client does.                           *)
LEMMA SameCardinality ==
  \A S : WireCalls!Cardinality(S) = Cardinality(S)
BY DEF Cardinality, WireCalls!Cardinality, IsFiniteSet, WireCalls!IsFiniteSet

LEMMA CallStep ==
  WireInv /\ [WireNext]_wireVars => [WireCalls!Next]_call
<1> SUFFICES ASSUME WireInv, [WireNext]_wireVars PROVE [WireCalls!Next]_call
  OBVIOUS
<1>0. /\ WireTypeOK /\ IdsInOrder /\ CallsTracked /\ WireCalls!Opened = pending
      /\ pending \subseteq Id
  BY DEF WireInv, WireCalls!Opened, CallsTracked, WireTypeOK
<1>1. ASSUME NEW k, NEW stdinOpen \in BOOLEAN, Send(k, stdinOpen) PROVE WireCalls!Next
  <2> DEFINE i == requestId + 1
  <2>1. i \in Id /\ call[i] = "new"
    BY <1>0, <1>1, WireClientAssumption DEF Send, IdsInOrder, WireTypeOK
  <2>2. CASE stdinOpen
    <3>1. call' = [call EXCEPT ![i] = "open"] /\ Cardinality(pending) < MaxPendingRpcs
      BY <1>1, <2>2 DEF Send
    <3>2. WireCalls!Open(i)
      BY <1>0, <2>1, <3>1, SameCardinality DEF WireCalls!Open
    <3> QED BY <2>1, <3>2 DEF WireCalls!Next
  <2>3. CASE ~stdinOpen
    <3>1. call' = [call EXCEPT ![i] = "failed"]
      BY <1>1, <2>3 DEF Send
    <3>2. WireCalls!Refuse(i)
      BY <2>1, <3>1 DEF WireCalls!Refuse
    <3> QED BY <2>1, <3>2 DEF WireCalls!Next
  <2> QED BY <2>2, <2>3
<1>2. ASSUME NEW S \in SUBSET pending, call' = Rejected(S) PROVE [WireCalls!Next]_call
  <2>1. call' = [i \in Id |-> IF i \in S THEN "failed" ELSE call[i]]
    BY <1>0, <1>2 DEF Rejected, CallsTracked
  <2>2. CASE S = {}
    BY <1>0, <2>1, <2>2 DEF WireTypeOK
  <2>3. CASE S # {}
    <3>1. WireCalls!Fail(S) /\ S \in SUBSET Id
      BY <1>0, <2>1, <2>3 DEF WireCalls!Fail
    <3> QED BY <3>1 DEF WireCalls!Next
  <2> QED BY <2>2, <2>3
<1>3. CASE Start
  BY <1>1, <1>3 DEF Start
<1>4. CASE CallKimi
  BY <1>1, <1>4 DEF CallKimi
<1>5. ASSUME NEW i \in Id, Response(i) PROVE WireCalls!Next
  <2>1. WireCalls!Answer(i)
    BY <1>0, <1>5 DEF Response, WireCalls!Answer, CallsTracked
  <2> QED BY <2>1 DEF WireCalls!Next
<1>6. ASSUME NEW i \in Id, TimeLimit(i) PROVE [WireCalls!Next]_call
  <2>1. {i} \in SUBSET pending /\ call' = Rejected({i})
    BY <1>0, <1>6 DEF TimeLimit, CallsTracked
  <2> QED BY <1>2, <2>1
<1>7. ASSUME NEW k \in Kimi, KimiEnds(k) PROVE UNCHANGED call
  BY <1>7 DEF KimiEnds
<1>8. ASSUME NEW k \in Kimi, ExitHandler(k) PROVE [WireCalls!Next]_call
  BY <1>2, <1>8 DEF ExitHandler
<1>9. CASE Stop
  BY <1>2, <1>9 DEF Stop
<1>10. CASE UNCHANGED wireVars
  BY <1>10 DEF wireVars
<1> QED BY <1>3, <1>4, <1>5, <1>6, <1>7, <1>8, <1>9, <1>10 DEF WireNext

(* Every call is settled at most once, by whichever comes first, and never *)
(* more than MaxPendingRpcs of them are open.                              *)
THEOREM WireRefinement == WireSpec => ImplementsCalls
<1>1. WireInit => WireCalls!Init
  BY DEF WireInit, WireCalls!Init
<1> QED BY <1>1, CallStep, WireInvariance, PTL DEF WireSpec, ImplementsCalls, WireCalls!Spec
=============================================================================
