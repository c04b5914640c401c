---------------------------- MODULE McpHostProofs ----------------------------
(***************************************************************************)
(* Proofs about McpHost, for every set of servers and any number of server *)
(* processes.                                                              *)
(*                                                                         *)
(* HostInv is inductive.  A session being connected is registered and not  *)
(* connected, so that opening a transport replaces none whose handshake    *)
(* succeeded; and what the main loop awaits says which sessions owe it an  *)
(* answer.                                                                 *)
(***************************************************************************)
EXTENDS McpHost, TLAPS, FiniteSetTheorems

HostShape ==
  /\ servers \subseteq Server /\ connectedAt \subseteq servers
  /\ transport \in [Server -> Nat]
  /\ opened \in Nat
  /\ server \in [Process -> {"none", "up", "ended", "killed"}]
  /\ handler \in [Process -> Server \cup {NoServer}]
  /\ pendingRequests \in [Server -> SUBSET Nat]
  /\ op \in {"idle", "connecting", "listing", "searching", "calling", "closed"}
  /\ conn \in [Server -> {"none", "opening", "handshake"}]
  /\ \A p \in shook : p \in Process /\ p <= opened
  /\ \A s \in Server : transport[s] <= opened

Connecting ==
  \A s \in Server : conn[s] # "none" => op = "connecting" /\ s \in servers \ connectedAt

Owing ==
  /\ \A s \in Awaited : pendingRequests[s] \ {0} = {transport[s]}
  /\ op \in {"idle", "closed"} => Awaited = {}
  /\ op = "connecting" => \A s \in Awaited : conn[s] = "handshake"
  /\ op # "connecting" => \A s, t \in Awaited : s = t
  /\ op \in {"listing", "searching"} => Awaited \subseteq todo

HostInv == HostShape /\ Connecting /\ Owing /\ NoServerLeftRunning

LEMMA InitHostInv == HostInit => HostInv
<1> SUFFICES ASSUME HostInit PROVE HostInv
  OBVIOUS
<1>1. HostShape
  BY McpHostAssumption DEF HostInit, HostShape, Process
<1>2. Awaited = {}
  BY DEF HostInit, Awaited
<1>3. Connecting /\ Owing /\ NoServerLeftRunning
  BY <1>2 DEF HostInit, Connecting, Owing, NoServerLeftRunning
<1> QED BY <1>1, <1>3 DEF HostInv

-----------------------------------------------------------------------------
(* A request is put in the map of one session, or an answer taken out.     *)
LEMMA AwaitedWhenSent ==
  ASSUME HostInv, NEW s \in Server, NEW p \in Nat \ {0}, pendingRequests' = Sent(s, p)
  PROVE  /\ Awaited' = Awaited \cup {s}
         /\ pendingRequests' \in [Server -> SUBSET Nat]
         /\ pendingRequests'[s] = pendingRequests[s] \cup {p}
         /\ \A t \in Server \ {s} : pendingRequests'[t] = pendingRequests[t]
<1>1. pendingRequests \in [Server -> SUBSET Nat]
  BY DEF HostInv, HostShape
<1>2. /\ pendingRequests' \in [Server -> SUBSET Nat]
      /\ pendingRequests'[s] = pendingRequests[s] \cup {p}
      /\ \A t \in Server \ {s} : pendingRequests'[t] = pendingRequests[t]
  BY <1>1 DEF Sent
<1>3. Awaited' = Awaited \cup {s}
  BY <1>1, <1>2 DEF Awaited
<1> QED BY <1>2, <1>3

LEMMA AwaitedWhenDropped ==
  ASSUME HostInv, NEW s \in Awaited, pendingRequests' = Dropped(s)
  PROVE  /\ Awaited' = Awaited \ {s}
         /\ pendingRequests' \in [Server -> SUBSET Nat]
         /\ \A t \in Server \ {s} : pendingRequests'[t] = pendingRequests[t]
<1>1. pendingRequests \in [Server -> SUBSET Nat] /\ s \in Server
  BY DEF HostInv, HostShape, Awaited
<1>2. /\ pendingRequests' \in [Server -> SUBSET Nat]
      /\ pendingRequests'[s] = pendingRequests[s] \ {transport[s]}
      /\ \A t \in Server \ {s} : pendingRequests'[t] = pendingRequests[t]
  BY <1>1 DEF Dropped
<1>3. pendingRequests[s] \ {0} = {transport[s]}
  BY DEF HostInv, Owing
<1>4. pendingRequests'[s] \ {0} = {}
  BY <1>2, <1>3
<1>5. Awaited' = Awaited \ {s}
  BY <1>1, <1>2, <1>4 DEF Awaited
<1> QED BY <1>2, <1>5

(* The sessions in S are closed while nobody owes an answer.               *)
LEMMA CloseKeeps ==
  ASSUME HostInv, NEW S \in SUBSET Server, CloseSessions(S), op = "idle",
         op' \in {"idle", "closed"}
  PROVE  HostInv'
<1>1. /\ HostShape /\ Connecting /\ Awaited = {}
      /\ \A s \in Server : conn[s] = "none"
  BY DEF HostInv, Connecting, Owing, HostShape
<1>2. HostShape'
  <2>1. /\ pendingRequests' \in [Server -> SUBSET Nat]
        /\ transport' \in [Server -> Nat]
    BY <1>1 DEF HostShape, CloseSessions
  <2>2. /\ server' \in [Process -> {"none", "up", "ended", "killed"}]
        /\ handler' \in [Process -> Server \cup {NoServer}]
    BY <1>1 DEF HostShape, CloseSessions
  <2> QED BY <1>1, <2>1, <2>2 DEF HostShape, CloseSessions
<1>3. Awaited' = {}
  BY <1>1 DEF Awaited, CloseSessions, HostShape
<1>4. Connecting' /\ Owing'
  BY <1>1, <1>3 DEF Connecting, Owing, CloseSessions
<1>5. NoServerLeftRunning'
  <2> SUFFICES ASSUME NEW p \in shook, server'[p] = "up"
               PROVE  \E s \in servers' : transport'[s] = p /\ s \in connectedAt'
    BY DEF NoServerLeftRunning, CloseSessions
  <2>1. p \in Process
    BY <1>1 DEF HostShape
  <2>2. server[p] = "up" /\ \A s \in S : transport[s] # p
    BY <2>1 DEF CloseSessions
  <2>3. PICK s \in servers : transport[s] = p /\ s \in connectedAt
    BY <2>2 DEF HostInv, NoServerLeftRunning
  <2>4. s \notin S /\ s \in Server
    BY <1>1, <2>2, <2>3 DEF HostShape
  <2> QED BY <2>3, <2>4 DEF CloseSessions
<1> QED BY <1>2, <1>4, <1>5 DEF HostInv

(* A new transport: what it replaces had no successful handshake.          *)
LEMMA OpenKeeps ==
  ASSUME HostInv, NEW s \in Server, OpenTransport(s)
  PROVE  HostInv'
<1>1. /\ HostShape /\ Connecting /\ Owing
      /\ conn[s] = "opening" /\ s \in servers \ connectedAt /\ op = "connecting"
      /\ opened' = opened + 1 /\ opened \in Nat /\ opened' \in Nat \ {0}
      /\ UNCHANGED <<servers, connectedAt, initialized, op, todo, shook>>
  BY DEF HostInv, HostShape, Connecting, OpenTransport
<1>2. s \notin Awaited
  BY <1>1 DEF Owing
<1>3. /\ Awaited' = Awaited \cup {s}
      /\ pendingRequests' \in [Server -> SUBSET Nat]
      /\ pendingRequests'[s] = pendingRequests[s] \cup {opened'}
      /\ \A t \in Server \ {s} : pendingRequests'[t] = pendingRequests[t]
  <2>1. pendingRequests' = Sent(s, opened')
    BY DEF OpenTransport
  <2> QED BY <1>1, <2>1, AwaitedWhenSent
<1>4. /\ transport' \in [Server -> Nat] /\ transport'[s] = opened'
      /\ \A t \in Server \ {s} : transport'[t] = transport[t]
      /\ conn' \in [Server -> {"none", "opening", "handshake"}] /\ conn'[s] = "handshake"
      /\ \A t \in Server \ {s} : conn'[t] = conn[t]
  BY <1>1 DEF HostShape, OpenTransport
<1>5. /\ server' \in [Process -> {"none", "up", "ended", "killed"}]
      /\ handler' \in [Process -> Server \cup {NoServer}]
      /\ \A p \in Process : p # opened' => server'[p] = server[p]
  BY <1>1 DEF HostShape, OpenTransport
<1>6. HostShape'
  <2>1. \A t \in Server : transport'[t] \in Nat /\ transport'[t] <= opened'
    <3> SUFFICES ASSUME NEW t \in Server
                 PROVE  transport'[t] \in Nat /\ transport'[t] <= opened'
      OBVIOUS
    <3>1. CASE t = s
      BY <1>1, <1>4, <3>1
    <3>2. CASE t # s
      <4>1. transport'[t] = transport[t]
        BY <1>4, <3>2
      <4>2. transport[t] \in Nat /\ transport[t] <= opened
        BY <1>1 DEF HostShape
      <4> QED BY <1>1, <4>1, <4>2
    <3> QED BY <3>1, <3>2
  <2>2. \A p \in shook' : p \in Process /\ p <= opened'
    <3> SUFFICES ASSUME NEW p \in shook PROVE p \in Process /\ p <= opened'
      BY <1>1
    <3>1. p \in Process /\ p <= opened /\ p \in Int
      BY <1>1, McpHostAssumption DEF HostShape, Process
    <3> QED BY <1>1, <3>1
  <2> QED BY <1>1, <1>3, <1>4, <1>5, <2>1, <2>2 DEF HostShape
<1>7. Connecting'
  BY <1>1, <1>4 DEF Connecting
<1>8. Owing'
  <2>1. pendingRequests[s] \ {0} = {}
    BY <1>2 DEF Awaited
  <2>2. pendingRequests'[s] \ {0} = {transport'[s]}
    BY <1>1, <1>3, <1>4, <2>1
  <2>3. \A t \in Awaited' : t \in Server /\ (t = s \/ t \in Awaited)
    BY <1>3 DEF Awaited
  <2>4. \A t \in Awaited' : pendingRequests'[t] \ {0} = {transport'[t]} /\ conn'[t] = "handshake"
    BY <1>1, <1>3, <1>4, <2>2, <2>3 DEF Owing
  <2> QED BY <1>1, <2>4 DEF Owing
<1>9. NoServerLeftRunning'
  <2> SUFFICES ASSUME NEW p \in shook, server'[p] = "up"
               PROVE  \E t \in servers : transport'[t] = p /\ t \in connectedAt
    BY <1>1 DEF NoServerLeftRunning
  <2>1. p \in Process /\ p # opened'
    BY <1>1 DEF HostShape, Process
  <2>2. PICK t \in servers : transport[t] = p /\ t \in connectedAt
    BY <1>5, <2>1 DEF HostInv, NoServerLeftRunning
  <2>3. t # s /\ t \in Server
    BY <1>1, <2>2 DEF HostShape
  <2> QED BY <1>4, <2>2, <2>3
<1> QED BY <1>6, <1>7, <1>8, <1>9 DEF HostInv

LEMMA HandshakeKeeps ==
  ASSUME HostInv, NEW s \in Server, NEW how, HandshakeAnswered(s, how)
  PROVE  HostInv'
<1>1. /\ HostShape /\ Connecting /\ Owing
      /\ conn[s] = "handshake" /\ op = "connecting" /\ s \in servers \ connectedAt
      /\ Running(transport[s]) /\ transport[s] \in pendingRequests[s]
      /\ UNCHANGED <<servers, transport, opened, server, handler, op, todo>>
  BY DEF HostInv, HandshakeAnswered, Connecting
<1>2. s \in Awaited /\ transport[s] \in Process
  BY <1>1 DEF Running, Awaited
<1>3. /\ Awaited' = Awaited \ {s}
      /\ pendingRequests' \in [Server -> SUBSET Nat]
      /\ \A t \in Server \ {s} : pendingRequests'[t] = pendingRequests[t]
  BY <1>2, AwaitedWhenDropped DEF HandshakeAnswered
<1>4. /\ conn' \in [Server -> {"none", "opening", "handshake"}] /\ conn'[s] = "none"
      /\ \A t \in Server \ {s} : conn'[t] = conn[t]
  BY <1>1 DEF HostShape, HandshakeAnswered
<1>5. \/ connectedAt' = connectedAt \cup {s} /\ shook' = shook \cup {transport[s]}
      \/ UNCHANGED <<connectedAt, shook>>
  BY DEF HandshakeAnswered
<1>6. HostShape'
  BY <1>1, <1>2, <1>3, <1>4, <1>5 DEF HostShape
<1>7. Connecting'
  <2>1. \A t \in Server : t \in connectedAt' => t = s \/ t \in connectedAt
    BY <1>5
  <2> QED BY <1>1, <1>4, <2>1 DEF Connecting
<1>8. Owing'
  BY <1>1, <1>3, <1>4 DEF Owing, Awaited
<1>9. NoServerLeftRunning'
  BY <1>1, <1>5 DEF HostInv, NoServerLeftRunning
<1> QED BY <1>6, <1>7, <1>8, <1>9 DEF HostInv

-----------------------------------------------------------------------------
(* Requests and answers of the main loop.                                  *)

(* A session that owes nothing is asked over a running transport.          *)
LEMMA AskedOwes ==
  ASSUME HostInv, NEW s \in Server, s \notin Awaited, Running(transport[s]),
         pendingRequests' = Sent(s, transport[s]), transport' = transport
  PROVE  /\ Awaited' = Awaited \cup {s}
         /\ pendingRequests' \in [Server -> SUBSET Nat]
         /\ \A t \in Awaited' : pendingRequests'[t] \ {0} = {transport'[t]}
<1>1. transport[s] \in Nat \ {0}
  BY DEF HostInv, HostShape, Running
<1>2. /\ Awaited' = Awaited \cup {s}
      /\ pendingRequests' \in [Server -> SUBSET Nat]
      /\ pendingRequests'[s] = pendingRequests[s] \cup {transport[s]}
      /\ \A t \in Server \ {s} : pendingRequests'[t] = pendingRequests[t]
  BY <1>1, AwaitedWhenSent
<1>3. pendingRequests[s] \ {0} = {}
  BY DEF Awaited
<1>4. pendingRequests'[s] \ {0} = {transport[s]}
  BY <1>1, <1>2, <1>3
<1>5. ASSUME NEW t \in Awaited' PROVE pendingRequests'[t] \ {0} = {transport'[t]}
  <2>1. t \in Server /\ (t = s \/ t \in Awaited)
    BY <1>2 DEF Awaited
  <2> QED BY <1>2, <1>4, <2>1 DEF HostInv, Owing
<1> QED BY <1>2, <1>5

(* What no process, registration or connection notices.                    *)
LEMMA QuietKeeps ==
  ASSUME HostInv, UNCHANGED <<servers, connectedAt, transport, opened, server, handler, shook>>,
         pendingRequests' \in [Server -> SUBSET Nat],
         op' \in {"idle", "connecting", "listing", "searching", "calling", "closed"},
         conn' \in [Server -> {"none", "opening", "handshake"}],
         Connecting', Owing'
  PROVE  HostInv'
BY DEF HostInv, HostShape, NoServerLeftRunning

LEMMA ReuseKeeps ==
  ASSUME HostInv, NEW s \in Server, ReuseTransport(s) PROVE HostInv'
<1>1. /\ HostShape /\ Connecting /\ Owing
      /\ conn[s] = "opening" /\ op = "connecting" /\ s \in servers \ connectedAt
      /\ UNCHANGED <<servers, connectedAt, initialized, transport, opened, server, handler, op,
                     todo, shook>>
  BY DEF HostInv, ReuseTransport, Connecting
<1>2. s \notin Awaited
  BY <1>1 DEF Owing
<1>3. CASE Running(transport[s])
  <2>1. /\ pendingRequests' = Sent(s, transport[s])
        /\ conn' = [conn EXCEPT ![s] = "handshake"]
    BY <1>3 DEF ReuseTransport
  <2>2. /\ Awaited' = Awaited \cup {s}
        /\ pendingRequests' \in [Server -> SUBSET Nat]
        /\ \A t \in Awaited' : pendingRequests'[t] \ {0} = {transport'[t]}
    BY <1>1, <1>2, <1>3, <2>1, AskedOwes
  <2>3. /\ conn' \in [Server -> {"none", "opening", "handshake"}] /\ conn'[s] = "handshake"
        /\ \A t \in Server \ {s} : conn'[t] = conn[t]
    BY <1>1, <2>1 DEF HostShape
  <2>4. Connecting'
    BY <1>1, <2>3 DEF Connecting
  <2>5. \A t \in Awaited' : conn'[t] = "handshake"
    BY <1>1, <2>2, <2>3 DEF Owing, Awaited
  <2>6. Owing'
    BY <1>1, <2>2, <2>5 DEF Owing
  <2> QED BY <1>1, <2>2, <2>3, <2>4, <2>6, QuietKeeps DEF HostShape
<1>4. CASE ~Running(transport[s])
  <2>1. conn' = [conn EXCEPT ![s] = "none"] /\ UNCHANGED pendingRequests
    BY <1>4 DEF ReuseTransport
  <2>2. /\ conn' \in [Server -> {"none", "opening", "handshake"}] /\ conn'[s] = "none"
        /\ \A t \in Server \ {s} : conn'[t] = conn[t]
    BY <1>1, <2>1 DEF HostShape
  <2>3. Connecting'
    BY <1>1, <2>2 DEF Connecting
  <2>4. Owing'
    BY <1>1, <1>2, <2>1, <2>2 DEF Owing, Awaited
  <2> QED BY <1>1, <2>1, <2>2, <2>3, <2>4, QuietKeeps DEF HostShape
<1> QED BY <1>3, <1>4

LEMMA AskNextKeeps ==
  ASSUME HostInv, NEW s \in Server, AskNext(s) PROVE HostInv'
<1>1. /\ HostShape /\ Connecting /\ Owing /\ Awaited = {}
      /\ op \in {"listing", "searching"}
      /\ UNCHANGED <<servers, connectedAt, initialized, transport, opened, server, handler, op,
                     conn, shook>>
  BY DEF HostInv, AskNext
<1>2. Connecting'
  BY <1>1 DEF Connecting
<1>3. CASE Running(transport[s])
  <2>1. pendingRequests' = Sent(s, transport[s]) /\ s \in todo /\ UNCHANGED todo
    BY <1>3 DEF AskNext
  <2>2. /\ Awaited' = Awaited \cup {s}
        /\ pendingRequests' \in [Server -> SUBSET Nat]
        /\ \A t \in Awaited' : pendingRequests'[t] \ {0} = {transport'[t]}
    BY <1>1, <1>3, <2>1, AskedOwes
  <2>3. Owing'
    BY <1>1, <2>1, <2>2 DEF Owing
  <2> QED BY <1>1, <1>2, <2>2, <2>3, QuietKeeps DEF HostShape
<1>4. CASE ~Running(transport[s])
  <2>1. UNCHANGED pendingRequests
    BY <1>4 DEF AskNext
  <2>2. Owing'
    BY <1>1, <2>1 DEF Owing, Awaited
  <2> QED BY <1>1, <1>2, <2>1, <2>2, QuietKeeps DEF HostShape
<1> QED BY <1>3, <1>4

LEMMA CallHintedKeeps ==
  ASSUME HostInv, NEW s \in Server, CallHinted(s) PROVE HostInv'
<1>1. /\ HostShape /\ Connecting /\ Owing /\ Awaited = {} /\ op = "idle"
      /\ \A t \in Server : conn[t] = "none"
      /\ UNCHANGED <<servers, connectedAt, initialized, transport, opened, server, handler, conn,
                     todo, shook>>
  BY DEF HostInv, CallHinted, Owing, Connecting
<1>2. Connecting'
  BY <1>1 DEF Connecting
<1>3. CASE /\ Running(transport[s])
           /\ pendingRequests' = Sent(s, transport[s]) /\ op' = "calling"
  <2>1. /\ Awaited' = Awaited \cup {s}
        /\ pendingRequests' \in [Server -> SUBSET Nat]
        /\ \A t \in Awaited' : pendingRequests'[t] \ {0} = {transport'[t]}
    BY <1>1, <1>3, AskedOwes
  <2>2. Owing'
    BY <1>1, <1>3, <2>1 DEF Owing
  <2> QED BY <1>1, <1>2, <1>3, <2>1, <2>2, QuietKeeps DEF HostShape
<1>4. CASE pendingRequests' = Sent(s, 0) /\ UNCHANGED op
  <2>1. /\ pendingRequests' \in [Server -> SUBSET Nat]
        /\ \A t \in Server : pendingRequests'[t] \subseteq pendingRequests[t] \cup {0}
    BY <1>1, <1>4 DEF HostShape, Sent
  <2>2. Awaited' = {}
    BY <1>1, <2>1 DEF Awaited
  <2>3. Owing'
    BY <1>1, <1>4, <2>2 DEF Owing
  <2> QED BY <1>1, <1>2, <1>4, <2>1, <2>3, QuietKeeps DEF HostShape
<1> QED BY <1>3, <1>4 DEF CallHinted

(* An answer takes the one request out.                                    *)
LEMMA AnswerKeeps ==
  ASSUME HostInv, NEW s \in Awaited, pendingRequests' = Dropped(s),
         op \in {"listing", "searching", "calling"}, op' \in {op, "idle"},
         UNCHANGED <<servers, connectedAt, initialized, transport, opened, server, handler, conn,
                     shook>>
  PROVE  HostInv'
<1>1. HostShape /\ Connecting /\ Owing
  BY DEF HostInv
<1>2. Awaited' = {} /\ pendingRequests' \in [Server -> SUBSET Nat]
  <2>1. /\ Awaited' = Awaited \ {s}
        /\ pendingRequests' \in [Server -> SUBSET Nat]
    BY AwaitedWhenDropped
  <2>2. \A t \in Awaited : t = s
    BY <1>1 DEF Owing
  <2> QED BY <2>1, <2>2
<1>3. Connecting'
  BY <1>1 DEF Connecting
<1>4. Owing'
  BY <1>2 DEF Owing
<1> QED BY <1>1, <1>2, <1>3, <1>4, QuietKeeps DEF HostShape

(* The crash of a process rejects what its session has pending.            *)
LEMMA CrashKeeps ==
  ASSUME HostInv, NEW p \in Process, Crash(p) PROVE HostInv'
<1> DEFINE s == handler[p]
<1>1. /\ HostShape /\ Connecting /\ Owing
      /\ server' = [server EXCEPT ![p] = "ended"]
      /\ pendingRequests' = [t \in Server |-> IF t = s THEN {} ELSE pendingRequests[t]]
      /\ UNCHANGED <<servers, connectedAt, initialized, transport, opened, handler, shook>>
      /\ \/ s \in Awaited /\ conn' = [conn EXCEPT ![s] = "none"]
            /\ op' = IF op = "calling" THEN "idle" ELSE op
         \/ s \notin Awaited /\ UNCHANGED <<conn, op, todo>>
  BY DEF HostInv, Crash
<1> HIDE DEF s
<1>2. Awaited' = Awaited \ {s} /\ pendingRequests' \in [Server -> SUBSET Nat]
  BY <1>1 DEF Awaited, HostShape
<1>3. /\ conn' \in [Server -> {"none", "opening", "handshake"}]
      /\ \A t \in Server : conn'[t] = IF t = s /\ s \in Awaited THEN "none" ELSE conn[t]
  BY <1>1 DEF HostShape
<1>4. server' \in [Process -> {"none", "up", "ended", "killed"}]
  BY <1>1 DEF HostShape
<1>5. /\ op' \in {"idle", "connecting", "listing", "searching", "calling", "closed"}
      /\ op' = op \/ (op = "calling" /\ op' = "idle" /\ s \in Awaited)
  BY <1>1 DEF HostShape
<1>6. HostShape'
  BY <1>1, <1>2, <1>3, <1>4, <1>5 DEF HostShape
<1>7. Connecting'
  BY <1>1, <1>3, <1>5 DEF Connecting
<1>8. Owing'
  <2>1. \A t \in Awaited' : t \in Server /\ t # s /\ t \in Awaited
    BY <1>2 DEF Awaited
  <2>2. \A t \in Awaited' : pendingRequests'[t] \ {0} = {transport'[t]} /\ conn'[t] = conn[t]
    BY <1>1, <1>3, <2>1 DEF Owing
  <2>3. op # "connecting" /\ s \in Awaited => Awaited' = {}
    BY <1>1, <1>2 DEF Owing
  <2>4. s \notin Awaited => UNCHANGED <<todo, op>> /\ Awaited' = Awaited
    BY <1>1, <1>2
  <2>5. op' \in {"listing", "searching"} => Awaited' \subseteq todo'
    BY <1>1, <1>5, <2>3, <2>4 DEF Owing
  <2>6. op' = "connecting" => \A t \in Awaited' : conn'[t] = "handshake"
    BY <1>1, <1>5, <2>1, <2>2 DEF Owing
  <2>7. op' \in {"idle", "closed"} => Awaited' = {}
    BY <1>1, <1>5, <2>1, <2>3 DEF Owing
  <2> QED BY <1>1, <1>5, <2>1, <2>2, <2>5, <2>6, <2>7 DEF Owing
<1>9. NoServerLeftRunning'
  <2> SUFFICES ASSUME NEW q \in shook, server'[q] = "up"
               PROVE  \E t \in servers : transport[t] = q /\ t \in connectedAt
    BY <1>1 DEF NoServerLeftRunning
  <2>1. server[q] = "up"
    BY <1>1 DEF HostShape
  <2> QED BY <2>1 DEF HostInv, NoServerLeftRunning
<1> QED BY <1>6, <1>7, <1>8, <1>9 DEF HostInv

-----------------------------------------------------------------------------
(* HostInv is inductive.                                                   *)

LEMMA NextHostInv == HostInv /\ [HostNext]_hostVars => HostInv'
<1> SUFFICES ASSUME HostInv, [HostNext]_hostVars PROVE HostInv'
  OBVIOUS
<1>0. HostShape /\ Connecting /\ Owing /\ NoServerLeftRunning
  BY DEF HostInv
<1>1. ASSUME NEW s \in Server, RegisterServer(s) PROVE HostInv'
  BY <1>0, <1>1 DEF RegisterServer, HostInv, HostShape, Connecting, Owing, Awaited,
                    NoServerLeftRunning
<1>2. ASSUME NEW s \in Server, RemoveServer(s) PROVE HostInv'
  BY <1>2, CloseKeeps DEF RemoveServer
<1>3. ASSUME NEW S, Connect(S) PROVE HostInv'
  <2>1. /\ conn' \in [Server -> {"none", "opening", "handshake"}] /\ op' = "connecting"
        /\ op = "idle" /\ UNCHANGED pendingRequests
        /\ \A s \in Server : conn'[s] # "none" => s \in S \/ conn[s] # "none"
        /\ S \subseteq servers \ connectedAt
        /\ UNCHANGED <<servers, connectedAt, transport, opened, server, handler, shook>>
    BY <1>0, <1>3 DEF Connect, HostShape
  <2>2. Connecting'
    BY <1>0, <2>1 DEF Connecting
  <2>3. Owing'
    BY <1>0, <2>1 DEF Owing, Awaited
  <2> QED BY <1>0, <2>1, <2>2, <2>3, QuietKeeps DEF HostShape
<1>4. ASSUME NEW s \in Server, OpenTransport(s) PROVE HostInv'
  BY <1>4, OpenKeeps
<1>5. ASSUME NEW s \in Server, ReuseTransport(s) PROVE HostInv'
  BY <1>5, ReuseKeeps
<1>6. ASSUME NEW s \in Server, NEW how, HandshakeAnswered(s, how) PROVE HostInv'
  BY <1>6, HandshakeKeeps
<1>7. ASSUME NEW s \in Server, AskNext(s) PROVE HostInv'
  BY <1>7, AskNextKeeps
<1>8. ASSUME NEW s \in Server, Listed(s) PROVE HostInv'
  BY <1>8, AnswerKeeps DEF Listed
<1>9. ASSUME NEW s \in Server, Found(s) PROVE HostInv'
  <2>1. Connecting' /\ Owing'
    BY <1>0, <1>9 DEF Found, Connecting, Owing, Awaited
  <2> QED BY <1>0, <1>9, <2>1, QuietKeeps DEF Found, HostShape
<1>10. ASSUME NEW s \in Server, CallHinted(s) PROVE HostInv'
  BY <1>10, CallHintedKeeps
<1>11. ASSUME NEW s \in Server, CallAnswered(s) PROVE HostInv'
  BY <1>11, AnswerKeeps DEF CallAnswered
<1>12. CASE ConnectDone
  <2>1. Connecting' /\ Owing'
    BY <1>0, <1>12 DEF ConnectDone, Connecting, Owing, Awaited
  <2> QED BY <1>0, <1>12, <2>1, QuietKeeps DEF ConnectDone, HostShape
<1>13. ASSUME NEW kind \in {"listing", "searching"}, AskAll(kind) PROVE HostInv'
  <2>1. Connecting' /\ Owing'
    BY <1>0, <1>13 DEF AskAll, Connecting, Owing, Awaited
  <2> QED BY <1>0, <1>13, <2>1, QuietKeeps DEF AskAll, HostShape
<1>14. CASE AskDone
  <2>1. Connecting' /\ Owing'
    BY <1>0, <1>14 DEF AskDone, Connecting, Owing, Awaited
  <2> QED BY <1>0, <1>14, <2>1, QuietKeeps DEF AskDone, HostShape
<1>15. CASE CloseHost
  <2>1. servers \in SUBSET Server
    BY <1>0 DEF HostShape
  <2> QED BY <1>15, <2>1, CloseKeeps DEF CloseHost
<1>16. ASSUME NEW p \in Process, Crash(p) PROVE HostInv'
  BY <1>16, CrashKeeps
<1>17. ASSUME NEW p \in Process, ExitUnnoticed(p) PROVE HostInv'
  BY <1>0, <1>17 DEF ExitUnnoticed, HostInv, HostShape, Connecting, Owing, Awaited,
                     NoServerLeftRunning
<1>18. CASE UNCHANGED hostVars
  BY <1>0, <1>18 DEF hostVars, HostInv, HostShape, Connecting, Owing, Awaited,
                     NoServerLeftRunning
<1> QED BY <1>1, <1>2, <1>3, <1>4, <1>5, <1>6, <1>7, <1>8, <1>9, <1>10, <1>11, <1>12, <1>13,
           <1>14, <1>15, <1>16, <1>17, <1>18
        DEF HostNext, ConnectServer, ConnectAll

(* Who is registered, connected and owes an answer, at every step.         *)
THEOREM HostInvariance == HostSpec => []HostInv
BY InitHostInv, NextHostInv, PTL DEF HostSpec

-----------------------------------------------------------------------------

(* No process that completed its handshake is left running unattended.     *)
THEOREM NoProcessLeft == HostSpec => []NoServerLeftRunning
<1>1. HostInv => NoServerLeftRunning
  BY DEF HostInv
<1> QED BY <1>1, HostInvariance, PTL

(* A request to the host leaves nothing owed, and asks one session at a    *)
(* time.                                                                   *)
THEOREM NothingLeftOwed == HostSpec => []NothingOwedWhenIdle
<1>1. HostInv => NothingOwedWhenIdle
  <2> SUFFICES ASSUME HostInv PROVE NothingOwedWhenIdle
    OBVIOUS
  <2>1. Owing
    BY DEF HostInv
  <2>2. ASSUME op # "connecting" PROVE Cardinality(Awaited) <= 1
    <3>1. CASE Awaited = {}
      BY <3>1, FS_EmptySet
    <3>2. CASE Awaited # {}
      <4>1. PICK s \in Awaited : Awaited = {s}
        BY <2>1, <2>2, <3>2 DEF Owing
      <4>2. Cardinality({s}) = 1
        BY FS_Singleton
      <4> QED BY <4>1, <4>2
    <3> QED BY <3>1, <3>2
  <2> QED BY <2>1, <2>2 DEF Owing, NothingOwedWhenIdle
<1> QED BY <1>1, HostInvariance, PTL

-----------------------------------------------------------------------------
(* The types, which take an invariant of their own: that no more processes *)
(* are spawned than there may be is known only together with the sessions  *)
(* still to be opened, of which there are finitely many.                   *)

Opening == {s \in Server : conn[s] = "opening" /\ s \notin initialized}

HostBounds ==
  /\ IsFiniteSet(servers) /\ initialized \subseteq servers /\ todo \subseteq servers
  /\ op \notin {"listing", "searching"} => todo = {}
  /\ opened + Cardinality(Opening) <= MaxTransports
  /\ \A s \in Server : pendingRequests[s] \subseteq 0 .. opened

LEMMA OpeningFinite ==
  ASSUME HostInv, HostBounds
  PROVE  IsFiniteSet(Opening) /\ Cardinality(Opening) \in Nat
<1>1. Opening \subseteq servers
  BY DEF HostInv, Connecting, Opening
<1> QED BY <1>1, FS_Subset, FS_CardinalityType DEF HostBounds

LEMMA InitHostBounds == HostInit => HostBounds
<1> SUFFICES ASSUME HostInit PROVE HostBounds
  OBVIOUS
<1>1. Opening = {}
  BY DEF HostInit, Opening
<1>2. IsFiniteSet(servers) /\ Cardinality(Opening) = 0
  BY <1>1, FS_EmptySet DEF HostInit
<1> QED BY <1>2, McpHostAssumption DEF HostInit, HostBounds

(* A step that opens nothing.                                              *)
LEMMA BoundsKept ==
  ASSUME HostInv, HostBounds, Opening' \subseteq Opening, UNCHANGED <<servers, opened>>,
         initialized' \subseteq servers, todo' \subseteq servers,
         op' \notin {"listing", "searching"} => todo' = {},
         \A s \in Server : pendingRequests'[s] \subseteq 0 .. opened
  PROVE  HostBounds'
<1>1. IsFiniteSet(Opening) /\ Cardinality(Opening) \in Nat
  BY OpeningFinite
<1>2. IsFiniteSet(Opening') /\ Cardinality(Opening') \in Nat
      /\ Cardinality(Opening') <= Cardinality(Opening)
  BY <1>1, FS_Subset, FS_CardinalityType
<1>3. opened \in Nat
  BY DEF HostInv, HostShape
<1>4. opened + Cardinality(Opening') <= MaxTransports
  BY <1>1, <1>2, <1>3, McpHostAssumption DEF HostBounds
<1> QED BY <1>4 DEF HostBounds

LEMMA SentInBounds ==
  ASSUME HostInv, HostBounds, NEW s \in Server, NEW p \in 0 .. opened,
         pendingRequests' = Sent(s, p)
  PROVE  \A t \in Server : pendingRequests'[t] \subseteq 0 .. opened
<1>1. pendingRequests \in [Server -> SUBSET Nat]
  BY DEF HostInv, HostShape
<1> QED BY <1>1 DEF HostBounds, Sent

LEMMA TransportInBounds ==
  ASSUME HostInv, NEW s \in Server
  PROVE  transport[s] \in 0 .. opened
BY DEF HostInv, HostShape

LEMMA DroppedInBounds ==
  ASSUME HostInv, HostBounds, NEW s \in Server, pendingRequests' = Dropped(s)
  PROVE  \A t \in Server : pendingRequests'[t] \subseteq 0 .. opened
<1>1. pendingRequests \in [Server -> SUBSET Nat]
  BY DEF HostInv, HostShape
<1> QED BY <1>1 DEF HostBounds, Dropped

LEMMA CloseInBounds ==
  ASSUME HostInv, HostBounds, NEW S \in SUBSET Server, op = "idle", CloseSessions(S),
         op' \in {"idle", "closed"}
  PROVE  HostBounds'
<1>1. \A s \in Server : conn[s] = "none"
  BY DEF HostInv, HostShape, Connecting
<1>2. todo = {} /\ todo' = {} /\ UNCHANGED opened
  BY DEF HostBounds, CloseSessions
<1>3. Opening = {} /\ Opening' = {}
  BY <1>1 DEF Opening, CloseSessions
<1>4. IsFiniteSet(servers')
  BY FS_Subset DEF HostBounds, CloseSessions
<1>5. initialized' \subseteq servers'
  BY DEF HostBounds, CloseSessions
<1>6. \A s \in Server : pendingRequests'[s] \subseteq 0 .. opened
  BY DEF HostBounds, CloseSessions
<1>7. opened' + Cardinality(Opening') <= MaxTransports
  BY <1>2, <1>3 DEF HostBounds
<1> QED BY <1>2, <1>4, <1>5, <1>6, <1>7 DEF HostBounds

LEMMA ConnectInBounds ==
  ASSUME HostInv, HostBounds, NEW S, Connect(S)
  PROVE  HostBounds'
<1>1. \A s \in Server : conn[s] = "none"
  BY DEF HostInv, HostShape, Connecting, Connect
<1>2. S \subseteq Server
  BY DEF HostInv, HostShape, Connect
<1>3. \A s \in Server : conn'[s] = IF s \in S THEN "opening" ELSE "none"
  BY <1>1 DEF Connect
<1>4. Opening' = S \ initialized
  BY <1>2, <1>3 DEF Opening, Connect
<1>5. opened' + Cardinality(Opening') <= MaxTransports
  BY <1>4 DEF Connect
<1>6. todo' = {}
  BY DEF Connect, HostBounds
<1> QED BY <1>5, <1>6 DEF Connect, HostBounds

LEMMA OpenInBounds ==
  ASSUME HostInv, HostBounds, NEW s \in Server, OpenTransport(s)
  PROVE  HostBounds'
<1>1. /\ opened \in Nat /\ opened' = opened + 1 /\ conn \in [Server -> {"none", "opening", "handshake"}]
      /\ pendingRequests \in [Server -> SUBSET Nat]
      /\ UNCHANGED <<servers, initialized, op, todo>>
  BY DEF HostInv, HostShape, OpenTransport
<1>2. s \in Opening /\ Opening' = Opening \ {s}
  BY <1>1 DEF OpenTransport, Opening
<1>3. IsFiniteSet(Opening) /\ Cardinality(Opening) \in Nat
  BY OpeningFinite
<1>4. Cardinality(Opening') = Cardinality(Opening) - 1
  BY <1>2, <1>3, FS_RemoveElement
<1>5. opened' + Cardinality(Opening') <= MaxTransports
  BY <1>1, <1>3, <1>4, McpHostAssumption DEF HostBounds
<1>6. \A t \in Server : pendingRequests'[t] \subseteq 0 .. opened'
  <2>1. pendingRequests' = Sent(s, opened')
    BY DEF OpenTransport
  <2>2. 0 .. opened \subseteq 0 .. opened' /\ opened' \in 0 .. opened'
    BY <1>1
  <2>3. \A t \in Server : pendingRequests'[t] \subseteq pendingRequests[t] \cup {opened'}
    BY <1>1, <2>1 DEF Sent
  <2> QED BY <2>2, <2>3 DEF HostBounds
<1> QED BY <1>1, <1>5, <1>6 DEF HostBounds

LEMMA HandshakeInBounds ==
  ASSUME HostInv, HostBounds, NEW s \in Server, NEW how, HandshakeAnswered(s, how)
  PROVE  HostBounds'
<1>1. /\ conn \in [Server -> {"none", "opening", "handshake"}] /\ s \in servers
      /\ UNCHANGED <<servers, opened, op, todo>>
  BY DEF HostInv, HostShape, Connecting, HandshakeAnswered
<1>2. initialized \subseteq initialized' /\ initialized' \subseteq servers
  BY <1>1 DEF HandshakeAnswered, HostBounds
<1>3. \A t \in Server : conn'[t] = IF t = s THEN "none" ELSE conn[t]
  BY <1>1 DEF HandshakeAnswered
<1>4. Opening' \subseteq Opening
  BY <1>2, <1>3 DEF Opening
<1>5. \A t \in Server : pendingRequests'[t] \subseteq 0 .. opened
  BY DroppedInBounds DEF HandshakeAnswered
<1> QED BY <1>1, <1>2, <1>4, <1>5, BoundsKept DEF HostBounds

LEMMA ReuseInBounds ==
  ASSUME HostInv, HostBounds, NEW s \in Server, ReuseTransport(s)
  PROVE  HostBounds'
<1>1. /\ conn \in [Server -> {"none", "opening", "handshake"}] /\ s \in initialized
      /\ UNCHANGED <<servers, initialized, opened, op, todo>>
  BY DEF HostInv, HostShape, ReuseTransport
<1>2. \A t \in Server : t # s => conn'[t] = conn[t]
  BY <1>1 DEF ReuseTransport
<1>3. Opening' \subseteq Opening
  BY <1>1, <1>2 DEF Opening
<1>4. \A t \in Server : pendingRequests'[t] \subseteq 0 .. opened
  BY SentInBounds, TransportInBounds DEF ReuseTransport, HostBounds
<1> QED BY <1>1, <1>3, <1>4, BoundsKept DEF HostBounds

LEMMA CrashInBounds ==
  ASSUME HostInv, HostBounds, NEW p \in Process, Crash(p)
  PROVE  HostBounds'
<1>1. /\ conn \in [Server -> {"none", "opening", "handshake"}]
      /\ UNCHANGED <<servers, initialized, opened>>
  BY DEF HostInv, HostShape, Crash
<1>2. \A t \in Server : conn'[t] = "opening" => conn[t] = "opening"
  <2>1. conn' = conn \/ conn' = [conn EXCEPT ![handler[p]] = "none"]
    BY DEF Crash
  <2> QED BY <1>1, <2>1
<1>3. Opening' \subseteq Opening
  BY <1>1, <1>2 DEF Opening
<1>4. todo' \subseteq todo /\ (op' = op \/ op = "calling")
  BY DEF Crash
<1>5. \A t \in Server : pendingRequests'[t] \subseteq 0 .. opened
  BY DEF Crash, HostBounds
<1>6. op' \notin {"listing", "searching"} => todo' = {}
  BY <1>4 DEF HostBounds
<1> QED BY <1>1, <1>3, <1>4, <1>5, <1>6, BoundsKept DEF HostBounds

LEMMA NextHostBounds == HostInv /\ HostBounds /\ [HostNext]_hostVars => HostBounds'
<1> SUFFICES ASSUME HostInv, HostBounds, [HostNext]_hostVars PROVE HostBounds'
  OBVIOUS
<1>1. ASSUME NEW s \in Server, RegisterServer(s) PROVE HostBounds'
  <2>1. IsFiniteSet(servers')
    BY <1>1, FS_AddElement DEF RegisterServer, HostBounds
  <2>2. Opening' = Opening
    BY <1>1 DEF RegisterServer, Opening
  <2> QED BY <1>1, <2>1, <2>2 DEF RegisterServer, HostBounds
<1>2. ASSUME NEW s \in Server, RemoveServer(s) PROVE HostBounds'
  BY <1>2, CloseInBounds DEF RemoveServer
<1>3. ASSUME NEW s \in Server, OpenTransport(s) PROVE HostBounds'
  BY <1>3, OpenInBounds
<1>4. ASSUME NEW s \in Server, ReuseTransport(s) PROVE HostBounds'
  BY <1>4, ReuseInBounds
<1>5. ASSUME NEW s \in Server, NEW how, HandshakeAnswered(s, how) PROVE HostBounds'
  BY <1>5, HandshakeInBounds
<1>6. ASSUME NEW s \in Server, AskNext(s) PROVE HostBounds'
  <2>1. \A t \in Server : pendingRequests'[t] \subseteq 0 .. opened
    BY <1>6, SentInBounds, TransportInBounds DEF AskNext, HostBounds
  <2>2. Opening' = Opening
    BY <1>6 DEF AskNext, Opening
  <2> QED BY <1>6, <2>1, <2>2, BoundsKept DEF AskNext, HostBounds
<1>7. ASSUME NEW s \in Server, Listed(s) PROVE HostBounds'
  <2>1. \A t \in Server : pendingRequests'[t] \subseteq 0 .. opened
    BY <1>7, DroppedInBounds DEF Listed
  <2>2. Opening' = Opening
    BY <1>7 DEF Listed, Opening
  <2> QED BY <1>7, <2>1, <2>2, BoundsKept DEF Listed, HostBounds
<1>8. ASSUME NEW s \in Server, Found(s) PROVE HostBounds'
  <2>1. Opening' = Opening
    BY <1>8 DEF Found, Opening
  <2> QED BY <1>8, <2>1, BoundsKept DEF Found, HostBounds
<1>9. ASSUME NEW s \in Server, CallHinted(s) PROVE HostBounds'
  <2>1. \A t \in Server : pendingRequests'[t] \subseteq 0 .. opened
    <3>1. 0 \in 0 .. opened
      BY DEF HostInv, HostShape
    <3> QED BY <1>9, <3>1, SentInBounds, TransportInBounds DEF CallHinted
  <2>2. Opening' = Opening
    BY <1>9 DEF CallHinted, Opening
  <2>3. op = "idle" /\ op' \in {"idle", "calling"} /\ todo' = todo
    BY <1>9 DEF CallHinted
  <2> QED BY <1>9, <2>1, <2>2, <2>3, BoundsKept DEF CallHinted, HostBounds
<1>10. ASSUME NEW s \in Server, CallAnswered(s) PROVE HostBounds'
  <2>1. \A t \in Server : pendingRequests'[t] \subseteq 0 .. opened
    BY <1>10, DroppedInBounds DEF CallAnswered
  <2>2. Opening' = Opening
    BY <1>10 DEF CallAnswered, Opening
  <2> QED BY <1>10, <2>1, <2>2, BoundsKept DEF CallAnswered, HostBounds
<1>11. ASSUME NEW S, Connect(S) PROVE HostBounds'
  BY <1>11, ConnectInBounds
<1>12. CASE ConnectDone
  <2>1. Opening' = Opening
    BY <1>12 DEF ConnectDone, Opening
  <2> QED BY <1>12, <2>1, BoundsKept DEF ConnectDone, HostBounds
<1>13. ASSUME NEW kind \in {"listing", "searching"}, AskAll(kind) PROVE HostBounds'
  <2>1. Opening' = Opening
    BY <1>13 DEF AskAll, Opening
  <2>2. todo' \subseteq servers /\ op' \in {"listing", "searching"}
    BY <1>13 DEF AskAll, HostInv, HostShape
  <2> QED BY <1>13, <2>1, <2>2, BoundsKept DEF AskAll, HostBounds
<1>14. CASE AskDone
  <2>1. Opening' = Opening
    BY <1>14 DEF AskDone, Opening
  <2> QED BY <1>14, <2>1, BoundsKept DEF AskDone, HostBounds
<1>15. CASE CloseHost
  <2>1. servers \in SUBSET Server
    BY DEF HostInv, HostShape
  <2> QED BY <1>15, <2>1, CloseInBounds DEF CloseHost
<1>16. ASSUME NEW p \in Process, Crash(p) PROVE HostBounds'
  BY <1>16, CrashInBounds
<1>17. ASSUME NEW p \in Process, ExitUnnoticed(p) PROVE HostBounds'
  <2>1. Opening' = Opening
    BY <1>17 DEF ExitUnnoticed, Opening
  <2> QED BY <1>17, <2>1, BoundsKept DEF ExitUnnoticed, HostBounds
<1>18. CASE UNCHANGED hostVars
  <2>1. Opening' = Opening
    BY <1>18 DEF hostVars, Opening
  <2> QED BY <1>18, <2>1, BoundsKept DEF hostVars, HostBounds
<1> QED BY <1>1, <1>2, <1>3, <1>4, <1>5, <1>6, <1>7, <1>8, <1>9, <1>10, <1>11, <1>12, <1>13,
           <1>14, <1>15, <1>16, <1>17, <1>18
        DEF HostNext, ConnectServer, ConnectAll

(* Every variable of the host has its type; a main loop that is idle has   *)
(* nothing left to ask, and no more processes are spawned than there may   *)
(* be.                                                                     *)
THEOREM HostTypeCorrect == HostSpec => []HostTypeOK
<1>1. HostInv /\ HostBounds => HostTypeOK
  <2> SUFFICES ASSUME HostInv, HostBounds PROVE HostTypeOK
    OBVIOUS
  <2>1. Cardinality(Opening) \in Nat /\ opened \in Nat /\ MaxTransports \in Nat
    BY OpeningFinite, McpHostAssumption DEF HostInv, HostShape
  <2>2. opened \in 0 .. MaxTransports /\ opened <= MaxTransports
    BY <2>1 DEF HostBounds
  <2>3. transport \in [Server -> 0 .. MaxTransports]
    BY <2>1, <2>2 DEF HostInv, HostShape
  <2>4. pendingRequests \in [Server -> SUBSET (0 .. MaxTransports)]
    <3>1. 0 .. opened \subseteq 0 .. MaxTransports
      BY <2>1, <2>2
    <3> QED BY <3>1 DEF HostInv, HostShape, HostBounds
  <2> QED BY <2>2, <2>3, <2>4 DEF HostInv, HostShape, HostBounds, HostTypeOK
<1> QED BY <1>1, HostInvariance, InitHostBounds, NextHostBounds, PTL DEF HostSpec
=============================================================================
