------------------------------- MODULE McpHost -------------------------------
(***************************************************************************)
(* The MCP host of src/mcp/host.ts with its McpClientSession per server    *)
(* (src/mcp/client.ts) over stdio (src/mcp/transports/stdio.ts).           *)
(*                                                                         *)
(* The main loop of the host handles one request of its own client at a    *)
(* time and awaits it, so that each session has at most one request out;   *)
(* only connectAll is at work on several sessions at once.  What the       *)
(* servers do meanwhile, answer, refuse, crash or exit, is not awaited.    *)
(* A request is represented by the process it was written to, or by 0 when *)
(* it was put in the map of a session that has no transport.               *)
(***************************************************************************)
EXTENDS Naturals, FiniteSets

CONSTANTS
  Server,        \* names of servers
  NoServer,      \* nobody's
  MaxTransports  \* bound on the server processes spawned

ASSUME McpHostAssumption == MaxTransports \in Nat /\ NoServer \notin Server

VARIABLES
  servers,      \* the keys of the servers map
  connectedAt,  \* servers whose session has a connectedAt
  initialized,  \* servers whose session is initialized
  transport,    \* the transport of each session, 0 for null
  opened,       \* processes spawned so far
  server,       \* the life of each process
  handler,      \* the server whose session handles what a process does
  pendingRequests,  \* of each session
  op,           \* what the main loop awaits
  conn,         \* where connectServer is, for each server
  todo,         \* servers a tools request has still to ask
  shook         \* processes that have completed a handshake

hostVars == <<servers, connectedAt, initialized, transport, opened, server,
              handler, pendingRequests, op, conn, todo, shook>>

Process == 1 .. MaxTransports

HostTypeOK ==
  /\ servers \subseteq Server /\ connectedAt \subseteq servers
  /\ initialized \subseteq servers /\ todo \subseteq servers
  /\ transport \in [Server -> 0 .. MaxTransports]
  /\ opened \in 0 .. MaxTransports
  /\ server \in [Process -> {"none", "up", "ended", "killed"}]
  /\ handler \in [Process -> Server \cup {NoServer}]
  /\ pendingRequests \in [Server -> SUBSET (0 .. MaxTransports)]
  /\ op \in {"idle", "connecting", "listing", "searching", "calling", "closed"}
  /\ conn \in [Server -> {"none", "opening", "handshake"}]
  /\ shook \subseteq Process

HostInit ==
  /\ servers = {} /\ connectedAt = {} /\ initialized = {} /\ todo = {}
  /\ transport = [s \in Server |-> 0]
  /\ opened = 0
  /\ server = [p \in Process |-> "none"]
  /\ handler = [p \in Process |-> NoServer]
  /\ pendingRequests = [s \in Server |-> {}]
  /\ op = "idle"
  /\ conn = [s \in Server |-> "none"]
  /\ shook = {}

Running(p) == p # 0 /\ p \in {q \in Process : server[q] = "up"}

(* The sessions that owe the main loop an answer.                          *)
Awaited == {s \in Server : pendingRequests[s] \ {0} # {}}

Sent(s, p) == [pendingRequests EXCEPT ![s] = @ \cup {p}]

Dropped(s) == [pendingRequests EXCEPT ![s] = @ \ {transport[s]}]

-----------------------------------------------------------------------------
(* The registry.                                                           *)

RegisterServer(s) ==
  /\ op = "idle" /\ s \notin servers
  /\ servers' = servers \cup {s}
  /\ UNCHANGED <<connectedAt, initialized, transport, opened, server, handler,
                 pendingRequests, op, conn, todo, shook>>

(* The sessions of the servers in S are closed and forgotten: their        *)
(* pending requests are rejected and the transports they have now killed.  *)
(* Mutant: a closed session still counts as connected.                     *)
CloseStaysConnected(S) ==
  /\ servers' = servers \ S
  /\ initialized' = initialized \ S
  /\ pendingRequests' = [s \in Server |-> IF s \in S THEN {} ELSE pendingRequests[s]]
  /\ server' = [p \in Process |->
       IF server[p] = "up" /\ \E s \in S : transport[s] = p THEN "killed" ELSE server[p]]
  /\ transport' = [s \in Server |-> IF s \in S THEN 0 ELSE transport[s]]
  /\ handler' = [p \in Process |-> IF handler[p] \in S THEN NoServer ELSE handler[p]]
  /\ UNCHANGED <<connectedAt, opened, conn, todo, shook>>

CloseSessions(S) ==
  /\ servers' = servers \ S
  /\ connectedAt' = connectedAt \ S /\ initialized' = initialized \ S
  /\ pendingRequests' = [s \in Server |-> IF s \in S THEN {} ELSE pendingRequests[s]]
  /\ server' = [p \in Process |->
       IF server[p] = "up" /\ \E s \in S : transport[s] = p THEN "killed" ELSE server[p]]
  /\ transport' = [s \in Server |-> IF s \in S THEN 0 ELSE transport[s]]
  /\ handler' = [p \in Process |-> IF handler[p] \in S THEN NoServer ELSE handler[p]]
  /\ UNCHANGED <<opened, conn, todo, shook>>

(* removeServer.  Mutant: the entry is deleted without closing it.         *)
RemoveWithoutClose(s) ==
  /\ op = "idle" /\ s \in servers
  /\ servers' = servers \ {s}
  /\ connectedAt' = connectedAt \ {s} /\ initialized' = initialized \ {s}
  /\ pendingRequests' = [pendingRequests EXCEPT ![s] = {}]
  /\ transport' = [transport EXCEPT ![s] = 0]
  /\ UNCHANGED <<opened, server, handler, op, conn, todo, shook>>

RemoveServer(s) ==
  /\ op = "idle" /\ s \in servers
  /\ CloseSessions({s})
  /\ UNCHANGED op

(* The client of the host closes its end: main leaves its loop and closes  *)
(* every session.                                                          *)
CloseHost ==
  /\ op = "idle"
  /\ CloseSessions(servers)
  /\ op' = "closed"

-----------------------------------------------------------------------------
(* Connecting.                                                             *)

(* connectServer of the servers in S; for one that is connected the answer *)
(* is there at once.  MaxTransports bounds it here, where it waits for     *)
(* nothing.                                                                *)
Connect(S) ==
  /\ op = "idle" /\ S # {} /\ S \subseteq servers \ connectedAt
  /\ opened + Cardinality(S \ initialized) <= MaxTransports
  /\ op' = "connecting"
  /\ conn' = [s \in Server |-> IF s \in S THEN "opening" ELSE conn[s]]
  /\ UNCHANGED <<servers, connectedAt, initialized, transport, opened, server,
                 handler, pendingRequests, todo, shook>>

ConnectServer(s) == Connect({s})

ConnectAll == Connect(servers \ connectedAt)

(* connect of the session, which does nothing when it is initialized, and  *)
(* the request "initialize": a write to a dead process is rejected.        *)
OpenTransport(s) ==
  /\ conn[s] = "opening" /\ s \notin initialized
  /\ opened' = opened + 1
  /\ transport' = [transport EXCEPT ![s] = opened']
  /\ server' = [server EXCEPT ![opened'] = "up"]
  /\ handler' = [handler EXCEPT ![opened'] = s]
  /\ pendingRequests' = Sent(s, opened')
  /\ conn' = [conn EXCEPT ![s] = "handshake"]
  /\ UNCHANGED <<servers, connectedAt, initialized, op, todo, shook>>

(* A session that is initialized asks over the transport it has.           *)
(* Mutant: it waits for a process that cannot be written to any more.      *)
ReuseWaits(s) ==
  /\ conn[s] = "opening" /\ s \in initialized
  /\ IF Running(transport[s])
     THEN /\ pendingRequests' = Sent(s, transport[s])
          /\ conn' = [conn EXCEPT ![s] = "handshake"]
     ELSE UNCHANGED <<conn, pendingRequests>>
  /\ UNCHANGED <<servers, connectedAt, initialized, transport, opened, server,
                 handler, op, todo, shook>>

ReuseTransport(s) ==
  /\ conn[s] = "opening" /\ s \in initialized
  /\ IF Running(transport[s])
     THEN /\ pendingRequests' = Sent(s, transport[s])
          /\ conn' = [conn EXCEPT ![s] = "handshake"]
     ELSE /\ conn' = [conn EXCEPT ![s] = "none"]
          /\ UNCHANGED pendingRequests
  /\ UNCHANGED <<servers, connectedAt, initialized, transport, opened, server,
                 handler, op, todo, shook>>

(* The answer to "initialize".  "void" has no result: the session counts   *)
(* as initialized when reading serverInfo throws.                          *)
HandshakeAnswered(s, how) ==
  /\ conn[s] = "handshake" /\ Running(transport[s])
  /\ transport[s] \in pendingRequests[s]
  /\ pendingRequests' = Dropped(s)
  /\ conn' = [conn EXCEPT ![s] = "none"]
  /\ initialized' = IF how = "error" THEN initialized ELSE initialized \cup {s}
  /\ connectedAt' = IF how = "ok" THEN connectedAt \cup {s} ELSE connectedAt
  /\ shook' = IF how = "ok" THEN shook \cup {transport[s]} ELSE shook
  /\ UNCHANGED <<servers, transport, opened, server, handler, op, todo>>

(* Every connectServer of the request is over, well or not.                *)
ConnectDone ==
  /\ op = "connecting" /\ \A s \in Server : conn[s] = "none"
  /\ op' = "idle"
  /\ UNCHANGED <<servers, connectedAt, initialized, transport, opened, server,
                 handler, pendingRequests, conn, todo, shook>>

-----------------------------------------------------------------------------
(* Tools; resources and prompts are asked for in the same way.             *)

(* listTools, and callTool without a hint, which looks for the tool first: *)
(* over the connected servers that have the capability, if there are any.  *)
AskAll(kind) ==
  /\ op = "idle"
  /\ op' = kind
  /\ todo' \in (SUBSET connectedAt) \ {{}}
  /\ UNCHANGED <<servers, connectedAt, initialized, transport, opened, server,
                 handler, pendingRequests, conn, shook>>

(* The next session is asked; a rejection is caught and the loop goes on.  *)
AskNext(s) ==
  /\ op \in {"listing", "searching"} /\ s \in todo /\ Awaited = {}
  /\ IF Running(transport[s])
     THEN pendingRequests' = Sent(s, transport[s]) /\ UNCHANGED todo
     ELSE todo' = todo \ {s} /\ UNCHANGED pendingRequests
  /\ UNCHANGED <<servers, connectedAt, initialized, transport, opened, server,
                 handler, op, conn, shook>>

Listed(s) ==
  /\ op \in {"listing", "searching"} /\ s \in Awaited /\ Running(transport[s])
  /\ pendingRequests' = Dropped(s)
  /\ todo' = todo \ {s}
  /\ UNCHANGED <<servers, connectedAt, initialized, transport, opened, server,
                 handler, op, conn, shook>>

(* The session lists the tool looked for, and is called.                   *)
Found(s) ==
  /\ op = "searching" /\ s \in Awaited /\ Running(transport[s])
  /\ op' = "calling" /\ todo' = {}
  /\ UNCHANGED <<servers, connectedAt, initialized, transport, opened, server,
                 handler, pendingRequests, conn, shook>>

AskDone ==
  /\ op \in {"listing", "searching"} /\ todo = {}
  /\ op' = "idle"
  /\ UNCHANGED <<servers, connectedAt, initialized, transport, opened, server,
                 handler, pendingRequests, conn, todo, shook>>

(* callTool with a hint asks a session whether it is connected or not.     *)
CallHinted(s) ==
  /\ op = "idle" /\ s \in servers
  /\ \/ /\ Running(transport[s])
        /\ pendingRequests' = Sent(s, transport[s]) /\ op' = "calling"
     \/ /\ transport[s] = 0
        /\ pendingRequests' = Sent(s, 0) /\ UNCHANGED op
  /\ UNCHANGED <<servers, connectedAt, initialized, transport, opened, server,
                 handler, conn, todo, shook>>

(* The answer to a call.  Mutant: its entry stays in the map.              *)
CallAnsweredKept(s) ==
  /\ op = "calling" /\ s \in Awaited /\ Running(transport[s])
  /\ op' = "idle"
  /\ UNCHANGED <<servers, connectedAt, initialized, transport, opened, server,
                 handler, pendingRequests, conn, todo, shook>>

CallAnswered(s) ==
  /\ op = "calling" /\ s \in Awaited /\ Running(transport[s])
  /\ pendingRequests' = Dropped(s)
  /\ op' = "idle"
  /\ UNCHANGED <<servers, connectedAt, initialized, transport, opened, server,
                 handler, conn, todo, shook>>

-----------------------------------------------------------------------------
(* The servers.                                                            *)

(* A process closes with an error code, or cannot be spawned: the session  *)
(* whose handlers it has rejects all it has pending, whichever process     *)
(* that was sent to.                                                       *)
Crash(p) ==
  LET s == handler[p] IN
  /\ server[p] = "up"
  /\ server' = [server EXCEPT ![p] = "ended"]
  /\ IF s \in Awaited
     THEN /\ conn' = [conn EXCEPT ![s] = "none"]
          /\ todo' = todo \ {s}
          /\ op' = IF op = "calling" THEN "idle" ELSE op
     ELSE UNCHANGED <<conn, todo, op>>
  /\ pendingRequests' = [t \in Server |-> IF t = s THEN {} ELSE pendingRequests[t]]
  /\ UNCHANGED <<servers, connectedAt, initialized, transport, opened, handler, shook>>

(* It exits with code 0, or by a signal: nobody is told.                   *)
ExitUnnoticed(p) ==
  /\ server[p] = "up"
  /\ server' = [server EXCEPT ![p] = "ended"]
  /\ UNCHANGED <<servers, connectedAt, initialized, transport, opened, handler,
                 pendingRequests, op, conn, todo, shook>>

HostNext ==
  \/ \E s \in Server :
       \/ RegisterServer(s) \/ RemoveServer(s)
       \/ ConnectServer(s) \/ OpenTransport(s) \/ ReuseTransport(s)
       \/ \E how \in {"ok", "error", "void"} : HandshakeAnswered(s, how)
       \/ AskNext(s) \/ Listed(s) \/ Found(s) \/ CallHinted(s) \/ CallAnswered(s)
  \/ ConnectAll \/ ConnectDone
  \/ AskAll("listing") \/ AskAll("searching") \/ AskDone
  \/ CloseHost
  \/ \E p \in Process : Crash(p) \/ ExitUnnoticed(p)

HostSpec == HostInit /\ [][HostNext]_hostVars

(* The host goes on with what it has begun, and a server that runs answers *)
(* what it was asked; there is no time limit that would do without.        *)
HostStep(s) ==
  \/ OpenTransport(s) \/ ReuseTransport(s) \/ AskNext(s)
  \/ \E how \in {"ok", "error", "void"} : HandshakeAnswered(s, how)
  \/ Listed(s) \/ CallAnswered(s)

HostFairness ==
  /\ \A s \in Server : WF_hostVars(HostStep(s))
  /\ WF_hostVars(ConnectDone) /\ WF_hostVars(AskDone)

HostFairSpec == HostSpec /\ HostFairness

-----------------------------------------------------------------------------
(* Safety.                                                                 *)

(* A server process that completed its handshake runs only as the present  *)
(* transport of a registered session: reconnecting never replaces it and   *)
(* no removal or end of the host leaves it behind.  Only a process whose   *)
(* handshake failed may be left running, when its server is connected anew.*)
NoServerLeftRunning ==
  \A p \in shook : server[p] = "up" =>
    \E s \in servers : transport[s] = p /\ s \in connectedAt

(* Whatever a request to the host came to, it leaves no session with a     *)
(* request that a server could still answer, and while it is handled no    *)
(* session but those being connected owes an answer beside another.        *)
NothingOwedWhenIdle ==
  /\ op \in {"idle", "closed"} => Awaited = {}
  /\ op # "connecting" => Cardinality(Awaited) <= 1
  /\ \A s \in Awaited : pendingRequests[s] \ {0} = {transport[s]}

(* Liveness: a request to the host comes to an end unless it waits for a   *)
(* process that exited without an error, which nothing reports and no time *)
(* limit ends.                                                             *)
WaitsForExited == \E s \in Awaited : ~Running(transport[s])

HostReplies == op \notin {"idle", "closed"} ~> (op = "idle" \/ WaitsForExited)
=============================================================================
