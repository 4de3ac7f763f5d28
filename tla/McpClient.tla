------------------------------ MODULE McpClient ------------------------------
(***************************************************************************)
(* Connections to MCP servers (packages/bash/src/services/McpClient.ts):   *)
(* the handshake of a connection and the discovery of its tools, the       *)
(* pending requests and timers of a transport, tool calls, disconnect and  *)
(* dispose; and the connection that the tools of packages/browser share    *)
(* (connection.ts).                                                        *)
(*                                                                         *)
(* A connect has a transport of its own, named after it.  A server answers *)
(* what it has been sent in any order, late, more than once or never; a    *)
(* line that no request waits for changes nothing.  Each action is what    *)
(* one event of the main thread does up to its next await.                 *)
(***************************************************************************)
EXTENDS Naturals, Sequences, FiniteSets

CONSTANTS
  Connects,          \* calls of connectStdio and connectHttp
  Calls,             \* calls of callTool
  Ids,               \* names of connections
  IdOf,              \* the connection that each connect makes
  TargetOf,          \* the connection that each call is for
  Http,              \* connects by connectHttp
  BrowserConnects, BrowserCalls, \* those of ensureBrowserHarnessConnection
  BrowserId,         \* BROWSER_HARNESS_CONNECTION_ID
  MaxMcpServers, MaxMcpToolCalls,
  None

ASSUME McpAssumption ==
  /\ Connects \cap Calls = {} /\ None \notin Connects \cup Calls
  /\ Http \subseteq Connects \ BrowserConnects
  /\ BrowserConnects \subseteq Connects /\ BrowserCalls \subseteq Calls
  /\ IdOf \in [Connects -> Ids] /\ TargetOf \in [Calls -> Ids] /\ BrowserId \in Ids
  /\ \A c \in Connects : IdOf[c] = BrowserId <=> c \in BrowserConnects
  /\ \A k \in BrowserCalls : TargetOf[k] = BrowserId
  /\ MaxMcpServers \in Nat /\ MaxMcpToolCalls \in Nat

VARIABLES
  connections,       \* the connection of each name
  stage,             \* how far each connect is
  process,           \* the server process of each stdio transport
  sent,              \* the requests each transport has written
  pending, timers,   \* its pendingRequests (or fetches) and pendingTimeouts
  call,              \* how far each tool call is
  mcpToolCallCount,
  connecting,        \* the connect that the browser tools share
  awaited,           \* the connect that each browser call waits for
  replaced           \* connects whose name a later one has taken over

vars == <<connections, stage, process, sent, pending, timers, call, mcpToolCallCount,
          connecting, awaited, replaced>>

Stdio    == Connects \ Http
Requests == [by : Connects, asks : {"initialize", "tools/list"}]
              \cup [by : Calls, asks : {"tools/call"}]
Messages == [id : Nat, request : Requests]
Request(by, asks) == [by |-> by, asks |-> asks]

TypeOK ==
  /\ connections \in [Ids -> Connects \cup {None}]
  /\ \A i \in Ids : connections[i] # None => IdOf[connections[i]] = i
  /\ stage \in [Connects -> {"idle", "starting", "handshake", "discovering",
                             "connected", "failed"}]
  /\ process \in [Connects -> {"none", "alive", "killed"}]
  /\ sent \in [Connects -> Seq(Messages)]
  /\ pending \in [Connects -> SUBSET Messages] /\ timers \in [Connects -> SUBSET Nat]
  /\ call \in [Calls -> {"idle", "connecting", "waiting", "ok", "failed"}]
  /\ mcpToolCallCount \in 0..MaxMcpToolCalls
  /\ connecting \in BrowserConnects \cup {None}
  /\ awaited \in [BrowserCalls -> BrowserConnects \cup {None}]
  /\ replaced \subseteq Connects

Init ==
  /\ connections = [i \in Ids |-> None]
  /\ stage = [c \in Connects |-> "idle"]
  /\ process = [c \in Connects |-> "none"]
  /\ sent = [c \in Connects |-> <<>>]
  /\ pending = [c \in Connects |-> {}] /\ timers = [c \in Connects |-> {}]
  /\ call = [k \in Calls |-> "idle"]
  /\ mcpToolCallCount = 0
  /\ connecting = None /\ awaited = [k \in BrowserCalls |-> None]
  /\ replaced = {}

-----------------------------------------------------------------------------
(***************************************************************************)
(* Transports.                                                             *)
(***************************************************************************)
NextIdOfPending(c) == Cardinality(pending[c]) + 1
NextId(c) == Len(sent[c]) + 1

\* send() of request r, when waiting and running are what is left of pending and timers.
\* Only a stdio transport has a timer.
Sends(c, r, waiting, running) ==
  LET m == [id |-> NextId(c), request |-> r]
  IN  /\ sent' = [sent EXCEPT ![c] = Append(@, m)]
      /\ pending' = [waiting EXCEPT ![c] = {n \in @ : n.id # m.id} \cup {m}]
      /\ timers' = IF c \in Http THEN running ELSE [running EXCEPT ![c] = @ \cup {m.id}]

\* The promises of connects and calls in S are rejected; a failed connect of the browser
\* tools is not kept for the next one.
Reject(S) ==
  /\ stage' = [c \in Connects |-> IF c \in S THEN "failed" ELSE stage[c]]
  /\ call' = [k \in Calls |-> IF k \in S THEN "failed" ELSE call[k]]
  /\ connecting' = IF S \cap BrowserConnects # {} THEN None ELSE connecting

Waiting(c) == {m.request.by : m \in pending[c]}

\* close() of the transports T: an HTTP transport has nothing to close.
CloseQuietly(T) ==
  /\ process' = [c \in Connects |-> IF c \in T \cap Stdio THEN "killed" ELSE process[c]]
  /\ pending' = [c \in Connects |-> IF c \in T \cap Stdio THEN {} ELSE pending[c]]
  /\ timers' = [c \in Connects |-> IF c \in T \cap Stdio THEN {} ELSE timers[c]]
  /\ Reject({})
Close(T) ==
  /\ process' = [c \in Connects |-> IF c \in T \cap Stdio THEN "killed" ELSE process[c]]
  /\ pending' = [c \in Connects |-> IF c \in T \cap Stdio THEN {} ELSE pending[c]]
  /\ timers' = [c \in Connects |-> IF c \in T \cap Stdio THEN {} ELSE timers[c]]
  /\ Reject(UNION {Waiting(c) : c \in T \cap Stdio})

-----------------------------------------------------------------------------
(***************************************************************************)
(* How connects and calls go on when request m of transport c is settled   *)
(* and has left waiting and running.  An error that the server answers     *)
(* fails a tool call; handshake() and discoverTools() do not look at it.   *)
(***************************************************************************)
Handshaken(c, m, outcome, waiting, running) ==
  /\ m.request.asks = "initialize" /\ outcome # "rejected"
  /\ connections' = [connections EXCEPT ![IdOf[c]] = c]
  /\ replaced' = replaced \cup ({connections[IdOf[c]]} \ {None})
  /\ stage' = [stage EXCEPT ![c] = "discovering"]
  /\ Sends(c, Request(c, "tools/list"), waiting, running)
  /\ UNCHANGED <<process, call, connecting>>

HandshakeFailsOpen(c, m, outcome, waiting, running) ==
  /\ m.request.asks = "initialize" /\ outcome = "rejected"
  /\ pending' = waiting /\ timers' = running
  /\ Reject({c})
  /\ UNCHANGED <<connections, sent, process, replaced>>
HandshakeFails(c, m, outcome, waiting, running) ==
  /\ m.request.asks = "initialize" /\ outcome = "rejected"
  /\ process' = IF c \in Stdio THEN [process EXCEPT ![c] = "killed"] ELSE process
  /\ pending' = [waiting EXCEPT ![c] = {}] /\ timers' = [running EXCEPT ![c] = {}]
  /\ Reject({c})
  /\ UNCHANGED <<connections, sent, replaced>>

\* A connect whose discovery fails has registered its connection all the same.
Discovered(c, m, outcome, waiting, running) ==
  /\ m.request.asks = "tools/list"
  /\ pending' = waiting /\ timers' = running
  /\ IF outcome = "rejected" THEN Reject({c})
     ELSE stage' = [stage EXCEPT ![c] = "connected"] /\ UNCHANGED <<call, connecting>>
  /\ UNCHANGED <<connections, sent, process, replaced>>

Called(c, m, outcome, waiting, running) ==
  /\ m.request.asks = "tools/call"
  /\ pending' = waiting /\ timers' = running
  /\ IF outcome # "result" THEN Reject({m.request.by})
     ELSE call' = [call EXCEPT ![m.request.by] = "ok"] /\ UNCHANGED <<stage, connecting>>
  /\ UNCHANGED <<connections, sent, process, replaced>>

Settles(c, m, outcome, running) ==
  /\ LET waiting == [pending EXCEPT ![c] = @ \ {m}]
     IN  \/ Handshaken(c, m, outcome, waiting, running)
         \/ HandshakeFails(c, m, outcome, waiting, running)
         \/ Discovered(c, m, outcome, waiting, running)
         \/ Called(c, m, outcome, waiting, running)
  /\ UNCHANGED <<mcpToolCallCount, awaited>>

\* A line of the server answers line i of what it was sent.
OnReplyKeepsTimer(c, i, outcome) ==
  /\ c \in Stdio /\ outcome \in {"result", "error"}
  /\ \E m \in pending[c] : m.id = sent[c][i].id /\ Settles(c, m, outcome, timers)
OnReply(c, i, outcome) ==
  /\ c \in Stdio /\ outcome \in {"result", "error"}
  /\ \E m \in pending[c] :
       /\ m.id = sent[c][i].id
       /\ Settles(c, m, outcome, [timers EXCEPT ![c] = @ \ {m.id}])

OnTimeout(c, id) ==
  /\ id \in timers[c]
  /\ \E m \in pending[c] :
       m.id = id /\ Settles(c, m, "rejected", [timers EXCEPT ![c] = @ \ {id}])

FetchEnds(c, outcome) ==
  /\ c \in Http
  /\ \E m \in pending[c] : Settles(c, m, outcome, timers)

-----------------------------------------------------------------------------
(***************************************************************************)
(* connectStdio and connectHttp, as called by ag-mcp.  The spawn of the    *)
(* process waits for an import; what follows does not wait.                *)
(***************************************************************************)
Registered == {i \in Ids : connections[i] # None}
Full == Cardinality(Registered) >= MaxMcpServers

Connect(c) ==
  /\ c \notin BrowserConnects /\ stage[c] = "idle"
  /\ IF Full THEN Reject({c}) /\ UNCHANGED <<sent, pending, timers>>
     ELSE /\ UNCHANGED <<call, connecting>>
          /\ IF c \in Http
             THEN /\ stage' = [stage EXCEPT ![c] = "handshake"]
                  /\ Sends(c, Request(c, "initialize"), pending, timers)
             ELSE /\ stage' = [stage EXCEPT ![c] = "starting"]
                  /\ UNCHANGED <<sent, pending, timers>>
  /\ UNCHANGED <<connections, process, mcpToolCallCount, awaited, replaced>>

Spawn(c) ==
  /\ stage[c] = "starting"
  /\ stage' = [stage EXCEPT ![c] = "handshake"]
  /\ process' = [process EXCEPT ![c] = "alive"]
  /\ Sends(c, Request(c, "initialize"), pending, timers)
  /\ UNCHANGED <<connections, call, mcpToolCallCount, connecting, awaited, replaced>>

Disconnect(i) ==
  /\ connections[i] # None
  /\ connections' = [connections EXCEPT ![i] = None]
  /\ Close({connections[i]})
  /\ UNCHANGED <<sent, mcpToolCallCount, awaited, replaced>>

Dispose ==
  /\ Registered # {}
  /\ connections' = [i \in Ids |-> None]
  /\ Close({connections[i] : i \in Registered})
  /\ UNCHANGED <<sent, mcpToolCallCount, awaited, replaced>>

-----------------------------------------------------------------------------
(***************************************************************************)
(* Tool calls.  One of the browser tools first ensures its connection: one *)
(* that is registered, or the connect made before, or a new one.  The      *)
(* connect made before is kept when it has succeeded.                      *)
(***************************************************************************)
OverLimit == mcpToolCallCount > MaxMcpToolCalls
AtLimit == mcpToolCallCount >= MaxMcpToolCalls

CallTool(k) ==
  LET c == connections[TargetOf[k]]
  IN  /\ IF c = None \/ AtLimit
         THEN /\ call' = [call EXCEPT ![k] = "failed"]
              /\ UNCHANGED <<sent, pending, timers, mcpToolCallCount>>
         ELSE /\ call' = [call EXCEPT ![k] = "waiting"]
              /\ mcpToolCallCount' = mcpToolCallCount + 1
              /\ Sends(c, Request(k, "tools/call"), pending, timers)
      /\ UNCHANGED <<connections, process, stage, connecting, awaited, replaced>>

Call(k) == k \notin BrowserCalls /\ call[k] = "idle" /\ CallTool(k)

Awaits(k, c) ==
  /\ call' = [call EXCEPT ![k] = "connecting"] /\ awaited' = [awaited EXCEPT ![k] = c]
  /\ UNCHANGED <<connections, process, sent, pending, timers, mcpToolCallCount, replaced>>

EnsureNew(k) ==
  \E c \in BrowserConnects :
    /\ stage[c] = "idle"
    /\ IF Full
       THEN /\ Reject({c, k})
            /\ UNCHANGED <<connections, process, sent, pending, timers, mcpToolCallCount,
                           awaited, replaced>>
       ELSE /\ stage' = [stage EXCEPT ![c] = "starting"] /\ connecting' = c
            /\ Awaits(k, c)

EnsureEach(k) ==
  /\ k \in BrowserCalls /\ call[k] = "idle"
  /\ IF connections[BrowserId] # None THEN CallTool(k) ELSE EnsureNew(k)
Ensure(k) ==
  /\ k \in BrowserCalls /\ call[k] = "idle"
  /\ IF connections[BrowserId] # None THEN CallTool(k)
     ELSE IF connecting = None THEN EnsureNew(k)
     ELSE Awaits(k, connecting) /\ UNCHANGED <<stage, connecting>>

Ensured(k) ==
  /\ k \in BrowserCalls /\ call[k] = "connecting"
  /\ \/ stage[awaited[k]] = "connected" /\ CallTool(k)
     \/ /\ stage[awaited[k]] = "failed"
        /\ call' = [call EXCEPT ![k] = "failed"]
        /\ UNCHANGED <<connections, stage, process, sent, pending, timers, mcpToolCallCount,
                       connecting, awaited, replaced>>

-----------------------------------------------------------------------------
Next ==
  \/ \E c \in Connects :
       \/ Connect(c) \/ Spawn(c)
       \/ \E i \in DOMAIN sent[c], outcome \in {"result", "error"} : OnReply(c, i, outcome)
       \/ \E id \in timers[c] : OnTimeout(c, id)
       \/ \E outcome \in {"result", "error", "rejected"} : FetchEnds(c, outcome)
  \/ \E k \in Calls : Call(k) \/ Ensure(k) \/ Ensured(k)
  \/ \E i \in Ids : Disconnect(i)
  \/ Dispose

Spec == Init /\ [][Next]_vars

(***************************************************************************)
(* Imports end, every timer fires that is not cleared, fetches end, and    *)
(* promises wake who awaits them; a server need not answer.  Connects and  *)
(* calls do finitely many things, so one weak fairness serves them all.    *)
(***************************************************************************)
Progress ==
  \/ \E c \in Connects :
       \/ Spawn(c) \/ \E id \in timers[c] : OnTimeout(c, id)
       \/ \E outcome \in {"result", "error", "rejected"} : FetchEnds(c, outcome)
  \/ \E k \in Calls : Ensured(k)

FairSpec == Spec /\ WF_vars(Progress)

-----------------------------------------------------------------------------
\* A request that waits has a timer, a timer has a request that waits, and a transport
\* that is closed has neither: no promise is left behind by the order in which replies,
\* timers and close() come.
PendingTimed ==
  \A c \in Stdio :
    /\ {m.id : m \in pending[c]} = timers[c]
    /\ process[c] # "alive" => pending[c] = {}

\* A reply to an earlier request, late or repeated, is not taken for the answer to one
\* that is waiting now.
NoMistakenReply ==
  \A c \in Stdio : \A i \in DOMAIN sent[c], m \in pending[c] :
    sent[c][i].id = m.id => sent[c][i] = m

\* A server process that lives can be reached: its connect is in the handshake, which
\* registers or closes it, or it is registered.  Only a later connect of the same name
\* makes it unreachable.
NoOrphan ==
  \A c \in Connects :
    process[c] = "alive" =>
      stage[c] = "handshake" \/ connections[IdOf[c]] = c \/ c \in replaced

\* Concurrent calls of the browser tools share one server process.
OneBrowser ==
  \A c, d \in BrowserConnects :
    (stage[c] = "starting" \/ process[c] = "alive")
      /\ (stage[d] = "starting" \/ process[d] = "alive") => c = d

\* Whatever a server does, and whoever disconnects or disposes meanwhile, every connect
\* and every call is settled.
Unsettled ==
  {c \in Connects : stage[c] \in {"starting", "handshake", "discovering"}}
    \cup {k \in Calls : call[k] \in {"connecting", "waiting"}}
EverySettles == Unsettled # {} ~> Unsettled = {}
=============================================================================
