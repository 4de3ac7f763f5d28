--------------------------- MODULE McpClientProofs ---------------------------
(***************************************************************************)
(* Proofs about McpClient: type correctness, the four safety invariants of *)
(* its run, and the safety part of EverySettles, for any number of         *)
(* connections, connects and calls.                                        *)
(*                                                                         *)
(* Requests are numbered in the order in which they are sent, so the       *)
(* number of one that waits tells which it is; the first request of a      *)
(* transport is its handshake and the second its discovery.  A connect is  *)
(* therefore at the stage of the one request that it has in its transport, *)
(* and that is where what it holds is registered, passed on or closed.     *)
(***************************************************************************)
EXTENDS McpClient, SequenceTheorems, TLAPS

Numbered(s, p) ==
  \A c \in Connects :
    /\ \A i \in 1..Len(s[c]) : s[c][i].id = i
    /\ \A m \in p[c] : m.id \in 1..Len(s[c]) /\ s[c][m.id] = m

Timed(p, t) ==
  \A c \in Connects : t[c] = IF c \in Http THEN {} ELSE {m.id : m \in p[c]}

\* A connect is at the stage of its request.
Staged ==
  \A c \in Connects :
    /\ stage[c] \in {"idle", "starting"} => Len(sent[c]) = 0
    /\ stage[c] = "handshake" => Len(sent[c]) = 1
    /\ \A m \in pending[c] :
         /\ m.request.asks = "initialize" =>
              m.id = 1 /\ m.request.by = c /\ stage[c] = "handshake"
         /\ m.request.asks = "tools/list" =>
              m.id = 2 /\ m.request.by = c /\ stage[c] = "discovering"

\* What is registered has had its handshake, and its server is alive.
Reached ==
  \A c \in Connects :
    /\ stage[c] = "starting" => c \in Stdio
    /\ process[c] = "alive" => c \in Stdio
    /\ connections[IdOf[c]] = c =>
         /\ stage[c] \in {"discovering", "connected", "failed"}
         /\ c \in Stdio => process[c] = "alive"

\* The browser tools make one connect at a time, and only while none is registered.
Shared ==
  /\ replaced \cap BrowserConnects = {}
  /\ \A c \in BrowserConnects :
       /\ stage[c] \in {"starting", "handshake", "discovering"} => connecting = c
       /\ stage[c] \in {"starting", "handshake"} => connections[BrowserId] = None

\* Whoever is not settled has a request that waits, or waits for a connect.
Attended ==
  /\ \A c \in Connects :
       /\ stage[c] = "handshake" =>
            \E m \in pending[c] : m.request = Request(c, "initialize")
       /\ stage[c] = "discovering" =>
            \E m \in pending[c] : m.request = Request(c, "tools/list")
  /\ \A k \in Calls :
       /\ call[k] = "waiting" =>
            \E c \in Connects : \E m \in pending[c] : m.request = Request(k, "tools/call")
       /\ call[k] = "connecting" =>
            /\ k \in BrowserCalls /\ awaited[k] \in BrowserConnects
            /\ stage[awaited[k]] # "idle"
  /\ connecting # None => stage[connecting] # "idle"

IInv ==
  /\ TypeOK
  /\ Numbered(sent, pending)
  /\ Timed(pending, timers)
  /\ PendingTimed
  /\ Staged
  /\ Reached
  /\ NoOrphan
  /\ Shared
  /\ Attended

-----------------------------------------------------------------------------
(***************************************************************************)
(* The operators.                                                          *)
(***************************************************************************)

LEMMA InitKeeps == Init => IInv
<1> SUFFICES ASSUME Init PROVE IInv
  OBVIOUS
<1> USE McpAssumption
<1>1. \A c \in Connects : sent[c] = <<>> /\ Len(sent[c]) = 0
  BY DEF Init
<1>2. sent \in [Connects -> Seq(Messages)]
  BY DEF Init
<1>3. TypeOK
  BY <1>2 DEF Init, TypeOK
<1>4. \A c \in Connects : 1..Len(sent[c]) = {}
  BY <1>1
<1>5. Numbered(sent, pending)
  BY <1>4 DEF Init, Numbered
<1>6. PendingTimed /\ Timed(pending, timers)
  BY DEF Init, PendingTimed, Timed, Stdio
<1>7. Staged
  BY <1>1 DEF Init, Staged
<1>8. Reached /\ NoOrphan /\ Shared /\ Attended
  BY DEF Init, Reached, NoOrphan, Shared, Attended
<1> QED BY <1>3, <1>5, <1>6, <1>7, <1>8 DEF IInv

\* A request that is sent is the last of its transport, and nothing that waits has its
\* number.
LEMMA SendsAppends ==
  ASSUME NEW c \in Connects, NEW r \in Requests,
         NEW waiting \in [Connects -> SUBSET Messages],
         NEW running \in [Connects -> SUBSET Nat],
         sent \in [Connects -> Seq(Messages)],
         Numbered(sent, waiting), Timed(waiting, running),
         Sends(c, r, waiting, running)
  PROVE  /\ [id |-> Len(sent[c]) + 1, request |-> r] \in Messages
         /\ sent' \in [Connects -> Seq(Messages)]
         /\ Len(sent'[c]) = Len(sent[c]) + 1
         /\ \A d \in Connects \ {c} : sent'[d] = sent[d]
         /\ pending' = [waiting EXCEPT
                          ![c] = @ \cup {[id |-> Len(sent[c]) + 1, request |-> r]}]
         /\ pending' \in [Connects -> SUBSET Messages]
         /\ timers' \in [Connects -> SUBSET Nat]
         /\ Numbered(sent', pending')
         /\ Timed(pending', timers')
<1> DEFINE m == [id |-> Len(sent[c]) + 1, request |-> r]
<1>1. sent[c] \in Seq(Messages) /\ Len(sent[c]) \in Nat
  BY LenProperties
<1>2. m \in Messages /\ m.id = Len(sent[c]) + 1 /\ m.request = r
  BY <1>1 DEF Messages
<1>3. /\ sent' = [sent EXCEPT ![c] = Append(sent[c], m)]
      /\ pending' = [waiting EXCEPT ![c] = {n \in waiting[c] : n.id # m.id} \cup {m}]
      /\ timers' = IF c \in Http THEN running
                   ELSE [running EXCEPT ![c] = running[c] \cup {m.id}]
  BY DEF Sends, NextId
<1>4. /\ Append(sent[c], m) \in Seq(Messages)
      /\ Len(Append(sent[c], m)) = Len(sent[c]) + 1
      /\ \A i \in 1..Len(sent[c]) : Append(sent[c], m)[i] = sent[c][i]
      /\ Append(sent[c], m)[Len(sent[c]) + 1] = m
  BY <1>1, <1>2, AppendProperties
<1>5. /\ sent' \in [Connects -> Seq(Messages)]
      /\ Len(sent'[c]) = Len(sent[c]) + 1
      /\ \A d \in Connects \ {c} : sent'[d] = sent[d]
      /\ sent'[c] = Append(sent[c], m)
  BY <1>3, <1>4
<1>6. \A n \in waiting[c] : n.id # m.id
  BY <1>1, <1>2 DEF Numbered
<1>7. pending' = [waiting EXCEPT ![c] = @ \cup {m}]
  <2>1. {n \in waiting[c] : n.id # m.id} = waiting[c]
    BY <1>6
  <2> QED BY <1>3, <2>1
<1>8. pending' \in [Connects -> SUBSET Messages]
  BY <1>7, <1>2
<1>9. timers' \in [Connects -> SUBSET Nat]
  BY <1>1, <1>2, <1>3
<1>10. Numbered(sent', pending')
  <2> SUFFICES ASSUME NEW d \in Connects
               PROVE  /\ \A i \in 1..Len(sent'[d]) : sent'[d][i].id = i
                      /\ \A n \in pending'[d] :
                           n.id \in 1..Len(sent'[d]) /\ sent'[d][n.id] = n
    BY DEF Numbered
  <2>1. CASE d # c
    <3>1. sent'[d] = sent[d] /\ pending'[d] = waiting[d]
      BY <2>1, <1>5, <1>7
    <3> QED BY <3>1 DEF Numbered
  <2>2. CASE d = c
    <3>1. pending'[c] = waiting[c] \cup {m}
      BY <1>7
    <3>2. ASSUME NEW i \in 1..Len(sent'[c]) PROVE sent'[c][i].id = i
      <4>1. CASE i = Len(sent[c]) + 1
        BY <4>1, <1>2, <1>4, <1>5
      <4>2. CASE i \in 1..Len(sent[c])
        BY <4>2, <1>4, <1>5 DEF Numbered
      <4> QED BY <4>1, <4>2, <1>1, <1>5
    <3>3. ASSUME NEW n \in pending'[c]
          PROVE  n.id \in 1..Len(sent'[c]) /\ sent'[c][n.id] = n
      <4>1. CASE n = m
        BY <4>1, <1>1, <1>2, <1>4, <1>5
      <4>2. CASE n \in waiting[c]
        BY <4>2, <1>1, <1>4, <1>5 DEF Numbered
      <4> QED BY <4>1, <4>2, <3>1
    <3> QED BY <2>2, <3>2, <3>3
  <2> QED BY <2>1, <2>2
<1>11. Timed(pending', timers')
  <2> SUFFICES ASSUME NEW d \in Connects
               PROVE  timers'[d] = IF d \in Http THEN {} ELSE {n.id : n \in pending'[d]}
    BY DEF Timed
  <2>1. running[d] = IF d \in Http THEN {} ELSE {n.id : n \in waiting[d]}
    BY DEF Timed
  <2>2. CASE d # c \/ c \in Http
    BY <2>1, <2>2, <1>3, <1>7
  <2>3. CASE d = c /\ c \notin Http
    <3>1. pending'[d] = waiting[d] \cup {m} /\ timers'[d] = running[d] \cup {m.id}
      BY <2>3, <1>3, <1>7
    <3> HIDE DEF m
    <3> QED BY <3>1, <2>1, <2>3
  <2> QED BY <2>2, <2>3
<1> QED BY <1>2, <1>5, <1>7, <1>8, <1>9, <1>10, <1>11

\* What is left when request m of transport c is settled is numbered and timed as before.
LEMMA SettledLeaves ==
  ASSUME IInv, NEW c \in Connects, NEW m \in pending[c],
         NEW running,
         running = IF c \in Http THEN timers ELSE [timers EXCEPT ![c] = @ \ {m.id}]
  PROVE  /\ [pending EXCEPT ![c] = @ \ {m}] \in [Connects -> SUBSET Messages]
         /\ running \in [Connects -> SUBSET Nat]
         /\ Numbered(sent, [pending EXCEPT ![c] = @ \ {m}])
         /\ Timed([pending EXCEPT ![c] = @ \ {m}], running)
<1> DEFINE waiting == [pending EXCEPT ![c] = @ \ {m}]
<1>1. waiting \in [Connects -> SUBSET Messages] /\ running \in [Connects -> SUBSET Nat]
  BY DEF IInv, TypeOK
<1>2. \A d \in Connects : waiting[d] = IF d = c THEN pending[c] \ {m} ELSE pending[d]
  BY DEF IInv, TypeOK
<1>3. Numbered(sent, waiting)
  BY <1>2 DEF IInv, Numbered
<1>4. \A n \in pending[c] : n.id = m.id => n = m
  BY DEF IInv, Numbered
<1>5. Timed(waiting, running)
  <2> SUFFICES ASSUME NEW d \in Connects
               PROVE  running[d] = IF d \in Http THEN {} ELSE {n.id : n \in waiting[d]}
    BY DEF Timed
  <2>1. timers[d] = IF d \in Http THEN {} ELSE {n.id : n \in pending[d]}
    BY DEF IInv, Timed
  <2>2. CASE d # c \/ c \in Http
    BY <2>1, <2>2, <1>2 DEF IInv, TypeOK
  <2>3. CASE d = c /\ c \notin Http
    <3>1. running[c] = timers[c] \ {m.id}
      BY <2>3 DEF IInv, TypeOK
    <3>2. waiting[c] = pending[c] \ {m}
      BY <1>2
    <3> HIDE DEF waiting
    <3>3. {n.id : n \in waiting[c]} = {n.id : n \in pending[c]} \ {m.id}
      BY <3>2, <1>4
    <3> QED BY <3>1, <3>3, <2>1, <2>3
  <2> QED BY <2>2, <2>3
<1> QED BY <1>1, <1>3, <1>5

\* A request that waits is what its number says, and so is the only handshake or the only
\* discovery of its transport.
LEMMA RequestOfStage ==
  ASSUME IInv, NEW c \in Connects, NEW m \in pending[c]
  PROVE  /\ m \in Messages
         /\ \/ m.request \in [by : Connects, asks : {"initialize", "tools/list"}]
            \/ m.request \in [by : Calls, asks : {"tools/call"}]
         /\ m.request.asks = "initialize" =>
              /\ m.request = Request(c, "initialize")
              /\ stage[c] = "handshake" /\ pending[c] = {m}
              /\ connections[IdOf[c]] # c
         /\ m.request.asks = "tools/list" =>
              /\ m.request = Request(c, "tools/list")
              /\ stage[c] = "discovering"
              /\ \A n \in pending[c] : n.request.asks = "tools/list" => n = m
         /\ c \in Stdio => process[c] = "alive"
<1>1. m \in Messages
  BY DEF IInv, TypeOK
<1>2. \/ m.request \in [by : Connects, asks : {"initialize", "tools/list"}]
      \/ m.request \in [by : Calls, asks : {"tools/call"}]
  BY <1>1 DEF Messages, Requests
<1>3. /\ m.request.asks = "initialize" =>
           m.id = 1 /\ m.request.by = c /\ stage[c] = "handshake" /\ Len(sent[c]) = 1
      /\ m.request.asks = "tools/list" =>
           m.id = 2 /\ m.request.by = c /\ stage[c] = "discovering"
  BY DEF IInv, Staged
<1>4. \A n \in pending[c] : n.id \in 1..Len(sent[c]) /\ sent[c][n.id] = n
  BY DEF IInv, Numbered
<1>5. ASSUME m.request.asks = "initialize"
      PROVE  /\ m.request = Request(c, "initialize") /\ pending[c] = {m}
             /\ stage[c] = "handshake" /\ connections[IdOf[c]] # c
  <2>1. m.request = Request(c, "initialize")
    BY <1>2, <1>3, <1>5 DEF Request
  <2>2. \A n \in pending[c] : n.id = 1
    BY <1>3, <1>4, <1>5
  <2>3. pending[c] = {m}
    BY <2>2, <1>4
  <2>4. connections[IdOf[c]] # c
    BY <1>3, <1>5 DEF IInv, Reached
  <2> QED BY <1>3, <1>5, <2>1, <2>3, <2>4
<1>6. ASSUME m.request.asks = "tools/list"
      PROVE  /\ m.request = Request(c, "tools/list") /\ stage[c] = "discovering"
             /\ \A n \in pending[c] : n.request.asks = "tools/list" => n = m
  <2>1. m.request = Request(c, "tools/list")
    BY <1>2, <1>3, <1>6 DEF Request
  <2>2. \A n \in pending[c] : n.request.asks = "tools/list" => n.id = 2
    BY DEF IInv, Staged
  <2> QED BY <1>3, <1>4, <1>6, <2>1, <2>2
<1>7. c \in Stdio => process[c] = "alive"
  BY DEF IInv, PendingTimed
<1> QED BY <1>1, <1>2, <1>5, <1>6, <1>7

\* Connects and calls are not confused when one of them is rejected.
LEMMA RejectedConnect ==
  ASSUME TypeOK, NEW c \in Connects, Reject({c})
  PROVE  /\ stage' = [stage EXCEPT ![c] = "failed"]
         /\ call' = call
         /\ connecting' = IF c \in BrowserConnects THEN None ELSE connecting
<1>1. \A k \in Calls : k # c
  BY McpAssumption
<1>2. call' = [k \in Calls |-> call[k]]
  BY <1>1 DEF Reject
<1>3. call' = call
  BY <1>2 DEF TypeOK
<1>4. stage' = [stage EXCEPT ![c] = "failed"]
  BY DEF Reject, TypeOK
<1> QED BY <1>3, <1>4 DEF Reject

LEMMA RejectedCall ==
  ASSUME TypeOK, NEW k \in Calls, Reject({k})
  PROVE  /\ stage' = stage
         /\ call' = [call EXCEPT ![k] = "failed"]
         /\ connecting' = connecting
<1>1. \A c \in Connects : k # c
  BY McpAssumption
<1>2. stage' = [c \in Connects |-> stage[c]]
  BY <1>1 DEF Reject
<1>3. stage' = stage
  BY <1>2 DEF TypeOK
<1>4. call' = [call EXCEPT ![k] = "failed"]
  BY DEF Reject, TypeOK
<1>5. connecting' = connecting
  BY <1>1, McpAssumption DEF Reject
<1> QED BY <1>3, <1>4, <1>5

\* The parts of the invariant about transports that a step leaves alone.
LEMMA TransportsStay ==
  IInv /\ UNCHANGED <<sent, pending, timers, process>> =>
    Numbered(sent, pending)' /\ Timed(pending, timers)' /\ PendingTimed'
<1> SUFFICES ASSUME IInv, UNCHANGED <<sent, pending, timers, process>>
             PROVE  Numbered(sent, pending)' /\ Timed(pending, timers)' /\ PendingTimed'
  OBVIOUS
<1>1. Numbered(sent, pending)'
  BY DEF IInv, Numbered
<1>2. Timed(pending, timers)'
  BY DEF IInv, Timed
<1>3. PendingTimed'
  BY DEF IInv, PendingTimed
<1> QED BY <1>1, <1>2, <1>3

-----------------------------------------------------------------------------
(***************************************************************************)
(* How connects and calls go on.                                           *)
(***************************************************************************)

LEMMA HandshakenKeeps ==
  ASSUME IInv, NEW c \in Connects, NEW m \in pending[c], NEW outcome, NEW running,
         running = IF c \in Http THEN timers ELSE [timers EXCEPT ![c] = @ \ {m.id}],
         Handshaken(c, m, outcome, [pending EXCEPT ![c] = @ \ {m}], running),
         UNCHANGED <<mcpToolCallCount, awaited>>
  PROVE  IInv'
<1> USE McpAssumption
<1> DEFINE waiting == [pending EXCEPT ![c] = @ \ {m}]
<1> DEFINE n == [id |-> Len(sent[c]) + 1, request |-> Request(c, "tools/list")]
<1>1. /\ waiting \in [Connects -> SUBSET Messages] /\ running \in [Connects -> SUBSET Nat]
      /\ Numbered(sent, waiting) /\ Timed(waiting, running)
  BY SettledLeaves
<1>2. /\ m.request.asks = "initialize"
      /\ connections' = [connections EXCEPT ![IdOf[c]] = c]
      /\ replaced' = replaced \cup ({connections[IdOf[c]]} \ {None})
      /\ stage' = [stage EXCEPT ![c] = "discovering"]
      /\ Sends(c, Request(c, "tools/list"), waiting, running)
      /\ UNCHANGED <<process, call, connecting, mcpToolCallCount, awaited>>
  BY DEF Handshaken
<1>3. /\ stage[c] = "handshake" /\ pending[c] = {m} /\ connections[IdOf[c]] # c
      /\ c \in Stdio => process[c] = "alive"
      /\ m.request = Request(c, "initialize")
  BY <1>2, RequestOfStage
<1>4. Request(c, "tools/list") \in Requests
  BY DEF Request, Requests
<1>5. /\ n \in Messages
      /\ sent' \in [Connects -> Seq(Messages)]
      /\ Len(sent'[c]) = Len(sent[c]) + 1
      /\ \A d \in Connects \ {c} : sent'[d] = sent[d]
      /\ pending' = [waiting EXCEPT ![c] = @ \cup {n}]
      /\ pending' \in [Connects -> SUBSET Messages]
      /\ timers' \in [Connects -> SUBSET Nat]
      /\ Numbered(sent', pending') /\ Timed(pending', timers')
  <2>1. sent \in [Connects -> Seq(Messages)]
    BY DEF IInv, TypeOK
  <2> QED BY <1>1, <1>2, <1>4, <2>1, SendsAppends
<1>6. \A d \in Connects : pending'[d] = IF d = c THEN {n} ELSE pending[d]
  <2>0. pending \in [Connects -> SUBSET Messages]
    BY DEF IInv, TypeOK
  <2>1. ASSUME NEW d \in Connects
        PROVE  waiting[d] = IF d = c THEN {} ELSE pending[d]
    <3>1. CASE d = c
      BY <2>0, <1>3, <3>1
    <3>2. CASE d # c
      BY <2>0, <3>2
    <3> QED BY <3>1, <3>2
  <2> HIDE DEF waiting, n
  <2>2. pending'[c] = {n}
    BY <1>1, <1>5, <2>1
  <2>3. \A d \in Connects \ {c} : pending'[d] = pending[d]
    BY <1>1, <1>5, <2>1
  <2> QED BY <2>2, <2>3
<1>7. Len(sent[c]) = 1 /\ n.id = 2 /\ n.request = Request(c, "tools/list")
  <2>1. Len(sent[c]) = 1
    BY <1>3 DEF IInv, Staged
  <2> QED BY <2>1
<1>8. \A d \in Connects : stage'[d] = IF d = c THEN "discovering" ELSE stage[d]
  BY <1>2 DEF IInv, TypeOK
<1>9. /\ \A i \in Ids : connections'[i] = IF i = IdOf[c] THEN c ELSE connections[i]
      /\ IdOf[c] \in Ids
      /\ connections[IdOf[c]] \in Connects \cup {None}
      /\ connections[IdOf[c]] # None => IdOf[connections[IdOf[c]]] = IdOf[c]
  BY <1>2 DEF IInv, TypeOK
<1> HIDE DEF waiting, n
<1>10. TypeOK'
  <2>1. connections' \in [Ids -> Connects \cup {None}] /\ replaced' \subseteq Connects
    BY <1>2, <1>9 DEF IInv, TypeOK
  <2>2. \A i \in Ids : connections'[i] # None => IdOf[connections'[i]] = i
    BY <1>9 DEF IInv, TypeOK
  <2> QED BY <1>2, <1>5, <2>1, <2>2 DEF IInv, TypeOK
<1>11. PendingTimed'
  <2> SUFFICES ASSUME NEW d \in Stdio
               PROVE  /\ {l.id : l \in pending'[d]} = timers'[d]
                      /\ process'[d] # "alive" => pending'[d] = {}
    BY DEF PendingTimed
  <2>1. d \in Connects /\ d \notin Http
    BY DEF Stdio
  <2>2. {l.id : l \in pending'[d]} = timers'[d]
    BY <1>5, <2>1 DEF Timed
  <2>3. process'[d] # "alive" => pending'[d] = {}
    BY <1>2, <1>3, <1>6, <2>1 DEF IInv, PendingTimed
  <2> QED BY <2>2, <2>3
<1>12. Staged'
  <2> SUFFICES ASSUME NEW d \in Connects
               PROVE  /\ stage'[d] \in {"idle", "starting"} => Len(sent'[d]) = 0
                      /\ stage'[d] = "handshake" => Len(sent'[d]) = 1
                      /\ \A l \in pending'[d] :
                           /\ l.request.asks = "initialize" =>
                                l.id = 1 /\ l.request.by = d /\ stage'[d] = "handshake"
                           /\ l.request.asks = "tools/list" =>
                                l.id = 2 /\ l.request.by = d /\ stage'[d] = "discovering"
    BY DEF Staged
  <2>1. CASE d = c
    BY <2>1, <1>6, <1>7, <1>8 DEF Request
  <2>2. CASE d # c
    <3>1. sent'[d] = sent[d] /\ pending'[d] = pending[d] /\ stage'[d] = stage[d]
      BY <2>2, <1>5, <1>6, <1>8
    <3> QED BY <3>1 DEF IInv, Staged
  <2> QED BY <2>1, <2>2
<1>13. Reached'
  BY <1>2, <1>3, <1>8, <1>9 DEF IInv, Reached
<1>14. NoOrphan'
  BY <1>2, <1>3, <1>8, <1>9 DEF IInv, NoOrphan
<1>15. Shared'
  <2>1. \A d \in BrowserConnects : d \in Connects /\ IdOf[d] = BrowserId
    OBVIOUS
  <2>2. connections[IdOf[c]] \notin BrowserConnects
    BY <2>1, <1>3, <1>9 DEF IInv, Shared
  <2>3. \A d \in BrowserConnects :
          stage'[d] \in {"starting", "handshake", "discovering"} => connecting' = d
    BY <2>1, <1>2, <1>3, <1>8 DEF IInv, Shared
  <2>4. \A d \in BrowserConnects :
          stage'[d] \in {"starting", "handshake"} => connections'[BrowserId] = None
    BY <2>1, <1>3, <1>8, <1>9 DEF IInv, Shared
  <2> QED BY <1>2, <2>2, <2>3, <2>4 DEF IInv, Shared
<1>16. Attended'
  <2>1. \A d \in Connects :
          /\ stage'[d] = "handshake" =>
               \E l \in pending'[d] : l.request = Request(d, "initialize")
          /\ stage'[d] = "discovering" =>
               \E l \in pending'[d] : l.request = Request(d, "tools/list")
    BY <1>6, <1>7, <1>8 DEF IInv, Attended
  <2>2. ASSUME NEW k \in Calls, call'[k] = "waiting"
        PROVE  \E d \in Connects : \E l \in pending'[d] : l.request = Request(k, "tools/call")
    <3>1. PICK d \in Connects : \E l \in pending[d] : l.request = Request(k, "tools/call")
      BY <1>2, <2>2 DEF IInv, Attended
    <3>2. d # c
      BY <1>3, <3>1 DEF Request
    <3> QED BY <1>6, <3>1, <3>2
  <2>3. \A k \in Calls : call'[k] = "connecting" =>
            /\ k \in BrowserCalls /\ awaited'[k] \in BrowserConnects
            /\ stage'[awaited'[k]] # "idle"
    BY <1>2, <1>8 DEF IInv, Attended
  <2>4. connecting' # None => stage'[connecting'] # "idle"
    BY <1>2, <1>8 DEF IInv, TypeOK, Attended
  <2> QED BY <2>1, <2>2, <2>3, <2>4 DEF Attended
<1> QED BY <1>5, <1>10, <1>11, <1>12, <1>13, <1>14, <1>15, <1>16 DEF IInv

LEMMA HandshakeFailsKeeps ==
  ASSUME IInv, NEW c \in Connects, NEW m \in pending[c], NEW outcome, NEW running,
         running = IF c \in Http THEN timers ELSE [timers EXCEPT ![c] = @ \ {m.id}],
         HandshakeFails(c, m, outcome, [pending EXCEPT ![c] = @ \ {m}], running),
         UNCHANGED <<mcpToolCallCount, awaited>>
  PROVE  IInv'
<1> USE McpAssumption
<1> DEFINE waiting == [pending EXCEPT ![c] = @ \ {m}]
<1>1. /\ waiting \in [Connects -> SUBSET Messages] /\ running \in [Connects -> SUBSET Nat]
      /\ Numbered(sent, waiting) /\ Timed(waiting, running)
  BY SettledLeaves
<1>2. /\ m.request.asks = "initialize"
      /\ process' = IF c \in Stdio THEN [process EXCEPT ![c] = "killed"] ELSE process
      /\ pending' = [waiting EXCEPT ![c] = {}] /\ timers' = [running EXCEPT ![c] = {}]
      /\ stage' = [stage EXCEPT ![c] = "failed"]
      /\ call' = call
      /\ connecting' = IF c \in BrowserConnects THEN None ELSE connecting
      /\ UNCHANGED <<connections, sent, replaced, mcpToolCallCount, awaited>>
  BY RejectedConnect DEF HandshakeFails, IInv
<1>3. /\ stage[c] = "handshake" /\ pending[c] = {m} /\ connections[IdOf[c]] # c
      /\ m.request = Request(c, "initialize")
  BY <1>2, RequestOfStage
<1>4. \A d \in Connects : pending'[d] = IF d = c THEN {} ELSE pending[d]
  BY <1>2, <1>3 DEF IInv, TypeOK
<1>5. /\ pending' \in [Connects -> SUBSET Messages] /\ timers' \in [Connects -> SUBSET Nat]
      /\ Numbered(sent', pending') /\ Timed(pending', timers')
  <2>1. pending' \in [Connects -> SUBSET Messages] /\ timers' \in [Connects -> SUBSET Nat]
    BY <1>1, <1>2
  <2>2. Numbered(sent', pending')
    <3> SUFFICES ASSUME NEW d \in Connects
                 PROVE  /\ \A i \in 1..Len(sent[d]) : sent[d][i].id = i
                        /\ \A l \in pending'[d] :
                             l.id \in 1..Len(sent[d]) /\ sent[d][l.id] = l
      BY <1>2 DEF Numbered
    <3>1. \A l \in pending'[d] : l \in pending[d]
      BY <1>4
    <3> QED BY <3>1 DEF IInv, Numbered
  <2>3. Timed(pending', timers')
    <3> SUFFICES ASSUME NEW d \in Connects
                 PROVE  timers'[d] = IF d \in Http THEN {} ELSE {l.id : l \in pending'[d]}
      BY DEF Timed
    <3>1. CASE d = c
      <4>1. timers'[d] = {} /\ pending'[d] = {}
        BY <3>1, <1>1, <1>2, <1>4
      <4> QED BY <4>1
    <3>2. CASE d # c
      <4>1. timers'[d] = timers[d] /\ pending'[d] = pending[d]
        BY <3>2, <1>1, <1>2, <1>4 DEF IInv, TypeOK
      <4> QED BY <4>1 DEF IInv, Timed
    <3> QED BY <3>1, <3>2
  <2> QED BY <2>1, <2>2, <2>3
<1>6. \A d \in Connects : stage'[d] = IF d = c THEN "failed" ELSE stage[d]
  BY <1>2 DEF IInv, TypeOK
<1>7. \A d \in Connects : process'[d] = IF d = c /\ c \in Stdio THEN "killed" ELSE process[d]
  BY <1>2 DEF IInv, TypeOK
<1> HIDE DEF waiting
<1>10. TypeOK'
  BY <1>2, <1>5 DEF IInv, TypeOK
<1>11. PendingTimed'
  <2> SUFFICES ASSUME NEW d \in Stdio
               PROVE  /\ {l.id : l \in pending'[d]} = timers'[d]
                      /\ process'[d] # "alive" => pending'[d] = {}
    BY DEF PendingTimed
  <2>1. d \in Connects /\ d \notin Http
    BY DEF Stdio
  <2>2. {l.id : l \in pending'[d]} = timers'[d]
    BY <1>5, <2>1 DEF Timed
  <2>3. process'[d] # "alive" => pending'[d] = {}
    BY <1>4, <1>7, <2>1 DEF IInv, PendingTimed
  <2> QED BY <2>2, <2>3
<1>12. Staged'
  BY <1>2, <1>4, <1>6 DEF IInv, Staged
<1>13. Reached'
  BY <1>2, <1>3, <1>6, <1>7 DEF IInv, Reached
<1>14. NoOrphan'
  BY <1>2, <1>3, <1>6, <1>7 DEF IInv, Reached, NoOrphan
<1>15. Shared'
  BY <1>2, <1>3, <1>6 DEF IInv, Shared
<1>16. Attended'
  <2>1. \A d \in Connects :
          /\ stage'[d] = "handshake" =>
               \E l \in pending'[d] : l.request = Request(d, "initialize")
          /\ stage'[d] = "discovering" =>
               \E l \in pending'[d] : l.request = Request(d, "tools/list")
    BY <1>4, <1>6 DEF IInv, Attended
  <2>2. ASSUME NEW k \in Calls, call'[k] = "waiting"
        PROVE  \E d \in Connects : \E l \in pending'[d] : l.request = Request(k, "tools/call")
    <3>1. PICK d \in Connects : \E l \in pending[d] : l.request = Request(k, "tools/call")
      BY <1>2, <2>2 DEF IInv, Attended
    <3>2. d # c
      BY <1>3, <3>1 DEF Request
    <3> QED BY <1>4, <3>1, <3>2
  <2>3. \A k \in Calls : call'[k] = "connecting" =>
            /\ k \in BrowserCalls /\ awaited'[k] \in BrowserConnects
            /\ stage'[awaited'[k]] # "idle"
    BY <1>2, <1>6 DEF IInv, Attended
  <2>4. connecting' # None => stage'[connecting'] # "idle"
    BY <1>2, <1>6 DEF IInv, TypeOK, Attended
  <2> QED BY <2>1, <2>2, <2>3, <2>4 DEF Attended
<1> QED BY <1>5, <1>10, <1>11, <1>12, <1>13, <1>14, <1>15, <1>16 DEF IInv

LEMMA DiscoveredKeeps ==
  ASSUME IInv, NEW c \in Connects, NEW m \in pending[c], NEW outcome, NEW running,
         running = IF c \in Http THEN timers ELSE [timers EXCEPT ![c] = @ \ {m.id}],
         Discovered(c, m, outcome, [pending EXCEPT ![c] = @ \ {m}], running),
         UNCHANGED <<mcpToolCallCount, awaited>>
  PROVE  IInv'
<1> USE McpAssumption
<1> DEFINE waiting == [pending EXCEPT ![c] = @ \ {m}]
<1>1. /\ waiting \in [Connects -> SUBSET Messages] /\ running \in [Connects -> SUBSET Nat]
      /\ Numbered(sent, waiting) /\ Timed(waiting, running)
  BY SettledLeaves
<1>2. /\ m.request.asks = "tools/list"
      /\ pending' = waiting /\ timers' = running
      /\ \/ /\ stage' = [stage EXCEPT ![c] = "failed"]
            /\ connecting' = IF c \in BrowserConnects THEN None ELSE connecting
         \/ stage' = [stage EXCEPT ![c] = "connected"] /\ connecting' = connecting
      /\ UNCHANGED <<connections, sent, process, call, replaced, mcpToolCallCount, awaited>>
  BY RejectedConnect DEF Discovered, IInv
<1>3. /\ stage[c] = "discovering" /\ m.request = Request(c, "tools/list")
      /\ \A n \in pending[c] : n.request.asks = "tools/list" => n = m
      /\ c \in Stdio => process[c] = "alive"
  BY <1>2, RequestOfStage
<1>4. \A d \in Connects : pending'[d] = IF d = c THEN pending[d] \ {m} ELSE pending[d]
  <2>1. pending \in [Connects -> SUBSET Messages]
    BY DEF IInv, TypeOK
  <2> QED BY <1>2, <2>1
<1>5. /\ pending' \in [Connects -> SUBSET Messages] /\ timers' \in [Connects -> SUBSET Nat]
      /\ Numbered(sent', pending') /\ Timed(pending', timers')
  BY <1>1, <1>2
<1>6. /\ \A d \in Connects \ {c} : stage'[d] = stage[d]
      /\ stage'[c] \in {"failed", "connected"}
      /\ connecting' # connecting => c \in BrowserConnects /\ connecting' = None
  BY <1>2 DEF IInv, TypeOK
<1> HIDE DEF waiting
<1>10. TypeOK'
  BY <1>2, <1>5 DEF IInv, TypeOK
<1>11. PendingTimed'
  <2> SUFFICES ASSUME NEW d \in Stdio
               PROVE  /\ {l.id : l \in pending'[d]} = timers'[d]
                      /\ process'[d] # "alive" => pending'[d] = {}
    BY DEF PendingTimed
  <2>1. d \in Connects /\ d \notin Http
    BY DEF Stdio
  <2>2. {l.id : l \in pending'[d]} = timers'[d]
    BY <1>5, <2>1 DEF Timed
  <2>3. process'[d] # "alive" => pending'[d] = {}
    BY <1>2, <1>4, <2>1 DEF IInv, PendingTimed
  <2> QED BY <2>2, <2>3
<1>12. Staged'
  <2> SUFFICES ASSUME NEW d \in Connects
               PROVE  /\ stage'[d] \in {"idle", "starting"} => Len(sent'[d]) = 0
                      /\ stage'[d] = "handshake" => Len(sent'[d]) = 1
                      /\ \A l \in pending'[d] :
                           /\ l.request.asks = "initialize" =>
                                l.id = 1 /\ l.request.by = d /\ stage'[d] = "handshake"
                           /\ l.request.asks = "tools/list" =>
                                l.id = 2 /\ l.request.by = d /\ stage'[d] = "discovering"
    BY DEF Staged
  <2>1. CASE d = c
    <3>1. ASSUME NEW l \in pending'[c]
          PROVE  l.request.asks # "initialize" /\ l.request.asks # "tools/list"
      <4>1. l \in pending[c] /\ l # m
        BY <1>4
      <4> QED BY <4>1, <1>3, RequestOfStage
    <3> QED BY <2>1, <3>1, <1>6
  <2>2. CASE d # c
    <3>1. sent'[d] = sent[d] /\ pending'[d] = pending[d] /\ stage'[d] = stage[d]
      BY <2>2, <1>2, <1>4, <1>6
    <3> QED BY <3>1 DEF IInv, Staged
  <2> QED BY <2>1, <2>2
<1>13. Reached'
  BY <1>2, <1>3, <1>6 DEF IInv, Reached
<1>14. NoOrphan'
  BY <1>2, <1>3, <1>6 DEF IInv, NoOrphan
<1>15. Shared'
  <2>1. c \in BrowserConnects => \A d \in BrowserConnects \ {c} :
          stage'[d] \notin {"starting", "handshake", "discovering"}
    BY <1>3, <1>6 DEF IInv, Shared
  <2> QED BY <1>2, <1>3, <1>6, <2>1 DEF IInv, Shared
<1>16. Attended'
  <2>1. \A d \in Connects :
          /\ stage'[d] = "handshake" =>
               \E l \in pending'[d] : l.request = Request(d, "initialize")
          /\ stage'[d] = "discovering" =>
               \E l \in pending'[d] : l.request = Request(d, "tools/list")
    BY <1>4, <1>6 DEF IInv, Attended
  <2>2. ASSUME NEW k \in Calls, call'[k] = "waiting"
        PROVE  \E d \in Connects : \E l \in pending'[d] : l.request = Request(k, "tools/call")
    <3>1. PICK d \in Connects : \E l \in pending[d] : l.request = Request(k, "tools/call")
      BY <1>2, <2>2 DEF IInv, Attended
    <3>2. PICK l \in pending[d] : l.request = Request(k, "tools/call")
      BY <3>1
    <3>3. l # m
      BY <1>3, <3>2 DEF Request
    <3> QED BY <1>4, <3>2, <3>3
  <2>3. \A k \in Calls : call'[k] = "connecting" =>
            /\ k \in BrowserCalls /\ awaited'[k] \in BrowserConnects
            /\ stage'[awaited'[k]] # "idle"
    BY <1>2, <1>6 DEF IInv, Attended
  <2>4. connecting' # None => stage'[connecting'] # "idle"
    BY <1>6 DEF IInv, TypeOK, Attended
  <2> QED BY <2>1, <2>2, <2>3, <2>4 DEF Attended
<1> QED BY <1>5, <1>10, <1>11, <1>12, <1>13, <1>14, <1>15, <1>16 DEF IInv

LEMMA CalledKeeps ==
  ASSUME IInv, NEW c \in Connects, NEW m \in pending[c], NEW outcome, NEW running,
         running = IF c \in Http THEN timers ELSE [timers EXCEPT ![c] = @ \ {m.id}],
         Called(c, m, outcome, [pending EXCEPT ![c] = @ \ {m}], running),
         UNCHANGED <<mcpToolCallCount, awaited>>
  PROVE  IInv'
<1> USE McpAssumption
<1> DEFINE waiting == [pending EXCEPT ![c] = @ \ {m}]
<1>1. /\ waiting \in [Connects -> SUBSET Messages] /\ running \in [Connects -> SUBSET Nat]
      /\ Numbered(sent, waiting) /\ Timed(waiting, running)
  BY SettledLeaves
<1>2. m.request.asks = "tools/call" /\ m.request.by \in Calls
  BY RequestOfStage DEF Called
<1>3. /\ pending' = waiting /\ timers' = running
      /\ \/ call' = [call EXCEPT ![m.request.by] = "failed"]
         \/ call' = [call EXCEPT ![m.request.by] = "ok"]
      /\ UNCHANGED <<connections, stage, sent, process, connecting, replaced,
                     mcpToolCallCount, awaited>>
  BY <1>2, RejectedCall DEF Called, IInv
<1>4. \A d \in Connects : pending'[d] = IF d = c THEN pending[d] \ {m} ELSE pending[d]
  BY <1>3 DEF IInv, TypeOK
<1>5. /\ pending' \in [Connects -> SUBSET Messages] /\ timers' \in [Connects -> SUBSET Nat]
      /\ Numbered(sent', pending') /\ Timed(pending', timers')
  BY <1>1, <1>3
<1>6. /\ call'[m.request.by] \in {"failed", "ok"}
      /\ \A k \in Calls \ {m.request.by} : call'[k] = call[k]
      /\ call' \in [Calls -> {"idle", "connecting", "waiting", "ok", "failed"}]
  <2>1. PICK k \in Calls : k = m.request.by
    BY <1>2
  <2>2. call \in [Calls -> {"idle", "connecting", "waiting", "ok", "failed"}]
    BY DEF IInv, TypeOK
  <2>3. \/ call' = [call EXCEPT ![k] = "failed"]
        \/ call' = [call EXCEPT ![k] = "ok"]
    BY <1>3, <2>1
  <2>4. /\ call'[k] \in {"failed", "ok"} /\ \A j \in Calls \ {k} : call'[j] = call[j]
        /\ call' \in [Calls -> {"idle", "connecting", "waiting", "ok", "failed"}]
    BY <2>2, <2>3
  <2> QED BY <2>1, <2>4
<1> HIDE DEF waiting
<1>10. TypeOK'
  BY <1>3, <1>5, <1>6 DEF IInv, TypeOK
<1>11. PendingTimed'
  <2> SUFFICES ASSUME NEW d \in Stdio
               PROVE  /\ {l.id : l \in pending'[d]} = timers'[d]
                      /\ process'[d] # "alive" => pending'[d] = {}
    BY DEF PendingTimed
  <2>1. d \in Connects /\ d \notin Http
    BY DEF Stdio
  <2>2. {l.id : l \in pending'[d]} = timers'[d]
    BY <1>5, <2>1 DEF Timed
  <2>3. process'[d] # "alive" => pending'[d] = {}
    BY <1>3, <1>4, <2>1 DEF IInv, PendingTimed
  <2> QED BY <2>2, <2>3
<1>12. Staged'
  <2> SUFFICES ASSUME NEW d \in Connects
               PROVE  /\ stage'[d] \in {"idle", "starting"} => Len(sent'[d]) = 0
                      /\ stage'[d] = "handshake" => Len(sent'[d]) = 1
                      /\ \A l \in pending'[d] :
                           /\ l.request.asks = "initialize" =>
                                l.id = 1 /\ l.request.by = d /\ stage'[d] = "handshake"
                           /\ l.request.asks = "tools/list" =>
                                l.id = 2 /\ l.request.by = d /\ stage'[d] = "discovering"
    BY DEF Staged
  <2>1. sent'[d] = sent[d] /\ stage'[d] = stage[d] /\ pending'[d] \subseteq pending[d]
    BY <1>3, <1>4
  <2> QED BY <2>1 DEF IInv, Staged
<1>13. Reached'
  BY <1>3 DEF IInv, Reached
<1>14. NoOrphan'
  BY <1>3 DEF IInv, NoOrphan
<1>15. Shared'
  BY <1>3 DEF IInv, Shared
<1>16. Attended'
  <2>1. ASSUME NEW d \in Connects, NEW asks \in {"initialize", "tools/list"},
               \E l \in pending[d] : l.request = Request(d, asks)
        PROVE  \E l \in pending'[d] : l.request = Request(d, asks)
    <3>1. PICK l \in pending[d] : l.request = Request(d, asks)
      BY <2>1
    <3>2. l # m
      BY <1>2, <3>1 DEF Request
    <3> QED BY <1>4, <3>1, <3>2
  <2>2. ASSUME NEW k \in Calls, call'[k] = "waiting"
        PROVE  \E d \in Connects : \E l \in pending'[d] : l.request = Request(k, "tools/call")
    <3>1. k # m.request.by /\ call[k] = "waiting"
      BY <1>6, <2>2
    <3>2. PICK d \in Connects : \E l \in pending[d] : l.request = Request(k, "tools/call")
      BY <3>1 DEF IInv, Attended
    <3>3. PICK l \in pending[d] : l.request = Request(k, "tools/call")
      BY <3>2
    <3>4. l # m
      BY <3>1, <3>3 DEF Request
    <3> QED BY <1>4, <3>3, <3>4
  <2>3. \A k \in Calls : call'[k] = "connecting" => call[k] = "connecting"
    BY <1>6
  <2> QED BY <1>3, <2>1, <2>2, <2>3 DEF IInv, Attended
<1> QED BY <1>5, <1>10, <1>11, <1>12, <1>13, <1>14, <1>15, <1>16 DEF IInv

\* A reply, a timer and the end of a fetch settle a request.
LEMMA SettlesKeeps ==
  ASSUME IInv, NEW c \in Connects, NEW m \in pending[c], NEW outcome, NEW running,
         running = IF c \in Http THEN timers ELSE [timers EXCEPT ![c] = @ \ {m.id}],
         Settles(c, m, outcome, running)
  PROVE  IInv'
<1> DEFINE waiting == [pending EXCEPT ![c] = @ \ {m}]
<1>1. UNCHANGED <<mcpToolCallCount, awaited>>
  BY DEF Settles
<1>2. CASE Handshaken(c, m, outcome, waiting, running)
  BY <1>1, <1>2, HandshakenKeeps
<1>3. CASE HandshakeFails(c, m, outcome, waiting, running)
  BY <1>1, <1>3, HandshakeFailsKeeps
<1>4. CASE Discovered(c, m, outcome, waiting, running)
  BY <1>1, <1>4, DiscoveredKeeps
<1>5. CASE Called(c, m, outcome, waiting, running)
  BY <1>1, <1>5, CalledKeeps
<1> QED BY <1>2, <1>3, <1>4, <1>5 DEF Settles

LEMMA EventsKeep ==
  ASSUME IInv, NEW c \in Connects,
         \/ \E i \in DOMAIN sent[c], outcome \in {"result", "error"} : OnReply(c, i, outcome)
         \/ \E id \in timers[c] : OnTimeout(c, id)
         \/ \E outcome \in {"result", "error", "rejected"} : FetchEnds(c, outcome)
  PROVE  IInv'
<1>1. ASSUME NEW i \in DOMAIN sent[c], NEW outcome \in {"result", "error"},
             OnReply(c, i, outcome)
      PROVE  IInv'
  <2>1. PICK m \in pending[c] :
           Settles(c, m, outcome, [timers EXCEPT ![c] = @ \ {m.id}])
    BY <1>1 DEF OnReply
  <2>2. c \notin Http
    BY <1>1 DEF OnReply, Stdio
  <2> QED BY <2>1, <2>2, SettlesKeeps
<1>2. ASSUME NEW id \in timers[c], OnTimeout(c, id)
      PROVE  IInv'
  <2>1. PICK m \in pending[c] :
           m.id = id /\ Settles(c, m, "rejected", [timers EXCEPT ![c] = @ \ {id}])
    BY <1>2 DEF OnTimeout
  <2>2. c \notin Http
    BY <1>2 DEF IInv, Timed
  <2> QED BY <2>1, <2>2, SettlesKeeps
<1>3. ASSUME NEW outcome \in {"result", "error", "rejected"}, FetchEnds(c, outcome)
      PROVE  IInv'
  <2>1. PICK m \in pending[c] : Settles(c, m, outcome, timers)
    BY <1>3 DEF FetchEnds
  <2>2. c \in Http
    BY <1>3 DEF FetchEnds
  <2> QED BY <2>1, <2>2, SettlesKeeps
<1> QED BY <1>1, <1>2, <1>3

-----------------------------------------------------------------------------
(***************************************************************************)
(* Connects, disconnect and dispose.                                       *)
(***************************************************************************)

\* A connect that begins takes nothing from the others.
LEMMA BeginnerAttended ==
  ASSUME IInv, NEW c \in Connects,
         \A d \in Connects : pending[d] \subseteq pending'[d],
         UNCHANGED <<call, awaited, connecting>>,
         \A d \in Connects \ {c} : stage'[d] = stage[d],
         \/ stage'[c] \in {"starting", "failed"}
         \/ /\ stage'[c] = "handshake"
            /\ \E l \in pending'[c] : l.request = Request(c, "initialize")
  PROVE  Attended'
<1>1. \A d \in Connects :
        /\ stage'[d] = "handshake" =>
             \E l \in pending'[d] : l.request = Request(d, "initialize")
        /\ stage'[d] = "discovering" =>
             \E l \in pending'[d] : l.request = Request(d, "tools/list")
  <2> SUFFICES ASSUME NEW d \in Connects \ {c}, NEW asks,
                      \E l \in pending[d] : l.request = Request(d, asks)
               PROVE  \E l \in pending'[d] : l.request = Request(d, asks)
    BY DEF IInv, Attended
  <2> QED OBVIOUS
<1>2. \A k \in Calls : call'[k] = "waiting" =>
        \E d \in Connects : \E l \in pending'[d] : l.request = Request(k, "tools/call")
  BY DEF IInv, Attended
<1>3. \A d \in Connects : stage[d] # "idle" => stage'[d] # "idle"
  OBVIOUS
<1>4. \A k \in Calls : call'[k] = "connecting" =>
        /\ k \in BrowserCalls /\ awaited'[k] \in BrowserConnects
        /\ stage'[awaited'[k]] # "idle"
  BY <1>3, McpAssumption DEF IInv, Attended
<1>5. connecting' # None => stage'[connecting'] # "idle"
  BY <1>3, McpAssumption DEF IInv, TypeOK, Attended
<1> QED BY <1>1, <1>2, <1>4, <1>5 DEF Attended

LEMMA ConnectWaitsKeeps ==
  ASSUME IInv, NEW c \in Connects, Connect(c), Full \/ c \notin Http
  PROVE  IInv'
<1> USE McpAssumption
<1>1. /\ c \notin BrowserConnects /\ stage[c] = "idle" /\ Len(sent[c]) = 0
      /\ UNCHANGED <<connections, process, mcpToolCallCount, awaited, replaced>>
  BY DEF Connect, IInv, Staged
<1>2. \A l \in pending[c] : FALSE
  BY <1>1 DEF IInv, Numbered
<1>3. connections[IdOf[c]] # c
  BY <1>1 DEF IInv, Reached
<1>4. /\ \/ stage' = [stage EXCEPT ![c] = "failed"]
         \/ stage' = [stage EXCEPT ![c] = "starting"] /\ c \notin Http
      /\ UNCHANGED <<sent, pending, timers, call, connecting>>
  BY <1>1, RejectedConnect DEF Connect, IInv
<1>5. /\ \A d \in Connects \ {c} : stage'[d] = stage[d]
      /\ stage'[c] \in {"failed", "starting"}
      /\ stage'[c] = "starting" => c \in Stdio
  BY <1>4 DEF IInv, TypeOK, Stdio
<1>6. TypeOK'
  BY <1>1, <1>4 DEF IInv, TypeOK
<1>7. Numbered(sent, pending)' /\ Timed(pending, timers)' /\ PendingTimed'
  BY <1>1, <1>4, TransportsStay
<1>8. Staged'
  BY <1>1, <1>2, <1>4, <1>5 DEF IInv, Staged
<1>9. Reached' /\ NoOrphan' /\ Shared'
  BY <1>1, <1>3, <1>4, <1>5 DEF IInv, Reached, NoOrphan, Shared
<1>10. Attended'
  BY <1>1, <1>4, <1>5, BeginnerAttended
<1> QED BY <1>6, <1>7, <1>8, <1>9, <1>10 DEF IInv

\* connectHttp sends its handshake at once, connectStdio after its spawn.
LEMMA HandshakeBegins ==
  ASSUME IInv, NEW c \in Connects, stage[c] \in {"idle", "starting"},
         c \in Stdio => process'[c] = "alive",
         c \in BrowserConnects => stage[c] = "starting",
         \A d \in Connects \ {c} : process'[d] = process[d],
         c \in Http => process'[c] = process[c],
         process' \in [Connects -> {"none", "alive", "killed"}],
         stage' = [stage EXCEPT ![c] = "handshake"],
         Sends(c, Request(c, "initialize"), pending, timers),
         UNCHANGED <<connections, call, mcpToolCallCount, connecting, awaited, replaced>>
  PROVE  IInv'
<1> USE McpAssumption
<1> DEFINE n == [id |-> Len(sent[c]) + 1, request |-> Request(c, "initialize")]
<1>1. Len(sent[c]) = 0
  BY DEF IInv, Staged
<1>2. \A l \in pending[c] : FALSE
  BY <1>1 DEF IInv, Numbered
<1>3. connections[IdOf[c]] # c
  BY DEF IInv, Reached
<1>4. /\ n \in Messages
      /\ sent' \in [Connects -> Seq(Messages)]
      /\ Len(sent'[c]) = Len(sent[c]) + 1
      /\ \A d \in Connects \ {c} : sent'[d] = sent[d]
      /\ pending' = [pending EXCEPT ![c] = @ \cup {n}]
      /\ pending' \in [Connects -> SUBSET Messages]
      /\ timers' \in [Connects -> SUBSET Nat]
      /\ Numbered(sent', pending') /\ Timed(pending', timers')
  <2>1. Request(c, "initialize") \in Requests
    BY DEF Request, Requests
  <2> QED BY <2>1, SendsAppends DEF IInv, TypeOK
<1>5. \A d \in Connects : pending'[d] = IF d = c THEN {n} ELSE pending[d]
  <2>1. pending[c] = {}
    BY <1>2
  <2> HIDE DEF n
  <2> QED BY <1>4, <2>1 DEF IInv, TypeOK
<1>6. n.id = 1 /\ n.request = Request(c, "initialize") /\ Len(sent'[c]) = 1
  BY <1>1, <1>4
<1>7. \A d \in Connects : stage'[d] = IF d = c THEN "handshake" ELSE stage[d]
  BY DEF IInv, TypeOK
<1> HIDE DEF n
<1>8. TypeOK'
  BY <1>4 DEF IInv, TypeOK
<1>9. PendingTimed'
  <2>1. \A d \in Stdio : d \in Connects /\ d \notin Http
    BY DEF Stdio
  <2>2. \A d \in Stdio : {l.id : l \in pending'[d]} = timers'[d]
    BY <2>1, <1>4 DEF Timed
  <2>3. \A d \in Stdio : process'[d] # "alive" => pending'[d] = {}
    BY <2>1, <1>5 DEF IInv, PendingTimed
  <2> QED BY <2>2, <2>3 DEF PendingTimed
<1>10. Staged'
  <2> SUFFICES ASSUME NEW d \in Connects
               PROVE  /\ stage'[d] \in {"idle", "starting"} => Len(sent'[d]) = 0
                      /\ stage'[d] = "handshake" => Len(sent'[d]) = 1
                      /\ \A l \in pending'[d] :
                           /\ l.request.asks = "initialize" =>
                                l.id = 1 /\ l.request.by = d /\ stage'[d] = "handshake"
                           /\ l.request.asks = "tools/list" =>
                                l.id = 2 /\ l.request.by = d /\ stage'[d] = "discovering"
    BY DEF Staged
  <2>1. CASE d = c
    BY <2>1, <1>5, <1>6, <1>7 DEF Request
  <2>2. CASE d # c
    <3>1. sent'[d] = sent[d] /\ pending'[d] = pending[d] /\ stage'[d] = stage[d]
      BY <2>2, <1>4, <1>5, <1>7
    <3> QED BY <3>1 DEF IInv, Staged
  <2> QED BY <2>1, <2>2
<1>11. Reached' /\ NoOrphan' /\ Shared'
  BY <1>3, <1>7 DEF IInv, Reached, NoOrphan, Shared, Stdio
<1>12. Attended'
  <2>1. \A d \in Connects : pending[d] \subseteq pending'[d]
    BY <1>2, <1>5
  <2>2. \E l \in pending'[c] : l.request = Request(c, "initialize")
    BY <1>5, <1>6
  <2> QED BY <1>7, <2>1, <2>2, BeginnerAttended
<1> QED BY <1>4, <1>8, <1>9, <1>10, <1>11, <1>12 DEF IInv

LEMMA ConnectKeeps ==
  ASSUME IInv, NEW c \in Connects, Connect(c) \/ Spawn(c)
  PROVE  IInv'
<1>1. CASE Connect(c) /\ (Full \/ c \notin Http)
  BY <1>1, ConnectWaitsKeeps
<1>2. CASE Connect(c) /\ ~Full /\ c \in Http
  <2>1. /\ stage[c] = "idle" /\ c \notin BrowserConnects /\ c \notin Stdio
        /\ stage' = [stage EXCEPT ![c] = "handshake"]
        /\ Sends(c, Request(c, "initialize"), pending, timers)
        /\ UNCHANGED <<connections, process, call, mcpToolCallCount, connecting, awaited,
                       replaced>>
    BY <1>2 DEF Connect, Stdio
  <2> QED BY <2>1, HandshakeBegins DEF IInv, TypeOK
<1>3. CASE Spawn(c)
  <2>1. /\ stage[c] = "starting" /\ c \notin Http
        /\ stage' = [stage EXCEPT ![c] = "handshake"]
        /\ process' = [process EXCEPT ![c] = "alive"]
        /\ Sends(c, Request(c, "initialize"), pending, timers)
        /\ UNCHANGED <<connections, call, mcpToolCallCount, connecting, awaited, replaced>>
    BY <1>3 DEF Spawn, IInv, Reached, Stdio
  <2>2. /\ process'[c] = "alive" /\ \A d \in Connects \ {c} : process'[d] = process[d]
        /\ process' \in [Connects -> {"none", "alive", "killed"}]
    BY <2>1 DEF IInv, TypeOK
  <2> QED BY <2>1, <2>2, HandshakeBegins
<1> QED BY <1>1, <1>2, <1>3

\* Closing transports that are registered: whoever waits in them is rejected, and of the
\* connects those are the ones in their discovery.
LEMMA CloseKeeps ==
  ASSUME IInv, NEW T \in SUBSET Connects,
         \A c \in T : connections[IdOf[c]] = c,
         connections' \in [Ids -> Connects \cup {None}],
         \A i \in Ids :
           connections'[i] = IF connections[i] \in T THEN None ELSE connections[i],
         Close(T),
         UNCHANGED <<sent, mcpToolCallCount, awaited, replaced>>
  PROVE  IInv'
<1> USE McpAssumption
<1> DEFINE W == T \cap Stdio
<1> DEFINE S == UNION {Waiting(c) : c \in W}
<1>1. /\ process' = [c \in Connects |-> IF c \in W THEN "killed" ELSE process[c]]
      /\ pending' = [c \in Connects |-> IF c \in W THEN {} ELSE pending[c]]
      /\ timers' = [c \in Connects |-> IF c \in W THEN {} ELSE timers[c]]
      /\ stage' = [c \in Connects |-> IF c \in S THEN "failed" ELSE stage[c]]
      /\ call' = [k \in Calls |-> IF k \in S THEN "failed" ELSE call[k]]
      /\ connecting' = IF S \cap BrowserConnects # {} THEN None ELSE connecting
  BY DEF Close, Reject
<1>2. \A c \in W : \A m \in pending[c] : m.request.by \in S
  BY DEF Waiting
<1>3. ASSUME NEW d \in Connects, d \in S
      PROVE  d \in W /\ stage[d] = "discovering"
  <2>1. PICK c \in W : \E m \in pending[c] : m.request.by = d
    BY <1>3 DEF Waiting
  <2>2. PICK m \in pending[c] : m.request.by = d
    BY <2>1
  <2>3. c \in Connects /\ stage[c] # "handshake"
    BY DEF IInv, Reached
  <2>4. m.request.asks = "tools/list"
    BY <2>2, <2>3, RequestOfStage
  <2>5. m.request = Request(c, "tools/list") /\ stage[c] = "discovering"
    BY <2>3, <2>4, RequestOfStage
  <2>6. d = c
    BY <2>2, <2>5 DEF Request
  <2> QED BY <2>5, <2>6
<1>4. \A d \in Connects \ W : /\ process'[d] = process[d] /\ pending'[d] = pending[d]
                             /\ timers'[d] = timers[d] /\ stage'[d] = stage[d]
  BY <1>1, <1>3
<1>5. \A d \in W : /\ d \in Connects /\ process'[d] = "killed" /\ pending'[d] = {}
                  /\ timers'[d] = {} /\ connections[IdOf[d]] = d
                  /\ stage[d] \in {"discovering", "connected", "failed"}
                  /\ stage'[d] \in {"connected", "failed"}
  <2> SUFFICES ASSUME NEW d \in W
               PROVE  /\ d \in Connects /\ process'[d] = "killed" /\ pending'[d] = {}
                      /\ timers'[d] = {} /\ connections[IdOf[d]] = d
                      /\ stage[d] \in {"discovering", "connected", "failed"}
                      /\ stage'[d] \in {"connected", "failed"}
    OBVIOUS
  <2>1. /\ d \in Connects /\ connections[IdOf[d]] = d
        /\ stage[d] \in {"discovering", "connected", "failed"}
    BY DEF IInv, Reached
  <2>2. CASE stage[d] = "discovering"
    <3>1. \E m \in pending[d] : m.request.by = d
      <4>1. PICK m \in pending[d] : m.request = Request(d, "tools/list")
        BY <2>1, <2>2 DEF IInv, Attended
      <4>2. m.request.by = d
        BY <4>1 DEF Request
      <4> QED BY <4>2
    <3>2. d \in S
      BY <1>2, <3>1
    <3> QED BY <1>1, <2>1, <3>2
  <2>3. CASE stage[d] # "discovering"
    BY <1>1, <2>1, <2>3
  <2> QED BY <2>2, <2>3
<1> HIDE DEF W, S
<1>6. TypeOK'
  <2>1. stage' \in [Connects -> {"idle", "starting", "handshake", "discovering",
                                "connected", "failed"}]
    BY <1>1 DEF IInv, TypeOK
  <2>2. /\ call' \in [Calls -> {"idle", "connecting", "waiting", "ok", "failed"}]
        /\ process' \in [Connects -> {"none", "alive", "killed"}]
        /\ pending' \in [Connects -> SUBSET Messages]
        /\ timers' \in [Connects -> SUBSET Nat]
        /\ connecting' \in BrowserConnects \cup {None}
    BY <1>1 DEF IInv, TypeOK
  <2> QED BY <2>1, <2>2 DEF IInv, TypeOK
<1>7. Numbered(sent, pending)'
  <2> SUFFICES ASSUME NEW d \in Connects
               PROVE  /\ \A i \in 1..Len(sent[d]) : sent[d][i].id = i
                      /\ \A l \in pending'[d] :
                           l.id \in 1..Len(sent[d]) /\ sent[d][l.id] = l
    BY DEF Numbered
  <2>1. \A l \in pending'[d] : l \in pending[d]
    BY <1>4, <1>5
  <2> QED BY <2>1 DEF IInv, Numbered
<1>8. Timed(pending, timers)'
  <2> SUFFICES ASSUME NEW d \in Connects
               PROVE  timers'[d] = IF d \in Http THEN {} ELSE {l.id : l \in pending'[d]}
    BY DEF Timed
  <2>1. CASE d \in W
    <3>1. timers'[d] = {} /\ pending'[d] = {}
      BY <1>5, <2>1
    <3> QED BY <3>1
  <2>2. CASE d \notin W
    <3>1. timers'[d] = timers[d] /\ pending'[d] = pending[d]
      BY <1>4, <2>2
    <3> QED BY <3>1 DEF IInv, Timed
  <2> QED BY <2>1, <2>2
<1>9. PendingTimed'
  <2> SUFFICES ASSUME NEW d \in Stdio
               PROVE  /\ {l.id : l \in pending'[d]} = timers'[d]
                      /\ process'[d] # "alive" => pending'[d] = {}
    BY DEF PendingTimed
  <2>1. d \in Connects /\ d \notin Http
    BY DEF Stdio
  <2>2. {l.id : l \in pending'[d]} = timers'[d]
    BY <1>8, <2>1 DEF Timed
  <2>3. process'[d] # "alive" => pending'[d] = {}
    BY <1>4, <1>5, <2>1 DEF IInv, PendingTimed
  <2> QED BY <2>2, <2>3
<1>10. Staged'
  <2> SUFFICES ASSUME NEW d \in Connects
               PROVE  /\ stage'[d] \in {"idle", "starting"} => Len(sent'[d]) = 0
                      /\ stage'[d] = "handshake" => Len(sent'[d]) = 1
                      /\ \A l \in pending'[d] :
                           /\ l.request.asks = "initialize" =>
                                l.id = 1 /\ l.request.by = d /\ stage'[d] = "handshake"
                           /\ l.request.asks = "tools/list" =>
                                l.id = 2 /\ l.request.by = d /\ stage'[d] = "discovering"
    BY DEF Staged
  <2>1. CASE d \in W
    BY <2>1, <1>5
  <2>2. CASE d \notin W
    <3>1. pending'[d] = pending[d] /\ stage'[d] = stage[d]
      BY <2>2, <1>4
    <3> QED BY <3>1 DEF IInv, Staged
  <2> QED BY <2>1, <2>2
<1>11. Reached'
  <2> SUFFICES ASSUME NEW d \in Connects
               PROVE  /\ stage'[d] = "starting" => d \in Stdio
                      /\ process'[d] = "alive" => d \in Stdio
                      /\ connections'[IdOf[d]] = d =>
                           /\ stage'[d] \in {"discovering", "connected", "failed"}
                           /\ d \in Stdio => process'[d] = "alive"
    BY DEF Reached
  <2>1. connections'[IdOf[d]] = d => d \notin T /\ connections[IdOf[d]] = d
    OBVIOUS
  <2>2. d \in W => d \in T
    BY DEF W
  <2>3. CASE d \in W
    BY <1>5, <2>1, <2>2, <2>3
  <2>4. CASE d \notin W
    BY <1>4, <2>1, <2>4 DEF IInv, Reached
  <2> QED BY <2>3, <2>4
<1>12. NoOrphan'
  <2> SUFFICES ASSUME NEW d \in Connects, process'[d] = "alive"
               PROVE  stage'[d] = "handshake" \/ connections'[IdOf[d]] = d \/ d \in replaced'
    BY DEF NoOrphan
  <2>1. d \notin W
    BY <1>5
  <2>2. process[d] = "alive" /\ stage'[d] = stage[d]
    BY <1>4, <2>1
  <2>3. d \notin T
    BY <2>1, <2>2 DEF IInv, Reached, W
  <2> QED BY <2>2, <2>3 DEF IInv, NoOrphan
<1>13. Shared'
  <2>1. \A d \in Connects :
          stage'[d] \in {"starting", "handshake", "discovering"} => stage'[d] = stage[d]
    BY <1>4, <1>5
  <2>2. ASSUME NEW d \in BrowserConnects,
               stage'[d] \in {"starting", "handshake", "discovering"}
        PROVE  connecting' = d
    <3>1. connecting = d
      BY <2>1, <2>2 DEF IInv, Shared
    <3>2. ASSUME NEW b \in BrowserConnects, b \in S PROVE FALSE
      <4>1. b \in W /\ stage[b] = "discovering"
        BY <1>3, <3>2
      <4>2. connecting = b
        BY <4>1 DEF IInv, Shared
      <4> QED BY <1>5, <2>2, <3>1, <4>1, <4>2
    <3> QED BY <1>1, <3>1, <3>2
  <2>3. \A d \in BrowserConnects :
          stage'[d] \in {"starting", "handshake"} => connections'[BrowserId] = None
    BY <2>1 DEF IInv, Shared
  <2> QED BY <2>2, <2>3 DEF IInv, Shared
<1>14. Attended'
  <2>1. \A d \in Connects :
          /\ stage'[d] = "handshake" =>
               \E l \in pending'[d] : l.request = Request(d, "initialize")
          /\ stage'[d] = "discovering" =>
               \E l \in pending'[d] : l.request = Request(d, "tools/list")
    BY <1>4, <1>5 DEF IInv, Attended
  <2>2. ASSUME NEW k \in Calls, call'[k] = "waiting"
        PROVE  \E d \in Connects : \E l \in pending'[d] : l.request = Request(k, "tools/call")
    <3>1. k \notin S /\ call[k] = "waiting"
      BY <1>1, <2>2
    <3>2. PICK d \in Connects : \E l \in pending[d] : l.request = Request(k, "tools/call")
      BY <3>1 DEF IInv, Attended
    <3>3. d \notin W
      BY <1>2, <3>1, <3>2 DEF Request
    <3> QED BY <1>4, <3>2, <3>3
  <2>3. \A d \in Connects : stage[d] # "idle" => stage'[d] # "idle"
    BY <1>4, <1>5
  <2>4. \A k \in Calls : call'[k] = "connecting" =>
          /\ k \in BrowserCalls /\ awaited'[k] \in BrowserConnects
          /\ stage'[awaited'[k]] # "idle"
    BY <1>1, <2>3 DEF IInv, Attended
  <2>5. connecting' # None => stage'[connecting'] # "idle"
    BY <1>1, <2>3 DEF IInv, TypeOK, Attended
  <2> QED BY <2>1, <2>2, <2>4, <2>5 DEF Attended
<1> QED BY <1>6, <1>7, <1>8, <1>9, <1>10, <1>11, <1>12, <1>13, <1>14 DEF IInv

LEMMA DisconnectKeeps ==
  ASSUME IInv, Dispose \/ \E i \in Ids : Disconnect(i)
  PROVE  IInv'
<1>1. connections \in [Ids -> Connects \cup {None}]
  BY DEF IInv, TypeOK
<1>2. \A i \in Ids : connections[i] # None =>
        connections[i] \in Connects /\ IdOf[connections[i]] = i
  BY DEF IInv, TypeOK
<1>3. ASSUME NEW i \in Ids, Disconnect(i) PROVE IInv'
  <2>1. {connections[i]} \in SUBSET Connects /\ connections[IdOf[connections[i]]] = connections[i]
    BY <1>2, <1>3 DEF Disconnect
  <2>2. /\ connections' \in [Ids -> Connects \cup {None}]
        /\ \A j \in Ids : connections'[j] =
             IF connections[j] \in {connections[i]} THEN None ELSE connections[j]
    BY <1>1, <1>2, <1>3 DEF Disconnect
  <2>3. Close({connections[i]}) /\ UNCHANGED <<sent, mcpToolCallCount, awaited, replaced>>
    BY <1>3 DEF Disconnect
  <2> QED BY <2>1, <2>2, <2>3, CloseKeeps
<1>4. ASSUME Dispose PROVE IInv'
  <2> DEFINE T == {connections[i] : i \in Registered}
  <2>1. T \in SUBSET Connects /\ \A c \in T : connections[IdOf[c]] = c
    BY <1>2 DEF Registered
  <2>2. /\ connections' \in [Ids -> Connects \cup {None}]
        /\ \A j \in Ids : connections'[j] =
             IF connections[j] \in T THEN None ELSE connections[j]
    BY <1>1, <1>4 DEF Dispose, Registered
  <2>3. Close(T) /\ UNCHANGED <<sent, mcpToolCallCount, awaited, replaced>>
    BY <1>4 DEF Dispose
  <2> QED BY <2>1, <2>2, <2>3, CloseKeeps
<1> QED BY <1>3, <1>4

-----------------------------------------------------------------------------
(***************************************************************************)
(* Tool calls.                                                             *)
(***************************************************************************)

\* A step that only settles a call, or has it wait for a connect that has begun.
LEMMA CallMovesKeeps ==
  ASSUME IInv, NEW k \in Calls,
         call' \in [Calls -> {"idle", "connecting", "waiting", "ok", "failed"}],
         awaited' \in [BrowserCalls -> BrowserConnects \cup {None}],
         \A j \in Calls \ {k} : call'[j] = call[j],
         \A j \in BrowserCalls \ {k} : awaited'[j] = awaited[j],
         \/ call'[k] = "failed"
         \/ /\ call'[k] = "connecting" /\ k \in BrowserCalls
            /\ awaited'[k] \in BrowserConnects /\ stage[awaited'[k]] # "idle",
         UNCHANGED <<connections, stage, process, sent, pending, timers, mcpToolCallCount,
                     connecting, replaced>>
  PROVE  IInv'
<1>1. TypeOK'
  BY DEF IInv, TypeOK
<1>2. Numbered(sent, pending)' /\ Timed(pending, timers)' /\ PendingTimed'
  BY TransportsStay
<1>3. Staged' /\ Reached' /\ NoOrphan' /\ Shared'
  BY DEF IInv, Staged, Reached, NoOrphan, Shared
<1>4. Attended'
  <2>1. \A c \in Connects :
          /\ stage'[c] = "handshake" =>
               \E m \in pending'[c] : m.request = Request(c, "initialize")
          /\ stage'[c] = "discovering" =>
               \E m \in pending'[c] : m.request = Request(c, "tools/list")
    BY DEF IInv, Attended
  <2>2. \A j \in Calls : call'[j] = "waiting" =>
          \E c \in Connects : \E m \in pending'[c] : m.request = Request(j, "tools/call")
    BY DEF IInv, Attended
  <2>3. \A j \in Calls : call'[j] = "connecting" =>
          /\ j \in BrowserCalls /\ awaited'[j] \in BrowserConnects
          /\ stage'[awaited'[j]] # "idle"
    BY DEF IInv, Attended
  <2>4. connecting' # None => stage'[connecting'] # "idle"
    BY DEF IInv, Attended
  <2> QED BY <2>1, <2>2, <2>3, <2>4 DEF Attended
<1> QED BY <1>1, <1>2, <1>3, <1>4 DEF IInv

LEMMA CallToolKeeps ==
  ASSUME IInv, NEW k \in Calls, CallTool(k)
  PROVE  IInv'
<1> USE McpAssumption
<1> DEFINE c == connections[TargetOf[k]]
<1> DEFINE n == [id |-> Len(sent[c]) + 1, request |-> Request(k, "tools/call")]
<1>1. CASE c = None \/ AtLimit
  <2>1. /\ call' = [call EXCEPT ![k] = "failed"]
        /\ UNCHANGED <<connections, stage, process, sent, pending, timers,
                       mcpToolCallCount, connecting, awaited, replaced>>
    BY <1>1 DEF CallTool
  <2>2. /\ call' \in [Calls -> {"idle", "connecting", "waiting", "ok", "failed"}]
        /\ call'[k] = "failed" /\ \A j \in Calls \ {k} : call'[j] = call[j]
    BY <2>1 DEF IInv, TypeOK
  <2>3. awaited' \in [BrowserCalls -> BrowserConnects \cup {None}]
    BY <2>1 DEF IInv, TypeOK
  <2> QED BY <2>1, <2>2, <2>3, CallMovesKeeps
<1>2. CASE c # None /\ ~AtLimit
  <2>1. /\ call' = [call EXCEPT ![k] = "waiting"]
        /\ mcpToolCallCount' = mcpToolCallCount + 1
        /\ Sends(c, Request(k, "tools/call"), pending, timers)
        /\ UNCHANGED <<connections, process, stage, connecting, awaited, replaced>>
    BY <1>2 DEF CallTool
  <2>2. c \in Connects /\ connections[IdOf[c]] = c
    BY <1>2 DEF IInv, TypeOK
  <2>3. /\ stage[c] \in {"discovering", "connected", "failed"}
        /\ c \in Stdio => process[c] = "alive"
    BY <2>2 DEF IInv, Reached
  <2> HIDE DEF c
  <2>4. /\ n \in Messages
        /\ sent' \in [Connects -> Seq(Messages)]
        /\ Len(sent'[c]) = Len(sent[c]) + 1
        /\ \A d \in Connects \ {c} : sent'[d] = sent[d]
        /\ pending' = [pending EXCEPT ![c] = @ \cup {n}]
        /\ pending' \in [Connects -> SUBSET Messages]
        /\ timers' \in [Connects -> SUBSET Nat]
        /\ Numbered(sent', pending') /\ Timed(pending', timers')
    <3>1. Request(k, "tools/call") \in Requests
      BY DEF Request, Requests
    <3> QED BY <2>1, <2>2, <3>1, SendsAppends DEF IInv, TypeOK
  <2>5. n.request = Request(k, "tools/call")
    OBVIOUS
  <2> HIDE DEF n
  <2>6. \A d \in Connects :
          pending'[d] = IF d = c THEN pending[d] \cup {n} ELSE pending[d]
    BY <2>2, <2>4 DEF IInv, TypeOK
  <2>7. TypeOK'
    <3>1. mcpToolCallCount + 1 \in 0..MaxMcpToolCalls
      BY <1>2 DEF IInv, TypeOK, AtLimit
    <3> QED BY <2>1, <2>4, <3>1 DEF IInv, TypeOK
  <2>8. PendingTimed'
    <3>1. \A d \in Stdio : d \in Connects /\ d \notin Http
      BY DEF Stdio
    <3>2. \A d \in Stdio : {l.id : l \in pending'[d]} = timers'[d]
      BY <3>1, <2>4 DEF Timed
    <3>3. \A d \in Stdio : process'[d] # "alive" => pending'[d] = {}
      BY <3>1, <2>1, <2>3, <2>6 DEF IInv, PendingTimed
    <3> QED BY <3>2, <3>3 DEF PendingTimed
  <2>9. Staged'
    <3> SUFFICES ASSUME NEW d \in Connects
                 PROVE  /\ stage'[d] \in {"idle", "starting"} => Len(sent'[d]) = 0
                        /\ stage'[d] = "handshake" => Len(sent'[d]) = 1
                        /\ \A l \in pending'[d] :
                             /\ l.request.asks = "initialize" =>
                                  l.id = 1 /\ l.request.by = d /\ stage'[d] = "handshake"
                             /\ l.request.asks = "tools/list" =>
                                  l.id = 2 /\ l.request.by = d /\ stage'[d] = "discovering"
      BY DEF Staged
    <3>1. /\ stage'[d] \in {"idle", "starting"} => Len(sent'[d]) = 0
          /\ stage'[d] = "handshake" => Len(sent'[d]) = 1
      <4>1. stage'[d] = stage[d] /\ (d # c => sent'[d] = sent[d])
        BY <2>1, <2>4
      <4>2. /\ stage[d] \in {"idle", "starting"} => Len(sent[d]) = 0
            /\ stage[d] = "handshake" => Len(sent[d]) = 1
        BY DEF IInv, Staged
      <4>3. d = c => stage[d] \notin {"idle", "starting", "handshake"}
        BY <2>3
      <4> QED BY <4>1, <4>2, <4>3
    <3>2. ASSUME NEW l \in pending'[d],
                 l.request.asks = "initialize" \/ l.request.asks = "tools/list"
          PROVE  l \in pending[d]
      <4>1. l # n
        BY <2>5, <3>2 DEF Request
      <4> QED BY <2>6, <4>1
    <3>3. stage'[d] = stage[d]
      BY <2>1
    <3> QED BY <3>1, <3>2, <3>3 DEF IInv, Staged
  <2>10. Reached' /\ NoOrphan' /\ Shared'
    BY <2>1 DEF IInv, Reached, NoOrphan, Shared
  <2>11. Attended'
    <3>1. \A d \in Connects : pending[d] \subseteq pending'[d]
      BY <2>6
    <3>2. \A d \in Connects :
            /\ stage'[d] = "handshake" =>
                 \E m \in pending'[d] : m.request = Request(d, "initialize")
            /\ stage'[d] = "discovering" =>
                 \E m \in pending'[d] : m.request = Request(d, "tools/list")
      BY <2>1, <3>1 DEF IInv, Attended
    <3>3. ASSUME NEW j \in Calls, call'[j] = "waiting"
          PROVE  \E d \in Connects : \E m \in pending'[d] : m.request = Request(j, "tools/call")
      <4>1. CASE j = k
        BY <4>1, <2>2, <2>5, <2>6
      <4>2. CASE j # k
        BY <4>2, <3>3, <2>1, <3>1 DEF IInv, TypeOK, Attended
      <4> QED BY <4>1, <4>2
    <3>4. \A j \in Calls : call'[j] = "connecting" => call[j] = "connecting"
      BY <2>1 DEF IInv, TypeOK
    <3>5. \A j \in Calls : call'[j] = "connecting" =>
            /\ j \in BrowserCalls /\ awaited'[j] \in BrowserConnects
            /\ stage'[awaited'[j]] # "idle"
      BY <2>1, <3>4 DEF IInv, Attended
    <3>6. connecting' # None => stage'[connecting'] # "idle"
      BY <2>1 DEF IInv, Attended
    <3> QED BY <3>2, <3>3, <3>5, <3>6 DEF Attended
  <2> QED BY <2>4, <2>7, <2>8, <2>9, <2>10, <2>11 DEF IInv
<1> QED BY <1>1, <1>2

\* While no connect of the browser tools is in progress and none is registered, a new one
\* is the only one.
LEMMA EnsureNewKeeps ==
  ASSUME IInv, NEW k \in BrowserCalls, call[k] = "idle",
         connections[BrowserId] = None, connecting = None, EnsureNew(k)
  PROVE  IInv'
<1> USE McpAssumption
<1>1. PICK c \in BrowserConnects :
        /\ stage[c] = "idle"
        /\ UNCHANGED <<connections, process, sent, pending, timers, mcpToolCallCount,
                       replaced>>
        /\ \/ Full /\ Reject({c, k}) /\ UNCHANGED awaited
           \/ /\ ~Full /\ stage' = [stage EXCEPT ![c] = "starting"] /\ connecting' = c
              /\ call' = [call EXCEPT ![k] = "connecting"]
              /\ awaited' = [awaited EXCEPT ![k] = c]
  BY DEF EnsureNew, Awaits
<1>2. c \in Connects /\ c \in Stdio /\ k \in Calls /\ c # k /\ IdOf[c] = BrowserId
      /\ \A d \in Connects : d # k
  BY DEF Stdio
<1>3. /\ \A d \in Connects \ {c} : stage'[d] = stage[d]
      /\ \A j \in Calls \ {k} : call'[j] = call[j]
      /\ \/ stage'[c] = "failed" /\ call'[k] = "failed" /\ connecting' = None
            /\ awaited' = awaited
         \/ stage'[c] = "starting" /\ call'[k] = "connecting" /\ connecting' = c
            /\ awaited' = [awaited EXCEPT ![k] = c]
  <2>1. CASE Full
    <3>1. Reject({c, k}) /\ awaited' = awaited
      BY <1>1, <2>1
    <3>2. /\ \A d \in Connects : stage'[d] = IF d \in {c, k} THEN "failed" ELSE stage[d]
          /\ \A j \in Calls : call'[j] = IF j \in {c, k} THEN "failed" ELSE call[j]
      BY <3>1 DEF Reject
    <3>3. connecting' = None
      BY <3>1 DEF Reject
    <3>4. \A j \in Calls : j # c
      BY <1>2
    <3> QED BY <1>2, <3>1, <3>2, <3>3, <3>4
  <2>2. CASE ~Full
    <3>1. /\ stage \in [Connects -> {"idle", "starting", "handshake", "discovering",
                                      "connected", "failed"}]
          /\ call \in [Calls -> {"idle", "connecting", "waiting", "ok", "failed"}]
      BY DEF IInv, TypeOK
    <3>2. /\ stage' = [stage EXCEPT ![c] = "starting"] /\ connecting' = c
          /\ call' = [call EXCEPT ![k] = "connecting"]
          /\ awaited' = [awaited EXCEPT ![k] = c]
      BY <1>1, <2>2
    <3> QED BY <1>2, <3>1, <3>2
  <2> QED BY <2>1, <2>2
<1>4. TypeOK'
  <2>1. /\ stage' \in [Connects -> {"idle", "starting", "handshake", "discovering",
                                   "connected", "failed"}]
        /\ call' \in [Calls -> {"idle", "connecting", "waiting", "ok", "failed"}]
    <3>1. /\ stage \in [Connects -> {"idle", "starting", "handshake", "discovering",
                                      "connected", "failed"}]
          /\ call \in [Calls -> {"idle", "connecting", "waiting", "ok", "failed"}]
      BY DEF IInv, TypeOK
    <3>2. CASE Full
      <4>1. Reject({c, k})
        BY <1>1, <3>2
      <4> QED BY <3>1, <4>1 DEF Reject
    <3>3. CASE ~Full
      <4>1. /\ stage' = [stage EXCEPT ![c] = "starting"]
            /\ call' = [call EXCEPT ![k] = "connecting"]
        BY <1>1, <3>3
      <4> QED BY <3>1, <4>1
    <3> QED BY <3>2, <3>3
  <2>2. connecting' \in BrowserConnects \cup {None}
    BY <1>3
  <2>3. awaited' \in [BrowserCalls -> BrowserConnects \cup {None}]
    <3>1. awaited \in [BrowserCalls -> BrowserConnects \cup {None}]
      BY DEF IInv, TypeOK
    <3>2. awaited' = awaited \/ awaited' = [awaited EXCEPT ![k] = c]
      BY <1>3
    <3> QED BY <3>1, <3>2
  <2> QED BY <1>1, <2>1, <2>2, <2>3 DEF IInv, TypeOK
<1>5. Numbered(sent, pending)' /\ Timed(pending, timers)' /\ PendingTimed'
  BY <1>1, TransportsStay
<1>6. Staged'
  <2> SUFFICES ASSUME NEW d \in Connects
               PROVE  /\ stage'[d] \in {"idle", "starting"} => Len(sent'[d]) = 0
                      /\ stage'[d] = "handshake" => Len(sent'[d]) = 1
                      /\ \A l \in pending'[d] :
                           /\ l.request.asks = "initialize" =>
                                l.id = 1 /\ l.request.by = d /\ stage'[d] = "handshake"
                           /\ l.request.asks = "tools/list" =>
                                l.id = 2 /\ l.request.by = d /\ stage'[d] = "discovering"
    BY DEF Staged
  <2>1. CASE d = c
    <3>1. Len(sent[c]) = 0
      BY <1>1, <1>2 DEF IInv, Staged
    <3>2. \A l \in pending[c] : FALSE
      BY <1>2, <3>1 DEF IInv, Numbered
    <3> QED BY <2>1, <3>1, <3>2, <1>1, <1>3
  <2>2. CASE d # c
    <3>1. sent'[d] = sent[d] /\ pending'[d] = pending[d] /\ stage'[d] = stage[d]
      BY <2>2, <1>1, <1>3
    <3> QED BY <3>1 DEF IInv, Staged
  <2> QED BY <2>1, <2>2
<1>7. Reached'
  BY <1>1, <1>2, <1>3 DEF IInv, Reached
<1>8. NoOrphan'
  BY <1>1, <1>2, <1>3 DEF IInv, NoOrphan
<1>9. Shared'
  <2>1. \A d \in BrowserConnects : stage[d] \notin {"starting", "handshake", "discovering"}
    BY DEF IInv, Shared
  <2>2. \A d \in BrowserConnects :
          /\ stage'[d] \in {"starting", "handshake", "discovering"} => connecting' = d
          /\ connections'[BrowserId] = None
    BY <1>1, <1>3, <2>1
  <2> QED BY <1>1, <2>2 DEF IInv, Shared
<1>10. Attended'
  <2>1. \A d \in Connects :
          /\ stage'[d] = "handshake" =>
               \E m \in pending'[d] : m.request = Request(d, "initialize")
          /\ stage'[d] = "discovering" =>
               \E m \in pending'[d] : m.request = Request(d, "tools/list")
    BY <1>1, <1>3 DEF IInv, Attended
  <2>2. \A j \in Calls : call'[j] = "waiting" =>
          \E d \in Connects : \E m \in pending'[d] : m.request = Request(j, "tools/call")
    BY <1>1, <1>3 DEF IInv, Attended
  <2>3. \A d \in Connects : stage[d] # "idle" => stage'[d] # "idle"
    BY <1>1, <1>3
  <2>4. ASSUME NEW j \in Calls, call'[j] = "connecting"
        PROVE  /\ j \in BrowserCalls /\ awaited'[j] \in BrowserConnects
               /\ stage'[awaited'[j]] # "idle"
    <3>1. CASE j = k
      BY <3>1, <2>4, <1>3 DEF IInv, TypeOK
    <3>2. CASE j # k
      <4>1. /\ j \in BrowserCalls /\ awaited[j] \in BrowserConnects
            /\ stage[awaited[j]] # "idle"
        BY <3>2, <2>4, <1>3 DEF IInv, Attended
      <4>2. awaited'[j] = awaited[j]
        BY <3>2, <4>1, <1>3 DEF IInv, TypeOK
      <4> QED BY <4>1, <4>2, <2>3
    <3> QED BY <3>1, <3>2
  <2>5. connecting' # None => stage'[connecting'] # "idle"
    BY <1>3
  <2> QED BY <2>1, <2>2, <2>4, <2>5 DEF Attended
<1> QED BY <1>4, <1>5, <1>6, <1>7, <1>8, <1>9, <1>10 DEF IInv

LEMMA CallsKeep ==
  ASSUME IInv, NEW k \in Calls, Call(k) \/ Ensure(k) \/ Ensured(k)
  PROVE  IInv'
<1>1. CASE CallTool(k)
  BY <1>1, CallToolKeeps
<1>2. CASE Ensure(k) /\ ~CallTool(k)
  <2>1. CASE connecting = None
    BY <1>2, <2>1, EnsureNewKeeps DEF Ensure
  <2>2. CASE connecting # None
    <3>1. k \in BrowserCalls /\ Awaits(k, connecting) /\ UNCHANGED <<stage, connecting>>
      BY <1>2, <2>2 DEF Ensure
    <3>2. connecting \in BrowserConnects /\ stage[connecting] # "idle"
      BY <2>2 DEF IInv, TypeOK, Attended
    <3>3. /\ call' \in [Calls -> {"idle", "connecting", "waiting", "ok", "failed"}]
          /\ awaited' \in [BrowserCalls -> BrowserConnects \cup {None}]
          /\ \A j \in Calls \ {k} : call'[j] = call[j]
          /\ \A j \in BrowserCalls \ {k} : awaited'[j] = awaited[j]
          /\ call'[k] = "connecting" /\ awaited'[k] = connecting
      BY <3>1, <3>2 DEF Awaits, IInv, TypeOK
    <3>4. UNCHANGED <<connections, stage, process, sent, pending, timers, mcpToolCallCount,
                      connecting, replaced>>
      BY <3>1 DEF Awaits
    <3> QED BY <3>1, <3>2, <3>3, <3>4, CallMovesKeeps
  <2> QED BY <2>1, <2>2
<1>3. CASE Ensured(k) /\ ~CallTool(k)
  <2>1. /\ call' = [call EXCEPT ![k] = "failed"]
        /\ UNCHANGED <<connections, stage, process, sent, pending, timers, mcpToolCallCount,
                       connecting, awaited, replaced>>
    BY <1>3 DEF Ensured
  <2>2. /\ call' \in [Calls -> {"idle", "connecting", "waiting", "ok", "failed"}]
        /\ call'[k] = "failed" /\ \A j \in Calls \ {k} : call'[j] = call[j]
        /\ awaited' \in [BrowserCalls -> BrowserConnects \cup {None}]
    BY <2>1 DEF IInv, TypeOK
  <2> QED BY <2>1, <2>2, CallMovesKeeps
<1> QED BY <1>1, <1>2, <1>3 DEF Call

-----------------------------------------------------------------------------
LEMMA NextKeeps == IInv /\ [Next]_vars => IInv'
<1> SUFFICES ASSUME IInv, [Next]_vars PROVE IInv'
  OBVIOUS
<1>1. CASE UNCHANGED vars
  <2>1. TypeOK'
    BY <1>1 DEF IInv, TypeOK, vars
  <2>2. Numbered(sent, pending)' /\ Timed(pending, timers)' /\ PendingTimed'
    BY <1>1, TransportsStay DEF vars
  <2>3. Staged' /\ Reached' /\ NoOrphan'
    BY <1>1 DEF IInv, Staged, Reached, NoOrphan, vars
  <2>4. Shared' /\ Attended'
    BY <1>1 DEF IInv, Shared, Attended, vars
  <2> QED BY <2>1, <2>2, <2>3, <2>4 DEF IInv
<1>2. ASSUME NEW c \in Connects, Connect(c) \/ Spawn(c) PROVE IInv'
  BY <1>2, ConnectKeeps
<1>3. ASSUME NEW c \in Connects,
             \/ \E i \in DOMAIN sent[c], outcome \in {"result", "error"} :
                  OnReply(c, i, outcome)
             \/ \E id \in timers[c] : OnTimeout(c, id)
             \/ \E outcome \in {"result", "error", "rejected"} : FetchEnds(c, outcome)
      PROVE  IInv'
  BY <1>3, EventsKeep
<1>4. ASSUME NEW k \in Calls, Call(k) \/ Ensure(k) \/ Ensured(k) PROVE IInv'
  BY <1>4, CallsKeep
<1>5. CASE Dispose \/ \E i \in Ids : Disconnect(i)
  BY <1>5, DisconnectKeeps
<1> QED BY <1>1, <1>2, <1>3, <1>4, <1>5 DEF Next

LEMMA Invariance == Spec => []IInv
<1> QED BY InitKeeps, NextKeeps, PTL DEF Spec

-----------------------------------------------------------------------------
\* Every variable of McpClient keeps its type; mcpToolCallCount stays within the limit, as
\* callTool() compares and counts without waiting in between.
THEOREM TypeCorrect == Spec => []TypeOK
<1>1. IInv => TypeOK
  BY DEF IInv
<1> QED BY <1>1, Invariance, PTL

\* The pending requests and the timers of a stdio transport agree, and a closed one has
\* none: replies, timers and close() settle each request once.
THEOREM RequestsAreTimed == Spec => []PendingTimed
<1>1. IInv => PendingTimed
  BY DEF IInv
<1> QED BY <1>1, Invariance, PTL

\* A late or repeated reply is never taken for the answer to another request, since
\* nextId counts what was sent and not what waits.
THEOREM RepliesAreOwn == Spec => []NoMistakenReply
<1>1. IInv => NoMistakenReply
  <2> SUFFICES ASSUME IInv, NEW c \in Stdio, NEW i \in DOMAIN sent[c], NEW m \in pending[c],
                      sent[c][i].id = m.id
               PROVE  sent[c][i] = m
    BY DEF NoMistakenReply
  <2>1. c \in Connects /\ sent[c] \in Seq(Messages)
    BY DEF Stdio, IInv, TypeOK
  <2>2. DOMAIN sent[c] = 1..Len(sent[c])
    BY <2>1, LenProperties
  <2> QED BY <2>1, <2>2 DEF IInv, Numbered
<1> QED BY <1>1, Invariance, PTL

\* No server process is lost: it is in its handshake, registered under its name, or was
\* replaced there by a later connect.
THEOREM ServersAreReachable == Spec => []NoOrphan
<1>1. IInv => NoOrphan
  BY DEF IInv
<1> QED BY <1>1, Invariance, PTL

\* The browser tools have one server process at most, however their calls, failed
\* connects, disconnects and disposals interleave.
THEOREM BrowserIsShared == Spec => []OneBrowser
<1>1. IInv => OneBrowser
  <2> SUFFICES ASSUME IInv, NEW c \in BrowserConnects, NEW d \in BrowserConnects,
                      stage[c] = "starting" \/ process[c] = "alive",
                      stage[d] = "starting" \/ process[d] = "alive"
               PROVE  c = d
    BY DEF OneBrowser
  <2>1. \A b \in BrowserConnects :
          b \in Connects /\ IdOf[b] = BrowserId /\ b \notin replaced /\ b # None
    BY McpAssumption DEF IInv, Shared
  <2>2. ASSUME NEW b \in BrowserConnects, stage[b] = "starting" \/ process[b] = "alive"
        PROVE  \/ connecting = b /\ connections[BrowserId] = None
               \/ connections[BrowserId] = b
    BY <2>1, <2>2 DEF IInv, NoOrphan, Shared
  <2> QED BY <2>1, <2>2
<1> QED BY <1>1, Invariance, PTL

\* The safety part of EverySettles: a connect or a call that is not settled has an import
\* to end, a request that waits (and, of a stdio transport, has a timer), or a connect of
\* which the same is true or that is settled.
Held(by, asks) ==
  \E c \in Connects : \E m \in pending[c] :
    m.request = Request(by, asks) /\ (c \in Stdio => m.id \in timers[c])

NobodyIsForgotten ==
  /\ \A c \in Connects :
       stage[c] \in {"handshake", "discovering"} =>
         Held(c, "initialize") \/ Held(c, "tools/list")
  /\ \A k \in Calls :
       /\ call[k] = "waiting" => Held(k, "tools/call")
       /\ call[k] = "connecting" => stage[awaited[k]] # "idle"

\* Nobody waits for a request or a connect that nothing will settle: no transport drops a
\* promise, whatever a server does and whoever closes it.
THEOREM NobodyIsLeft == Spec => []NobodyIsForgotten
<1>1. IInv => NobodyIsForgotten
  <2> SUFFICES ASSUME IInv PROVE NobodyIsForgotten
    OBVIOUS
  <2>1. ASSUME NEW by, NEW asks, NEW c \in Connects, NEW m \in pending[c],
               m.request = Request(by, asks)
        PROVE  Held(by, asks)
    <3>1. c \in Stdio => m.id \in timers[c]
      BY DEF IInv, PendingTimed
    <3> QED BY <2>1, <3>1 DEF Held
  <2>2. \A c \in Connects :
          stage[c] \in {"handshake", "discovering"} =>
            Held(c, "initialize") \/ Held(c, "tools/list")
    BY <2>1 DEF IInv, Attended
  <2>3. \A k \in Calls : call[k] = "waiting" => Held(k, "tools/call")
    BY <2>1 DEF IInv, Attended
  <2>4. \A k \in Calls : call[k] = "connecting" => stage[awaited[k]] # "idle"
    BY DEF IInv, Attended
  <2> QED BY <2>2, <2>3, <2>4 DEF NobodyIsForgotten
<1> QED BY <1>1, Invariance, PTL

=============================================================================
