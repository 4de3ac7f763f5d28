-------------------------- MODULE JsExecQueueProofs --------------------------
(***************************************************************************)
(* Proofs about JsExecQueue: type correctness, the four safety invariants, *)
(* the safety half of EveryCallAnswered and the refinement of CallsInTurn, *)
(* for any number of calls, sessions and workers.                          *)
(*                                                                         *)
(* A handler changes some variables and then calls processNextExecution,   *)
(* so the inductive invariant is stated of any values of the variables:    *)
(* Inv holds of what a handler passes on, and ProcessNextKeeps says that   *)
(* processNextExecution makes a state that satisfies it, wherever it is    *)
(* called from.                                                            *)
(***************************************************************************)
EXTENDS JsExecQueue, SequenceTheorems, TLAPS

Events == Execs \cup {"error", "exit"}

Types(q, cur, sh, ses, ans, cre, dea, inb, out) ==
  /\ q \in Seq(Execs)
  /\ cur \in Execs \cup {None}
  /\ sh \in Execs \cup {None}
  /\ ses \in [Sessions -> Execs \cup {None}]
  /\ ans \in [Execs -> Answers]
  /\ cre \subseteq Execs /\ dea \subseteq cre
  /\ inb \in [Execs -> SUBSET Execs]
  /\ out \in [Execs -> Seq(Events)]

\* Who waits in the queue has been called, waits once and was given no worker.
Waiting(q, ans, cre) ==
  /\ \A i \in 1..Len(q) : ans[q[i]] # "uncalled" /\ q[i] \notin cre
  /\ \A i, j \in 1..Len(q) : q[i] = q[j] => i = j

\* Nothing is posted to or by a worker that was not created.
Fresh(ans, cre, inb, out) ==
  \A e \in Execs :
    /\ ans[e] = "uncalled" => e \notin cre
    /\ e \notin cre => inb[e] = {} /\ out[e] = <<>>

\* The shared worker was created for a call without a session, and the
\* worker of a session for a call of that session.
Owners(sh, ses, cre) ==
  /\ sh # None => sh \in cre /\ SessionOf[sh] = None
  /\ \A s \in Sessions : ses[s] # None => ses[s] \in cre /\ SessionOf[ses[s]] = s

\* The shared worker has the current execution at most, and the message of
\* it at most once, in place of the execution.
AtWork(cur, sh, inb, out) ==
  sh # None =>
    /\ inb[sh] \subseteq {cur}
    /\ \A i \in 1..Len(out[sh]) :
         out[sh][i] \in Execs =>
           /\ out[sh][i] = cur
           /\ inb[sh] = {}
           /\ \A j \in 1..Len(out[sh]) : out[sh][j] \in Execs => j = i

\* A live worker that executes a call without a session is the shared one.
OnlyShared(sh, dea, inb) ==
  \A w \in Execs, e \in Sessionless : e \in inb[w] /\ w \notin dea => w = sh

\* Only a dead worker reports its end.
Gone(dea, out) ==
  \A w \in Execs : \A i \in 1..Len(out[w]) :
    out[w][i] \in {"error", "exit"} => w \in dea

Kept(sh, ses, cre, dea) ==
  \A w \in cre : w \in dea \/ w = sh \/ \E s \in Sessions : ses[s] = w

Inv(q, cur, sh, ses, ans, cre, dea, inb, out) ==
  /\ Types(q, cur, sh, ses, ans, cre, dea, inb, out)
  /\ Waiting(q, ans, cre)
  /\ Fresh(ans, cre, inb, out)
  /\ Owners(sh, ses, cre)
  /\ AtWork(cur, sh, inb, out)
  /\ OnlyShared(sh, dea, inb)
  /\ Gone(dea, out)
  /\ Kept(sh, ses, cre, dea)

NowInv == Inv(queue, current, shared, session, answer, created, dead, inbox, outbox)

IInv ==
  /\ NowInv
  /\ idle \in BOOLEAN
  /\ canceled \subseteq Execs
  /\ NoLostWakeup
  /\ NoForeignAnswer

-----------------------------------------------------------------------------
(***************************************************************************)
(* The operators.                                                          *)
(***************************************************************************)

\* resolve() neither makes nor unmakes a call, whatever it is given.
LEMMA ResolvedKeeps ==
  ASSUME answer \in [Execs -> Answers], NEW S, NEW with \in Answers,
         with # "uncalled", with # "malformed"
  PROVE  /\ Resolved(S, with) \in [Execs -> Answers]
         /\ \A e \in Execs : Resolved(S, with)[e] = "uncalled" <=> answer[e] = "uncalled"
         /\ \A e \in Execs : Resolved(S, with)[e] = "malformed" => answer[e] = "malformed"
  BY DEF Resolved, Answers

\* What processNextExecution leaves in the queue are the calls behind the
\* canceled ones, in their order.
LEMMA RestOfQueue ==
  ASSUME NEW q \in Seq(Execs), NEW n \in 0..Len(q), NEW ans, NEW cre,
         Waiting(q, ans, cre)
  PROVE  /\ SubSeq(q, n + 1, Len(q)) \in Seq(Execs)
         /\ Waiting(SubSeq(q, n + 1, Len(q)), ans, cre)
<1> DEFINE r == SubSeq(q, n + 1, Len(q))
<1>1. Len(q) \in Nat /\ n \in Nat /\ n + 1 \in Int /\ Len(q) \in Int
  BY LenProperties
<1>2. \A i \in n + 1 .. Len(q) : q[i] \in Execs
  BY <1>1, ElementOfSeq
<1>3. /\ r \in Seq(Execs)
      /\ Len(r) = IF n + 1 <= Len(q) THEN Len(q) - (n + 1) + 1 ELSE 0
      /\ \A i \in 1 .. Len(q) - (n + 1) + 1 : r[i] = q[n + 1 + i - 1]
  BY <1>1, <1>2, SubSeqProperties
<1>4. /\ Len(r) = Len(q) - n
      /\ \A i \in 1 .. Len(r) : n + i \in 1..Len(q) /\ r[i] = q[n + i]
  BY <1>1, <1>3
<1> QED BY <1>1, <1>3, <1>4 DEF Waiting

\* The worker for a call was created before or is named after the call; it
\* is the shared one, or the session's own.
LEMMA WorkerForKnown ==
  ASSUME NEW e \in Execs, NEW sh, NEW ses, ses = session,
         sh \in Execs \cup {None}, ses \in [Sessions -> Execs \cup {None}],
         Owners(sh, ses, created)
  PROVE  LET w == WorkerFor(e, sh)
         IN  /\ w \in Execs
             /\ w # e => w \in created
             /\ SessionOf[w] = SessionOf[e]
             /\ SessionOf[e] = None => w = sh \/ (sh = None /\ w = e)
             /\ SessionOf[e] # None =>
                  w = ses[SessionOf[e]] \/ (ses[SessionOf[e]] = None /\ w = e)
  BY JsExecAssumption DEF WorkerFor, Owners

(***************************************************************************)
(* worker.terminate(): every worker of W is dead afterwards, and nothing   *)
(* else is told of the others.                                             *)
(***************************************************************************)
LEMMA TerminateKeeps ==
  ASSUME NowInv, NEW W \in SUBSET created, Terminate(W)
  PROVE  /\ dead' = dead \cup W
         /\ dead' \subseteq created
         /\ outbox' \in [Execs -> Seq(Events)]
         /\ \A w \in Execs \ W : outbox'[w] = outbox[w]
         /\ \A e \in Execs : e \notin created => outbox'[e] = <<>>
         /\ Gone(dead', outbox')
<1> USE DEF NowInv, Inv, Types
<1>1. "exit" \in Events
  BY DEF Events
<1>2. \A w \in Execs :
        /\ outbox'[w] = IF w \in W \ dead THEN Append(outbox[w], "exit") ELSE outbox[w]
        /\ outbox[w] \in Seq(Events)
  BY DEF Terminate, Workers
<1>3. \A w \in Execs : 
        /\ Append(outbox[w], "exit") \in Seq(Events)
        /\ Len(Append(outbox[w], "exit")) = Len(outbox[w]) + 1
        /\ Len(outbox[w]) \in Nat
        /\ \A i \in 1..Len(outbox[w]) : Append(outbox[w], "exit")[i] = outbox[w][i]
  BY <1>1, <1>2, AppendProperties, LenProperties
<1>4. outbox' \in [Execs -> Seq(Events)]
  BY <1>2, <1>3 DEF Terminate, Workers
<1>5. dead' = dead \cup W /\ dead' \subseteq created
  BY DEF Terminate
<1>6. \A e \in Execs : e \notin created => outbox'[e] = <<>>
  BY <1>2 DEF Fresh
<1>7. Gone(dead', outbox')
  <2> SUFFICES ASSUME NEW w \in Execs, NEW i \in 1..Len(outbox'[w]),
                      outbox'[w][i] \in {"error", "exit"}
               PROVE  w \in dead'
    BY DEF Gone
  <2>1. CASE w \in W
    BY <2>1, <1>5
  <2>2. CASE w \notin W
    BY <2>2, <1>2, <1>5 DEF Gone
  <2> QED BY <2>1, <2>2
<1> QED BY <1>2, <1>4, <1>5, <1>6, <1>7

-----------------------------------------------------------------------------
(***************************************************************************)
(* processNextExecution.                                                   *)
(***************************************************************************)

\* Posting the first execution of a queue to the worker for it.
LEMMA DispatchKeeps ==
  ASSUME NEW q, NEW sh, NEW ans, NEW dea, NEW out,
         Inv(q, None, sh, session, ans, created, dea, inbox, out),
         q # <<>>, Dispatch(q, sh)
  PROVE  /\ Inv(queue', current', shared', session', ans, created', dea, inbox', out)
         /\ current' # None
<1> DEFINE e == Head(q)
           w == WorkerFor(e, sh)
<1> USE DEF Inv
<1>1. q \in Seq(Execs) /\ Len(q) \in Nat
  BY LenProperties DEF Types
<1>2. /\ e \in Execs /\ e = q[1] /\ 1 \in 1..Len(q)
      /\ Tail(q) \in Seq(Execs)
      /\ Len(Tail(q)) = Len(q) - 1
      /\ \A i \in 1..Len(Tail(q)) : i + 1 \in 1..Len(q) /\ Tail(q)[i] = q[i + 1]
  BY <1>1, HeadTailProperties, EmptySeq
<1>3. /\ e # None /\ e \notin created /\ ans[e] # "uncalled"
      /\ \A i \in 1..Len(Tail(q)) : Tail(q)[i] # e
  BY <1>2, JsExecAssumption DEF Waiting
<1>4. /\ w \in Execs
      /\ w # e => w \in created
      /\ SessionOf[w] = SessionOf[e]
      /\ SessionOf[e] = None => w = sh \/ (sh = None /\ w = e)
      /\ SessionOf[e] # None =>
           w = session[SessionOf[e]] \/ (session[SessionOf[e]] = None /\ w = e)
  BY <1>2, WorkerForKnown DEF Types
<1>5. /\ queue' = Tail(q) /\ current' = e
      /\ shared' = (IF SessionOf[e] = None THEN w ELSE sh)
      /\ session' = (IF SessionOf[e] = None THEN session
                       ELSE [session EXCEPT ![SessionOf[e]] = w])
      /\ created' = created \cup {w}
      /\ inbox' = [inbox EXCEPT ![w] = @ \cup {e}]
  BY DEF Dispatch
<1>6. SessionOf[e] \in Sessions \cup {None} /\ None \notin Sessions /\ None \notin Execs
  BY <1>2, JsExecAssumption
<1>7. Types(queue', current', shared', session', ans, created', dea, inbox', out)
  BY <1>2, <1>4, <1>5, <1>6 DEF Types
<1>8. Waiting(queue', ans, created')
  BY <1>2, <1>3, <1>4, <1>5 DEF Waiting
<1>9. Fresh(ans, created', inbox', out)
  BY <1>3, <1>4, <1>5 DEF Fresh, Types
<1>10. Owners(shared', session', created')
  BY <1>4, <1>5, <1>6 DEF Owners, Types
<1>11. /\ w = e => inbox[w] = {} /\ out[w] = <<>>
       /\ inbox'[w] = inbox[w] \cup {e}
       /\ \A v \in Execs : v # w => inbox'[v] = inbox[v]
  BY <1>2, <1>3, <1>4, <1>5 DEF Fresh, Types
<1>12. AtWork(current', shared', inbox', out)
  <2>1. CASE SessionOf[e] = None
    <3>1. inbox[w] = {}
      BY <2>1, <1>4, <1>6, <1>11 DEF AtWork, Types
    <3>2. \A i \in 1..Len(out[w]) : out[w][i] \notin Execs
      <4>1. CASE w = e
        BY <4>1, <1>11, EmptySeq
      <4>2. CASE w = sh /\ w # e
        BY <4>2, <1>4, <1>6 DEF AtWork
      <4> QED BY <4>1, <4>2, <2>1, <1>4
    <3> QED BY <2>1, <3>1, <3>2, <1>5, <1>11 DEF AtWork
  <2>2. CASE SessionOf[e] # None
    <3>1. SUFFICES ASSUME sh # None PROVE AtWork(e, sh, inbox', out)
      BY <2>2, <1>5 DEF AtWork
    <3>2. sh \in Execs /\ SessionOf[sh] = None /\ w # sh
      BY <3>1, <2>2, <1>4 DEF Owners, Types
    <3>3. inbox'[sh] = inbox[sh] /\ inbox[sh] = {}
      BY <3>1, <3>2, <1>6, <1>11 DEF AtWork, Types
    <3>4. \A i \in 1..Len(out[sh]) : out[sh][i] \notin Execs
      BY <3>1, <1>6 DEF AtWork
    <3> QED BY <3>3, <3>4 DEF AtWork
  <2> QED BY <2>1, <2>2
<1>13. OnlyShared(shared', dea, inbox')
  <2>1. SUFFICES ASSUME NEW v \in Execs, NEW x \in Sessionless,
                        x \in inbox'[v], v \notin dea
                 PROVE  v = shared'
    BY DEF OnlyShared
  <2>2. CASE x \in inbox[v]
    BY <2>1, <2>2, <1>4, <1>5, <1>6 DEF OnlyShared, Types
  <2>3. CASE x \notin inbox[v]
    <3>1. x = e /\ v = w
      BY <2>1, <2>3, <1>11
    <3> QED BY <3>1, <1>5 DEF Sessionless
  <2> QED BY <2>2, <2>3
<1>14. Gone(dea, out)
  OBVIOUS
<1>15. Kept(shared', session', created', dea)
  <2>1. SUFFICES ASSUME NEW v \in created', v \notin dea, v # shared'
                 PROVE  \E s \in Sessions : session'[s] = v
    BY DEF Kept
  <2>2. CASE SessionOf[e] = None
    BY <2>1, <2>2, <1>4, <1>5, <1>6 DEF Kept, Types, Owners
  <2>3. CASE SessionOf[e] # None
    <3>1. session'[SessionOf[e]] = w
      BY <2>3, <1>5, <1>6 DEF Types
    <3>2. CASE v = w
      BY <3>1, <3>2, <2>3, <1>6
    <3>3. CASE v # w
      <4>1. PICK s \in Sessions : session[s] = v
        BY <2>1, <2>3, <3>3, <1>5 DEF Kept
      <4>2. s # SessionOf[e]
        BY <4>1, <3>3, <1>4, <2>3, JsExecAssumption, <2>1, <1>7 DEF Types
      <4> QED BY <4>1, <4>2, <2>3, <1>5 DEF Types
    <3> QED BY <3>2, <3>3
  <2> QED BY <2>2, <2>3
<1> HIDE DEF Inv
<1>16. Inv(queue', current', shared', session', ans, created', dea, inbox', out)
  BY <1>7, <1>8, <1>9, <1>10, <1>12, <1>13, <1>14, <1>15 DEF Inv
<1> QED BY <1>3, <1>5, <1>16

(***************************************************************************)
(* Whatever handler calls it: with the queue, the current execution and    *)
(* the shared worker it passes, and the answers, dead workers and events   *)
(* it has made.                                                            *)
(***************************************************************************)
LEMMA ProcessNextKeeps ==
  ASSUME NEW q, NEW cur, NEW sh,
         Inv(q, cur, sh, session, answer', created, dead', inbox, outbox'),
         ProcessNext(q, cur, sh)
  PROVE  NowInv' /\ NoLostWakeup'
<1>1. PICK n \in 0..Len(q) :
        LET rest == SubSeq(q, n + 1, Len(q))
        IN  IF cur # None \/ rest = <<>> THEN Idles(rest, cur, sh) /\ UNCHANGED idle
                                        ELSE Dispatch(rest, sh)
  BY DEF ProcessNext
<1> DEFINE rest == SubSeq(q, n + 1, Len(q))
<1>2. rest \in Seq(Execs) /\ Waiting(rest, answer', created)
  BY RestOfQueue DEF Inv, Types
<1>3. Inv(rest, cur, sh, session, answer', created, dead', inbox, outbox')
  BY <1>2 DEF Inv, Types
<1> HIDE DEF rest
<1>4. CASE cur # None \/ rest = <<>>
  <2>1. Idles(rest, cur, sh)
    BY <1>1, <1>4 DEF rest
  <2>2. NowInv'
    BY <2>1, <1>3 DEF Idles, NowInv
  <2>3. queue' = rest /\ current' = cur
    BY <2>1 DEF Idles
  <2>4. current' = None => \A i \in 1..Len(queue') : queue'[i] \in canceled'
    BY <1>4, <2>3
  <2> QED BY <2>2, <2>4 DEF NoLostWakeup
<1>5. CASE ~(cur # None \/ rest = <<>>)
  <2>1. Dispatch(rest, sh)
    BY <1>1, <1>5 DEF rest
  <2>2. Inv(rest, None, sh, session, answer', created, dead', inbox, outbox')
    BY <1>3, <1>5
  <2>3. /\ Inv(queue', current', shared', session', answer', created', dead', inbox', outbox')
        /\ current' # None
    BY <1>5, <2>1, <2>2, DispatchKeeps
  <2> QED BY <2>3 DEF NowInv, NoLostWakeup
<1> QED BY <1>4, <1>5

\* The idle timer is running or not.
LEMMA ProcessNextIdle ==
  ASSUME NEW q, NEW cur, NEW sh, ProcessNext(q, cur, sh), idle \in BOOLEAN
  PROVE  idle' \in BOOLEAN
  BY DEF ProcessNext, Idles, Dispatch

-----------------------------------------------------------------------------
(***************************************************************************)
(* The handlers.                                                           *)
(***************************************************************************)
LEMMA InitInv == Init => IInv
<1> SUFFICES ASSUME Init PROVE IInv
  OBVIOUS
<1> USE JsExecAssumption
<1>1. Types(queue, current, shared, session, answer, created, dead, inbox, outbox)
  BY EmptySeq DEF Init, Types, Answers, Workers
<1>2. Waiting(queue, answer, created) /\ NoLostWakeup
  BY EmptySeq DEF Init, Waiting, NoLostWakeup
<1>3. Fresh(answer, created, inbox, outbox)
  BY DEF Init, Fresh, Workers
<1>4. Owners(shared, session, created) /\ AtWork(current, shared, inbox, outbox)
  BY DEF Init, Owners, AtWork
<1>5. OnlyShared(shared, dead, inbox) /\ Kept(shared, session, created, dead)
  BY DEF Init, OnlyShared, Kept, Workers
<1>6. Gone(dead, outbox)
  BY EmptySeq DEF Init, Gone, Workers
<1>7. idle \in BOOLEAN /\ canceled \subseteq Execs /\ NoForeignAnswer
  BY DEF Init, NoForeignAnswer
<1> QED BY <1>1, <1>2, <1>3, <1>4, <1>5, <1>6, <1>7 DEF IInv, NowInv, Inv

\* A call that joins the queue.
LEMMA Joins ==
  ASSUME IInv, NEW e \in Execs, answer[e] = "uncalled",
         answer' = [answer EXCEPT ![e] = "pending"], dead' = dead, outbox' = outbox
  PROVE  LET q == Append(queue, e)
         IN  /\ q \in Seq(Execs) /\ Len(q) = Len(queue) + 1 /\ Len(queue) \in Nat
             /\ \A i \in 1..Len(queue) : q[i] = queue[i] /\ queue[i] \in Execs
             /\ q[Len(queue) + 1] = e
             /\ answer' \in [Execs -> Answers] /\ answer'[e] = "pending"
             /\ \A x \in Execs : x # e => answer'[x] = answer[x]
             /\ Inv(q, current, shared, session, answer', created, dead', inbox, outbox')
<1> DEFINE q == Append(queue, e)
<1> USE DEF IInv, NowInv, Inv
<1>2. /\ q \in Seq(Execs) /\ Len(q) = Len(queue) + 1 /\ Len(queue) \in Nat
      /\ \A i \in 1..Len(queue) : q[i] = queue[i] /\ queue[i] \in Execs
      /\ q[Len(queue) + 1] = e
  BY AppendProperties, LenProperties, ElementOfSeq DEF Types
<1>3. /\ answer' \in [Execs -> Answers] /\ answer'[e] = "pending"
      /\ \A x \in Execs : x # e => answer'[x] = answer[x]
  BY DEF Types, Answers
<1>4. e \notin created /\ \A i \in 1..Len(queue) : queue[i] # e
  BY <1>2 DEF Fresh, Waiting
<1>5. Waiting(q, answer', created)
  BY <1>2, <1>3, <1>4 DEF Waiting
<1>6. Fresh(answer', created, inbox, outbox')
  BY <1>3 DEF Fresh
<1>7. Types(q, current, shared, session, answer', created, dead', inbox, outbox')
  BY <1>2, <1>3 DEF Types
<1> HIDE DEF q
<1>8. Inv(q, current, shared, session, answer', created, dead', inbox, outbox')
  BY <1>5, <1>6, <1>7
<1> QED BY <1>2, <1>3, <1>8 DEF q

LEMMA EnqueueKeeps ==
  ASSUME IInv, NEW e \in Execs, Enqueue(e) PROVE IInv'
<1>1. /\ answer[e] = "uncalled" /\ answer' = [answer EXCEPT ![e] = "pending"]
      /\ canceled' = canceled /\ dead' = dead /\ outbox' = outbox
      /\ ProcessNext(Append(queue, e), current, shared)
  BY DEF Enqueue
<1>2. /\ answer'[e] = "pending" /\ \A x \in Execs : x # e => answer'[x] = answer[x]
      /\ Inv(Append(queue, e), current, shared, session, answer', created, dead', inbox, outbox')
  BY <1>1, Joins
<1>3. NowInv' /\ NoLostWakeup'
  BY <1>1, <1>2, ProcessNextKeeps
<1>4. NoForeignAnswer'
  BY <1>2 DEF NoForeignAnswer, IInv
<1>5. idle' \in BOOLEAN
  BY <1>1, ProcessNextIdle DEF IInv
<1> QED BY <1>1, <1>3, <1>4, <1>5 DEF IInv

\* A handler that terminates the shared worker and answers the current execution.
LEMMA GivesUp ==
  ASSUME NowInv, Terminate({shared} \ {None}), answer' \in [Execs -> Answers],
         \A x \in Execs : answer'[x] = "uncalled" <=> answer[x] = "uncalled"
  PROVE  Inv(queue, None, None, session, answer', created, dead', inbox, outbox')
<1>1. {shared} \ {None} \in SUBSET created
  BY DEF NowInv, Inv, Owners
<1>2. /\ dead' = dead \cup ({shared} \ {None}) /\ dead' \subseteq created
      /\ outbox' \in [Execs -> Seq(Events)]
      /\ \A x \in Execs : x \notin created => outbox'[x] = <<>>
      /\ Gone(dead', outbox')
  BY <1>1, TerminateKeeps
<1> USE DEF NowInv, Inv
<1>3. Waiting(queue, answer', created)
  BY ElementOfSeq DEF Waiting, Types
<1>4. Types(queue, None, None, session, answer', created, dead', inbox, outbox')
  BY <1>2 DEF Types
<1>5. Fresh(answer', created, inbox, outbox')
  BY <1>2 DEF Fresh
<1>6. Owners(None, session, created) /\ AtWork(None, None, inbox, outbox')
  BY DEF Owners, AtWork
<1>7. OnlyShared(None, dead', inbox)
  <2>1. SUFFICES ASSUME NEW w \in Execs, NEW x \in Sessionless,
                        x \in inbox[w], w \notin dead'
                 PROVE  FALSE
    BY DEF OnlyShared
  <2>2. w = shared /\ w # None
    BY <2>1, <1>2, JsExecAssumption DEF OnlyShared
  <2> QED BY <2>1, <2>2, <1>2
<1>8. Kept(None, session, created, dead')
  BY <1>2, JsExecAssumption DEF Kept, Types
<1> QED BY <1>2, <1>3, <1>4, <1>5, <1>6, <1>7, <1>8

LEMMA TimeoutKeeps ==
  ASSUME IInv, NEW e \in Execs, Timeout(e) PROVE IInv'
<1> USE DEF IInv, NowInv, Inv
<1>1. /\ answer' \in [Execs -> Answers]
      /\ \A x \in Execs : answer'[x] = "uncalled" <=> answer[x] = "uncalled"
      /\ \A x \in Execs : answer'[x] = "malformed" => answer[x] = "malformed"
  <2>1. answer' = Resolved({e}, "timeout")
    BY DEF Timeout
  <2>2. answer \in [Execs -> Answers] /\ "timeout" \in Answers
    BY DEF Types, Answers
  <2> HIDE DEF IInv, NowInv, Inv
  <2> QED BY <2>1, <2>2, ResolvedKeeps
<1>2. NoForeignAnswer'
  BY <1>1 DEF NoForeignAnswer
<1>3. Waiting(queue, answer', created)
  BY <1>1, ElementOfSeq DEF Waiting, Types
<1>4. CASE current = e
  <2>1. /\ Terminate({shared} \ {None}) /\ canceled' = canceled
        /\ ProcessNext(queue, None, None)
    BY <1>4 DEF Timeout
  <2>2. Inv(queue, None, None, session, answer', created, dead', inbox, outbox')
    <3> HIDE DEF IInv, Inv
    <3> QED BY <1>1, <2>1, GivesUp DEF IInv
  <2>3. NowInv' /\ NoLostWakeup'
    <3> HIDE DEF IInv, NowInv, Inv
    <3> QED BY <2>1, <2>2, ProcessNextKeeps
  <2>4. idle' \in BOOLEAN
    BY <2>1, ProcessNextIdle
  <2> QED BY <1>2, <2>1, <2>3, <2>4
<1>5. CASE current # e
  <2>1. canceled' = canceled \cup {e} /\ dead' = dead /\ outbox' = outbox
    BY <1>5 DEF Timeout
  <2>2. Inv(queue, current, shared, session, answer', created, dead', inbox, outbox')
    BY <1>1, <1>3, <2>1 DEF Types, Fresh
  <2>3. CASE current = None
    <3>1. ProcessNext(queue, current, shared)
      BY <1>5, <2>3 DEF Timeout
    <3>2. NowInv' /\ NoLostWakeup'
      <4> HIDE DEF IInv, NowInv, Inv
      <4> QED BY <3>1, <2>2, ProcessNextKeeps
    <3>3. idle' \in BOOLEAN
      BY <3>1, ProcessNextIdle
    <3> QED BY <1>2, <2>1, <3>2, <3>3
  <2>4. CASE current # None
    <3>1. Idles(queue, current, shared) /\ idle' = idle
      BY <1>5, <2>4 DEF Timeout
    <3>2. /\ queue' = queue /\ current' = current /\ shared' = shared
          /\ session' = session /\ created' = created /\ inbox' = inbox
      BY <3>1 DEF Idles
    <3>3. NowInv'
      <4> HIDE DEF Inv
      <4> QED BY <2>2, <3>2
    <3>4. NoLostWakeup'
      BY <2>4, <3>2 DEF NoLostWakeup
    <3> QED BY <1>2, <2>1, <3>1, <3>3, <3>4
  <2> QED BY <2>3, <2>4
<1> QED BY <1>4, <1>5

LEMMA IdleTimeoutKeeps ==
  ASSUME IInv, IdleTimeout PROVE IInv'
<1> USE DEF IInv, NowInv, Inv
<1>1. /\ idle' = FALSE /\ queue' = queue /\ current' = current /\ session' = session
      /\ canceled' = canceled /\ answer' = answer /\ created' = created /\ inbox' = inbox
  BY DEF IdleTimeout
<1>2. NoLostWakeup' /\ NoForeignAnswer'
  BY <1>1 DEF NoLostWakeup, NoForeignAnswer
<1>3. CASE shared # None /\ current = None /\ queue = <<>>
  <2>1. shared' = None /\ Terminate({shared})
    BY <1>3 DEF IdleTimeout
  <2>2. {shared} \in SUBSET created
    BY <1>3 DEF Owners
  <2>3. /\ dead' = dead \cup {shared} /\ dead' \subseteq created
        /\ outbox' \in [Execs -> Seq(Events)]
        /\ \A x \in Execs : x \notin created => outbox'[x] = <<>>
        /\ Gone(dead', outbox')
    BY <2>1, <2>2, TerminateKeeps
  <2>4. Types(queue', current', shared', session', answer', created', dead', inbox', outbox')
    BY <1>1, <2>1, <2>3 DEF Types
  <2>5. Waiting(queue', answer', created') /\ Fresh(answer', created', inbox', outbox')
    BY <1>1, <2>3 DEF Fresh, Waiting
  <2>6. Owners(shared', session', created') /\ AtWork(current', shared', inbox', outbox')
    BY <1>1, <2>1 DEF Owners, AtWork
  <2>7. OnlyShared(shared', dead', inbox') /\ Kept(shared', session', created', dead')
    BY <1>1, <2>1, <2>3 DEF OnlyShared, Kept
  <2> QED BY <1>1, <1>2, <2>3, <2>4, <2>5, <2>6, <2>7
<1>4. CASE ~(shared # None /\ current = None /\ queue = <<>>)
  <2>1. shared' = shared /\ dead' = dead /\ outbox' = outbox
    BY <1>4 DEF IdleTimeout
  <2>2. NowInv'
    <3> HIDE DEF Inv
    <3> QED BY <1>1, <2>1
  <2> QED BY <1>1, <1>2, <2>2
<1> QED BY <1>3, <1>4

LEMMA CloseSessionKeeps ==
  ASSUME IInv, NEW s \in Sessions, CloseSession(s) PROVE IInv'
<1> DEFINE w == session[s]
<1> USE DEF IInv, NowInv, Inv
<1>1. /\ w # None /\ Terminate({w}) /\ session' = [session EXCEPT ![s] = None]
      /\ queue' = queue /\ current' = current /\ shared' = shared /\ idle' = idle
      /\ canceled' = canceled /\ answer' = answer /\ created' = created /\ inbox' = inbox
  BY DEF CloseSession
<1>2. w \in created /\ SessionOf[w] = s /\ w # shared /\ s # None
  BY <1>1, JsExecAssumption DEF Owners
<1>3. /\ dead' = dead \cup {w} /\ dead' \subseteq created
      /\ outbox' \in [Execs -> Seq(Events)]
      /\ \A v \in Execs \ {w} : outbox'[v] = outbox[v]
      /\ \A x \in Execs : x \notin created => outbox'[x] = <<>>
      /\ Gone(dead', outbox')
  <2>1. {w} \in SUBSET created
    BY <1>2
  <2> HIDE DEF w
  <2> QED BY <1>1, <2>1, TerminateKeeps
<1>4. Types(queue', current', shared', session', answer', created', dead', inbox', outbox')
  BY <1>1, <1>3 DEF Types
<1>5. Waiting(queue', answer', created') /\ Fresh(answer', created', inbox', outbox')
  BY <1>1, <1>3 DEF Fresh, Waiting
<1>6. Owners(shared', session', created')
  BY <1>1, <1>2 DEF Owners, Types
<1>7. AtWork(current', shared', inbox', outbox')
  BY <1>1, <1>2, <1>3 DEF AtWork, Types
<1>8. OnlyShared(shared', dead', inbox')
  BY <1>1, <1>3 DEF OnlyShared
<1>9. Kept(shared', session', created', dead')
  BY <1>1, <1>3 DEF Kept, Types
<1>10. NoLostWakeup' /\ NoForeignAnswer'
  BY <1>1 DEF NoLostWakeup, NoForeignAnswer
<1> QED BY <1>1, <1>3, <1>4, <1>5, <1>6, <1>7, <1>8, <1>9, <1>10

(***************************************************************************)
(* Taking the first event of a worker.                                     *)
(***************************************************************************)
LEMMA TakenKeeps ==
  ASSUME NowInv, NEW w \in Execs, outbox[w] # <<>>, Taken(w)
  PROVE  /\ w \in created
         /\ Head(outbox[w]) = outbox[w][1] /\ 1 \in 1..Len(outbox[w])
         /\ outbox' \in [Execs -> Seq(Events)]
         /\ Len(outbox'[w]) = Len(outbox[w]) - 1
         /\ \A i \in 1..Len(outbox'[w]) :
              i + 1 \in 1..Len(outbox[w]) /\ outbox'[w][i] = outbox[w][i + 1]
         /\ \A v \in Execs : v # w => outbox'[v] = outbox[v]
         /\ \A e \in Execs : e \notin created => outbox'[e] = <<>>
         /\ Gone(dead, outbox')
         /\ AtWork(current, shared, inbox, outbox')
<1> USE DEF NowInv, Inv
<1>1. outbox[w] \in Seq(Events) /\ Len(outbox[w]) \in Nat \ {0}
  BY EmptySeq DEF Types
<1>2. /\ Head(outbox[w]) = outbox[w][1] /\ 1 \in 1..Len(outbox[w])
      /\ Tail(outbox[w]) \in Seq(Events)
      /\ Len(Tail(outbox[w])) = Len(outbox[w]) - 1
      /\ \A i \in 1..Len(Tail(outbox[w])) :
           i + 1 \in 1..Len(outbox[w]) /\ Tail(outbox[w])[i] = outbox[w][i + 1]
  BY <1>1, HeadTailProperties
<1>3. /\ outbox'[w] = Tail(outbox[w])
      /\ \A v \in Execs : v # w => outbox'[v] = outbox[v]
      /\ outbox' \in [Execs -> Seq(Events)]
  BY <1>2 DEF Taken, Types
<1>4. w \in created /\ \A e \in Execs : e \notin created => outbox'[e] = <<>>
  BY <1>3 DEF Fresh
<1>5. Gone(dead, outbox')
  <2>1. SUFFICES ASSUME NEW v \in Execs, NEW i \in 1..Len(outbox'[v]),
                        outbox'[v][i] \in {"error", "exit"}
                 PROVE  v \in dead
    BY DEF Gone
  <2>2. \E j \in 1..Len(outbox[v]) : outbox'[v][i] = outbox[v][j]
    <3>1. CASE v = w
      BY <3>1, <1>2, <1>3
    <3>2. CASE v # w
      BY <3>2, <1>3
    <3> QED BY <3>1, <3>2
  <2> QED BY <2>1, <2>2 DEF Gone
<1>6. AtWork(current, shared, inbox, outbox')
  <2>1. CASE shared = w
    <3>1. SUFFICES ASSUME NEW i \in 1..Len(outbox'[w]), outbox'[w][i] \in Execs
                   PROVE  /\ outbox'[w][i] = current
                          /\ inbox[w] = {}
                          /\ \A j \in 1..Len(outbox'[w]) : outbox'[w][j] \in Execs => j = i
      BY <2>1 DEF AtWork
    <3>2. i + 1 \in 1..Len(outbox[w]) /\ outbox'[w][i] = outbox[w][i + 1]
      BY <1>2, <1>3
    <3>3. /\ outbox'[w][i] = current
          /\ inbox[w] = {}
          /\ \A k \in 1..Len(outbox[w]) : outbox[w][k] \in Execs => k = i + 1
      BY <2>1, <3>1, <3>2, JsExecAssumption DEF AtWork
    <3>4. ASSUME NEW j \in 1..Len(outbox'[w]), outbox'[w][j] \in Execs PROVE j = i
      <4>1. j + 1 \in 1..Len(outbox[w]) /\ outbox[w][j + 1] \in Execs
        BY <3>4, <1>2, <1>3
      <4>2. j + 1 = i + 1 /\ j \in Nat /\ i \in Nat
        BY <3>3, <4>1, <1>2, <1>3, <1>1
      <4> QED BY <4>2
    <3> QED BY <3>3, <3>4
  <2>2. CASE shared # w
    BY <2>2, <1>3 DEF AtWork, Types
  <2> QED BY <2>1, <2>2
<1> QED BY <1>2, <1>3, <1>4, <1>5, <1>6

LEMMA IgnoreEventKeeps ==
  ASSUME IInv, NEW w \in Execs, IgnoreEvent(w) PROVE IInv'
<1> USE DEF IInv, NowInv, Inv
<1>1. /\ outbox[w] # <<>> /\ Taken(w)
      /\ queue' = queue /\ current' = current /\ shared' = shared /\ session' = session
      /\ idle' = idle /\ canceled' = canceled /\ answer' = answer
      /\ created' = created /\ dead' = dead /\ inbox' = inbox
  BY DEF IgnoreEvent, mainVars
<1>2. /\ outbox' \in [Execs -> Seq(Events)]
      /\ \A e \in Execs : e \notin created => outbox'[e] = <<>>
      /\ Gone(dead, outbox')
      /\ AtWork(current, shared, inbox, outbox')
  BY <1>1, TakenKeeps
<1>3. Types(queue', current', shared', session', answer', created', dead', inbox', outbox')
  BY <1>1, <1>2 DEF Types
<1>4. Fresh(answer', created', inbox', outbox')
  BY <1>1, <1>2 DEF Fresh
<1>5. NoLostWakeup' /\ NoForeignAnswer'
  BY <1>1 DEF NoLostWakeup, NoForeignAnswer
<1> QED BY <1>1, <1>2, <1>3, <1>4, <1>5

\* The first message of the shared worker answers the current execution, which the worker
\* has ended.
LEMMA OwnMessage ==
  ASSUME IInv, NEW w \in Execs, OnMessage(w)
  PROVE  /\ shared = w /\ shared # None
         /\ canceled' = canceled /\ dead' = dead
         /\ answer' = Resolved({current}, "result")
         /\ NoForeignAnswer'
         /\ Inv(queue, None, shared, session, answer', created, dead', inbox, outbox')
         /\ outbox[w] # <<>> /\ Head(outbox[w]) \in Execs /\ Taken(w)
<1> USE DEF IInv, NowInv, Inv
<1>1. /\ outbox[w] # <<>> /\ Taken(w) /\ Head(outbox[w]) \in Execs /\ shared = w
      /\ canceled' = canceled /\ dead' = dead
      /\ answer' = Resolved({current}, IF Head(outbox[w]) = current THEN "result"
                                                                    ELSE "malformed")
  BY DEF OnMessage, Ignored
<1>2. /\ Head(outbox[w]) = outbox[w][1] /\ 1 \in 1..Len(outbox[w])
      /\ outbox' \in [Execs -> Seq(Events)]
      /\ Len(outbox'[w]) = Len(outbox[w]) - 1
      /\ \A i \in 1..Len(outbox'[w]) :
           i + 1 \in 1..Len(outbox[w]) /\ outbox'[w][i] = outbox[w][i + 1]
      /\ \A e \in Execs : e \notin created => outbox'[e] = <<>>
      /\ Gone(dead, outbox')
  BY <1>1, TakenKeeps
<1>3. shared # None
  BY <1>1, JsExecAssumption
<1>4. /\ Head(outbox[w]) = current /\ inbox[w] = {}
      /\ \A j \in 1..Len(outbox[w]) : outbox[w][j] \in Execs => j = 1
  BY <1>1, <1>2, <1>3 DEF AtWork
<1>5. answer' = Resolved({current}, "result")
  BY <1>1, <1>4
<1>6. /\ answer' \in [Execs -> Answers]
      /\ \A x \in Execs : answer'[x] = "uncalled" <=> answer[x] = "uncalled"
      /\ \A x \in Execs : answer'[x] = "malformed" => answer[x] = "malformed"
  <2>1. answer \in [Execs -> Answers] /\ "result" \in Answers
    BY DEF Types, Answers
  <2> HIDE DEF IInv, NowInv, Inv
  <2> QED BY <1>5, <2>1, ResolvedKeeps
<1>7. NoForeignAnswer'
  BY <1>6 DEF NoForeignAnswer
<1>8. AtWork(None, shared, inbox, outbox')
  <2>1. \A i \in 1..Len(outbox'[w]) : outbox'[w][i] \notin Execs
    <3>1. SUFFICES ASSUME NEW i \in 1..Len(outbox'[w]), outbox'[w][i] \in Execs
                   PROVE  FALSE
      OBVIOUS
    <3>2. i + 1 \in 1..Len(outbox[w]) /\ outbox[w][i + 1] \in Execs
      BY <1>2, <3>1
    <3>3. i + 1 = 1 /\ i \in Nat \ {0}
      BY <1>4, <3>2
    <3> QED BY <3>3
  <2> QED BY <1>1, <1>4, <2>1 DEF AtWork
<1>9. Inv(queue, None, shared, session, answer', created, dead', inbox, outbox')
  <2>1. Types(queue, None, shared, session, answer', created, dead', inbox, outbox')
    BY <1>1, <1>2, <1>6 DEF Types
  <2>2. Waiting(queue, answer', created)
    BY <1>6, ElementOfSeq DEF Waiting, Types
  <2>3. Fresh(answer', created, inbox, outbox')
    BY <1>2, <1>6 DEF Fresh
  <2> QED BY <1>1, <1>2, <1>8, <2>1, <2>2, <2>3
<1> HIDE DEF IInv, NowInv, Inv
<1> QED BY <1>1, <1>3, <1>7, <1>9, <1>5

LEMMA OnMessageKeeps ==
  ASSUME IInv, NEW w \in Execs, OnMessage(w) PROVE IInv'
<1>1. /\ canceled' = canceled /\ NoForeignAnswer'
      /\ Inv(queue, None, shared, session, answer', created, dead', inbox, outbox')
  BY OwnMessage
<1> USE DEF IInv, NowInv
<1>2. CASE queue # <<>>
  <2>1. ProcessNext(queue, None, shared)
    BY <1>2 DEF OnMessage
  <2>2. NowInv' /\ NoLostWakeup'
    <3> HIDE DEF IInv, NowInv, Inv
    <3> QED BY <1>1, <2>1, ProcessNextKeeps
  <2>3. idle' \in BOOLEAN
    BY <2>1, ProcessNextIdle
  <2> QED BY <1>1, <2>2, <2>3
<1>3. CASE queue = <<>>
  <2>1. idle' = TRUE /\ Idles(queue, None, shared)
    BY <1>3 DEF OnMessage
  <2>2. /\ queue' = queue /\ current' = None /\ shared' = shared
        /\ session' = session /\ created' = created /\ inbox' = inbox
    BY <2>1 DEF Idles
  <2>3. NowInv'
    <3> HIDE DEF Inv
    <3> QED BY <1>1, <2>2
  <2>4. NoLostWakeup'
    BY <1>3, <2>2 DEF NoLostWakeup
  <2> QED BY <1>1, <2>1, <2>3, <2>4
<1> QED BY <1>2, <1>3

(***************************************************************************)
(* A worker that reported its end is dead, so the state without it as the  *)
(* shared worker, and without a current execution, satisfies the invariant *)
(* with any queue the handler keeps.                                       *)
(***************************************************************************)
LEMMA WithoutShared ==
  ASSUME NowInv, NEW w \in Execs, outbox[w] # <<>>, Taken(w), shared = w,
         Head(outbox[w]) \in {"error", "exit"}, dead' = dead,
         answer' \in [Execs -> Answers],
         \A x \in Execs : answer'[x] = "uncalled" <=> answer[x] = "uncalled",
         NEW q \in Seq(Execs), Waiting(q, answer, created)
  PROVE  Inv(q, None, None, session, answer', created, dead', inbox, outbox')
<1> USE DEF NowInv, Inv
<1>1. /\ Head(outbox[w]) = outbox[w][1] /\ 1 \in 1..Len(outbox[w])
      /\ outbox' \in [Execs -> Seq(Events)]
      /\ \A e \in Execs : e \notin created => outbox'[e] = <<>>
      /\ Gone(dead, outbox')
  BY TakenKeeps
<1>2. w \in dead
  BY <1>1 DEF Gone
<1>3. Types(q, None, None, session, answer', created, dead', inbox, outbox')
  BY <1>1 DEF Types
<1>4. Waiting(q, answer', created)
  BY ElementOfSeq DEF Waiting
<1>5. Fresh(answer', created, inbox, outbox')
  BY <1>1 DEF Fresh
<1>6. Owners(None, session, created) /\ AtWork(None, None, inbox, outbox')
  BY DEF Owners, AtWork
<1>7. OnlyShared(None, dead', inbox) /\ Kept(None, session, created, dead')
  BY <1>2 DEF OnlyShared, Kept
<1> QED BY <1>1, <1>3, <1>4, <1>5, <1>6, <1>7

LEMMA OnErrorKeeps ==
  ASSUME IInv, NEW w \in Execs, OnError(w) PROVE IInv'
<1> DEFINE S == {current} \cup {queue[i] : i \in 1..Len(queue)}
<1>1. /\ outbox[w] # <<>> /\ Taken(w) /\ Head(outbox[w]) = "error" /\ shared = w
      /\ canceled' = canceled /\ dead' = dead /\ idle' = idle
      /\ Idles(<<>>, None, None)
      /\ answer' = Resolved(S, "crashed")
  BY DEF OnError, Ignored
<1> HIDE DEF S
<1>2. answer \in [Execs -> Answers] /\ "crashed" \in Answers
  BY DEF IInv, NowInv, Inv, Types, Answers
<1>3. /\ answer' \in [Execs -> Answers]
      /\ \A x \in Execs : answer'[x] = "uncalled" <=> answer[x] = "uncalled"
      /\ \A x \in Execs : answer'[x] = "malformed" => answer[x] = "malformed"
  BY <1>1, <1>2, ResolvedKeeps
<1>4. <<>> \in Seq(Execs) /\ Waiting(<<>>, answer, created)
  BY EmptySeq DEF Waiting
<1>5. Inv(<<>>, None, None, session, answer', created, dead', inbox, outbox')
  BY <1>1, <1>3, <1>4, WithoutShared DEF IInv
<1>6. /\ queue' = <<>> /\ current' = None /\ shared' = None
      /\ session' = session /\ created' = created /\ inbox' = inbox
  BY <1>1 DEF Idles
<1>7. NowInv'
  BY <1>5, <1>6 DEF NowInv
<1>8. NoLostWakeup' /\ NoForeignAnswer'
  BY <1>3, <1>6, EmptySeq DEF NoLostWakeup, NoForeignAnswer, IInv
<1> QED BY <1>1, <1>7, <1>8 DEF IInv

LEMMA OnExitKeeps ==
  ASSUME IInv, NEW w \in Execs, OnExit(w) PROVE IInv'
<1>1. /\ outbox[w] # <<>> /\ Taken(w) /\ Head(outbox[w]) = "exit" /\ shared = w
      /\ canceled' = canceled /\ dead' = dead
      /\ ProcessNext(queue, None, None)
      /\ answer' = Resolved({current}, "crashed")
  BY DEF OnExit, Ignored
<1>2. /\ answer \in [Execs -> Answers] /\ "crashed" \in Answers
      /\ queue \in Seq(Execs) /\ Waiting(queue, answer, created)
  BY DEF IInv, NowInv, Inv, Types, Answers
<1>3. /\ answer' \in [Execs -> Answers]
      /\ \A x \in Execs : answer'[x] = "uncalled" <=> answer[x] = "uncalled"
      /\ \A x \in Execs : answer'[x] = "malformed" => answer[x] = "malformed"
  BY <1>1, <1>2, ResolvedKeeps
<1>4. Inv(queue, None, None, session, answer', created, dead', inbox, outbox')
  BY <1>1, <1>2, <1>3, WithoutShared DEF IInv
<1>5. NowInv' /\ NoLostWakeup'
  BY <1>1, <1>4, ProcessNextKeeps
<1>6. NoForeignAnswer'
  BY <1>3 DEF NoForeignAnswer, IInv
<1>7. idle' \in BOOLEAN
  BY <1>1, ProcessNextIdle DEF IInv
<1> QED BY <1>1, <1>5, <1>6, <1>7 DEF IInv

-----------------------------------------------------------------------------
(***************************************************************************)
(* The workers.                                                            *)
(***************************************************************************)
LEMMA FinishKeeps ==
  ASSUME IInv, NEW w \in Execs, NEW e \in Execs, Finish(w, e) PROVE IInv'
<1> DEFINE out == Append(outbox[w], e)
<1> USE DEF IInv, NowInv, Inv
<1>1. /\ w \in created /\ w \notin dead /\ e \in inbox[w]
      /\ inbox' = [inbox EXCEPT ![w] = @ \ {e}]
      /\ outbox' = [outbox EXCEPT ![w] = out]
      /\ queue' = queue /\ current' = current /\ shared' = shared /\ session' = session
      /\ idle' = idle /\ canceled' = canceled /\ answer' = answer
      /\ created' = created /\ dead' = dead
  BY DEF Finish, Up, mainVars
<1>2. /\ out \in Seq(Events) /\ Len(out) = Len(outbox[w]) + 1 /\ Len(outbox[w]) \in Nat
      /\ \A i \in 1..Len(outbox[w]) : out[i] = outbox[w][i]
      /\ out[Len(outbox[w]) + 1] = e
  BY AppendProperties, LenProperties DEF Types, Events
<1> HIDE DEF out
<1>3. Types(queue', current', shared', session', answer', created', dead', inbox', outbox')
  BY <1>1, <1>2 DEF Types
<1>4. /\ outbox'[w] = out /\ inbox'[w] = inbox[w] \ {e}
      /\ \A v \in Execs : v # w => outbox'[v] = outbox[v] /\ inbox'[v] = inbox[v]
  BY <1>1 DEF Types
<1>5. Waiting(queue', answer', created') /\ Owners(shared', session', created')
  BY <1>1 DEF Waiting, Owners
<1>6. Fresh(answer', created', inbox', outbox')
  BY <1>1, <1>4 DEF Fresh
<1>7. OnlyShared(shared', dead', inbox') /\ Kept(shared', session', created', dead')
  BY <1>1, <1>4 DEF OnlyShared, Kept
<1>8. Gone(dead', outbox')
  <2>1. SUFFICES ASSUME NEW v \in Execs, NEW i \in 1..Len(outbox'[v]),
                        outbox'[v][i] \in {"error", "exit"}
                 PROVE  v \in dead
    BY <1>1 DEF Gone
  <2>2. CASE v # w
    BY <2>1, <2>2, <1>4 DEF Gone
  <2>3. CASE v = w
    <3>1. i # Len(outbox[w]) + 1
      BY <2>1, <2>3, <1>2, <1>4, JsExecAssumption
    <3>2. i \in 1..Len(outbox[w]) /\ outbox[w][i] \in {"error", "exit"}
      BY <2>1, <2>3, <3>1, <1>2, <1>4
    <3> QED BY <2>3, <3>2 DEF Gone
  <2> QED BY <2>2, <2>3
<1>9. AtWork(current', shared', inbox', outbox')
  <2>1. CASE shared # w
    BY <2>1, <1>1, <1>4 DEF AtWork, Types
  <2>2. CASE shared = w
    <3>1. shared # None
      BY <2>2, JsExecAssumption
    <3>2. e = current /\ inbox'[w] = {}
      BY <2>2, <3>1, <1>1, <1>4 DEF AtWork
    <3>3. \A i \in 1..Len(outbox[w]) : outbox[w][i] \notin Execs
      BY <2>2, <3>1, <1>1 DEF AtWork
    <3>4. \A i \in 1..Len(out) : out[i] \in Execs => i = Len(outbox[w]) + 1
      <4>1. SUFFICES ASSUME NEW i \in 1..Len(out), i # Len(outbox[w]) + 1
                     PROVE  out[i] \notin Execs
        OBVIOUS
      <4>2. i \in 1..Len(outbox[w])
        BY <4>1, <1>2
      <4> QED BY <4>2, <3>3, <1>2
    <3> QED BY <2>2, <3>2, <3>4, <1>1, <1>2, <1>4 DEF AtWork
  <2> QED BY <2>1, <2>2
<1>10. NoLostWakeup' /\ NoForeignAnswer'
  BY <1>1 DEF NoLostWakeup, NoForeignAnswer
<1> QED BY <1>1, <1>3, <1>5, <1>6, <1>7, <1>8, <1>9, <1>10

LEMMA DieKeeps ==
  ASSUME IInv, NEW w \in Execs,
         NEW events \in {<<"exit">>, <<"error", "exit">>}, Die(w, events)
  PROVE  IInv'
<1> DEFINE out == outbox[w] \o events
<1> USE DEF IInv, NowInv, Inv
<1>1. /\ w \in created /\ w \notin dead /\ dead' = dead \cup {w}
      /\ outbox' = [outbox EXCEPT ![w] = out]
      /\ queue' = queue /\ current' = current /\ shared' = shared /\ session' = session
      /\ idle' = idle /\ canceled' = canceled /\ answer' = answer
      /\ created' = created /\ inbox' = inbox
  BY DEF Die, Up, mainVars
<1>2. /\ events \in Seq(Events) /\ Len(events) \in Nat
      /\ \A i \in 1..Len(events) : events[i] \notin Execs
  <2>1. CASE events = <<"exit">>
    BY <2>1, JsExecAssumption DEF Events
  <2>2. CASE events = <<"error", "exit">>
    BY <2>2, JsExecAssumption DEF Events
  <2> QED BY <2>1, <2>2
<1>3. /\ out \in Seq(Events) /\ Len(out) = Len(outbox[w]) + Len(events)
      /\ Len(outbox[w]) \in Nat
      /\ \A i \in 1..Len(outbox[w]) + Len(events) :
           out[i] = IF i <= Len(outbox[w]) THEN outbox[w][i]
                                           ELSE events[i - Len(outbox[w])]
  BY <1>2, ConcatProperties, LenProperties DEF Types
<1> HIDE DEF out
<1>4. \A i \in 1..Len(out) :
        out[i] \in Execs => i \in 1..Len(outbox[w]) /\ out[i] = outbox[w][i]
  <2>1. SUFFICES ASSUME NEW i \in 1..Len(out), out[i] \in Execs
                 PROVE  i \in 1..Len(outbox[w]) /\ out[i] = outbox[w][i]
    OBVIOUS
  <2>2. i <= Len(outbox[w])
    <3>1. SUFFICES ASSUME ~(i <= Len(outbox[w])) PROVE FALSE
      OBVIOUS
    <3>2. i - Len(outbox[w]) \in 1..Len(events) /\ out[i] = events[i - Len(outbox[w])]
      BY <3>1, <1>2, <1>3
    <3> QED BY <2>1, <3>2, <1>2
  <2> QED BY <2>2, <1>2, <1>3
<1>5. Types(queue', current', shared', session', answer', created', dead', inbox', outbox')
  BY <1>1, <1>3 DEF Types
<1>6. outbox'[w] = out /\ \A v \in Execs : v # w => outbox'[v] = outbox[v]
  BY <1>1 DEF Types
<1>7. Waiting(queue', answer', created') /\ Owners(shared', session', created')
  BY <1>1 DEF Waiting, Owners
<1>8. Fresh(answer', created', inbox', outbox')
  BY <1>1, <1>6 DEF Fresh
<1>9. OnlyShared(shared', dead', inbox') /\ Kept(shared', session', created', dead')
  BY <1>1 DEF OnlyShared, Kept
<1>10. Gone(dead', outbox')
  <2>1. SUFFICES ASSUME NEW v \in Execs, v # w, NEW i \in 1..Len(outbox'[v]),
                        outbox'[v][i] \in {"error", "exit"}
                 PROVE  v \in dead
    BY <1>1 DEF Gone
  <2> QED BY <2>1, <1>6 DEF Gone
<1>11. AtWork(current', shared', inbox', outbox')
  <2>1. CASE shared # w
    BY <2>1, <1>1, <1>6 DEF AtWork, Types
  <2>2. CASE shared = w
    <3>1. shared # None
      BY <2>2, JsExecAssumption
    <3>2. inbox[w] \subseteq {current}
      BY <2>2, <3>1 DEF AtWork
    <3>3. ASSUME NEW i \in 1..Len(out), out[i] \in Execs
          PROVE  /\ out[i] = current /\ inbox[w] = {}
                 /\ \A j \in 1..Len(out) : out[j] \in Execs => j = i
      BY <2>2, <3>1, <3>3, <1>4 DEF AtWork
    <3> QED BY <2>2, <3>2, <3>3, <1>1, <1>6 DEF AtWork
  <2> QED BY <2>1, <2>2
<1>12. NoLostWakeup' /\ NoForeignAnswer'
  BY <1>1 DEF NoLostWakeup, NoForeignAnswer
<1> QED BY <1>1, <1>5, <1>7, <1>8, <1>9, <1>10, <1>11, <1>12

-----------------------------------------------------------------------------
(***************************************************************************)
(* The theorems.                                                           *)
(***************************************************************************)
LEMMA Inductive == IInv /\ [Next]_vars => IInv'
<1> SUFFICES ASSUME IInv, [Next]_vars PROVE IInv'
  OBVIOUS
<1>1. ASSUME NEW e \in Execs, Enqueue(e) PROVE IInv'
  BY <1>1, EnqueueKeeps
<1>2. ASSUME NEW e \in Execs, Timeout(e) PROVE IInv'
  BY <1>2, TimeoutKeeps
<1>3. CASE IdleTimeout
  BY <1>3, IdleTimeoutKeeps
<1>4. ASSUME NEW s \in Sessions, CloseSession(s) PROVE IInv'
  BY <1>4, CloseSessionKeeps
<1>5. ASSUME NEW w \in Workers, Deliver(w) PROVE IInv'
  <2>1. CASE IgnoreEvent(w)
    BY <2>1, IgnoreEventKeeps DEF Workers
  <2>2. CASE OnMessage(w)
    BY <2>2, OnMessageKeeps DEF Workers
  <2>3. CASE OnError(w)
    BY <2>3, OnErrorKeeps DEF Workers
  <2>4. CASE OnExit(w)
    BY <2>4, OnExitKeeps DEF Workers
  <2> QED BY <1>5, <2>1, <2>2, <2>3, <2>4 DEF Deliver
<1>6. ASSUME NEW w \in Workers, WorkerStep(w) PROVE IInv'
  <2>1. ASSUME NEW e \in Execs, Finish(w, e) PROVE IInv'
    BY <2>1, FinishKeeps DEF Workers
  <2>2. ASSUME NEW events \in {<<"exit">>, <<"error", "exit">>}, Die(w, events)
        PROVE  IInv'
    BY <2>2, DieKeeps DEF Workers
  <2> QED BY <1>6, <2>1, <2>2 DEF WorkerStep
<1>7. CASE UNCHANGED vars
  <2>1. /\ UNCHANGED mainVars /\ created' = created /\ dead' = dead
        /\ inbox' = inbox /\ outbox' = outbox
    BY <1>7 DEF vars, workerVars
  <2>2. NowInv' = NowInv
    BY <2>1 DEF NowInv, mainVars
  <2> QED BY <2>1, <2>2 DEF IInv, mainVars, NoLostWakeup, NoForeignAnswer
<1> QED BY <1>1, <1>2, <1>3, <1>4, <1>5, <1>6, <1>7 DEF Next

LEMMA Invariance == Spec => []IInv
<1>1. Init => IInv
  BY InitInv
<1>2. IInv /\ [Next]_vars => IInv'
  BY Inductive
<1> QED BY <1>1, <1>2, PTL DEF Spec

\* Every variable keeps its type; in particular no handler terminates a
\* worker that is not there.
THEOREM TypeCorrect == Spec => []TypeOK
<1>1. IInv => TypeOK
  BY DEF IInv, NowInv, Inv, Types, TypeOK, Workers, Events
<1> QED BY <1>1, Invariance, PTL

\* Whatever handler ran last, nothing that can still run waits in the queue
\* while no execution is current.
THEOREM NothingIsLeftWaiting == Spec => []NoLostWakeup
<1>1. IInv => NoLostWakeup
  BY DEF IInv
<1> QED BY <1>1, Invariance, PTL

\* The live workers execute one call without a session at a time, and only
\* the current one.
THEOREM OneAtATime == Spec => []Serialized
<1>1. IInv => Serialized
  <2>1. SUFFICES ASSUME IInv, NEW e \in Executing \cap Sessionless PROVE e = current
    BY DEF Serialized
  <2>2. PICK w \in Up : e \in inbox[w]
    BY DEF Executing
  <2>3. /\ e \in Sessionless /\ w \in Execs /\ w \notin dead
        /\ OnlyShared(shared, dead, inbox) /\ AtWork(current, shared, inbox, outbox)
    BY <2>1, <2>2 DEF IInv, NowInv, Inv, Types, Up
  <2>4. w = shared /\ w # None
    BY <2>2, <2>3, JsExecAssumption DEF OnlyShared
  <2> QED BY <2>2, <2>3, <2>4 DEF AtWork
<1> QED BY <1>1, Invariance, PTL

\* A live worker can be reached, to terminate it, as the shared one or as
\* that of a session.
THEOREM EveryWorkerIsHeld == Spec => []NoStrayWorker
<1>1. IInv => NoStrayWorker
  BY DEF IInv, NowInv, Inv, Kept, NoStrayWorker, Up
<1> QED BY <1>1, Invariance, PTL

\* No call is answered with the message of another one.
THEOREM AnswersAreOwn == Spec => []NoForeignAnswer
<1>1. IInv => NoForeignAnswer
  BY DEF IInv
<1> QED BY <1>1, Invariance, PTL

-----------------------------------------------------------------------------
(***************************************************************************)
(* Nobody is left: the safety half of EveryCallAnswered.  IInv is closed   *)
(* under the steps by itself, so the second invariant stands beside it.    *)
(***************************************************************************)
\* Among the events of worker w that have still to be handled is one of S.
Tells(out, w, S) == \E n \in 1..Len(out[w]) : out[w][n] \in S

\* A call without an answer is the current one or in the queue behind it; and the current
\* one is with the shared worker or in its events, or its worker has died and the main
\* thread will be told.  (A call with a session has its timer.)
NobodyIsLeft ==
  \A e \in Execs : answer[e] = "pending" =>
    /\ current # None
    /\ e = current \/ \E i \in 1..Len(queue) : queue[i] = e
    /\ SessionOf[current] = None =>
         /\ shared # None
         /\ \/ shared \notin dead /\ current \in inbox[shared]
            \/ Tells(outbox, shared, {current, "error", "exit"})

Queued(q, cur, ans) ==
  \A e \in Execs : ans[e] = "pending" => e = cur \/ \E i \in 1..Len(q) : q[i] = e

\* Only calls that were answered are canceled.
Settled(can, ans) == \A e \in can : ans[e] \notin {"uncalled", "pending"}

\* The end of the shared worker has not been handled.
Heard(sh, dea, out) == sh # None /\ sh \in dea => Tells(out, sh, {"error", "exit"})

Attended(cur, sh, inb, out) ==
  cur # None /\ SessionOf[cur] = None =>
    /\ sh # None
    /\ cur \in inb[sh] \/ Tells(out, sh, {cur, "error", "exit"})

ServedInv ==
  /\ Queued(queue, current, answer) /\ Settled(canceled, answer)
  /\ Heard(shared, dead, outbox) /\ Attended(current, shared, inbox, outbox)

\* processNextExecution skips canceled calls alone, and posts the next one.
LEMMA ProcessNextServes ==
  ASSUME NEW q, NEW cur, NEW sh,
         Inv(q, cur, sh, session, answer', created, dead', inbox, outbox'),
         Queued(q, cur, answer'), Settled(canceled', answer'),
         Heard(sh, dead', outbox'), Attended(cur, sh, inbox, outbox'),
         ProcessNext(q, cur, sh)
  PROVE  ServedInv'
<1>1. PICK n \in 0..Len(q) :
        /\ Skips(q, n)
        /\ LET rest == SubSeq(q, n + 1, Len(q))
           IN  IF cur # None \/ rest = <<>> THEN Idles(rest, cur, sh) /\ UNCHANGED idle
                                           ELSE Dispatch(rest, sh)
  BY DEF ProcessNext
<1> DEFINE rest == SubSeq(q, n + 1, Len(q))
<1>2. /\ q \in Seq(Execs) /\ Len(q) \in Nat /\ Waiting(q, answer', created)
      /\ session \in [Sessions -> Execs \cup {None}] /\ sh \in Execs \cup {None}
      /\ dead' \subseteq created /\ inbox \in [Execs -> SUBSET Execs]
      /\ Owners(sh, session, created)
  BY LenProperties DEF Inv, Types
<1>3. /\ rest \in Seq(Execs) /\ Waiting(rest, answer', created)
      /\ Len(rest) = Len(q) - n /\ \A i \in 1..Len(rest) : rest[i] = q[n + i]
  <2>1. \A i \in n + 1..Len(q) : q[i] \in Execs BY <1>2, ElementOfSeq
  <2>2. rest \in Seq(Execs) /\ Waiting(rest, answer', created) BY <1>2, RestOfQueue
  <2>3. /\ Len(rest) = IF n + 1 <= Len(q) THEN Len(q) - (n + 1) + 1 ELSE 0
        /\ \A i \in 1..Len(q) - (n + 1) + 1 : rest[i] = q[n + 1 + i - 1]
    BY <1>2, <2>1, SubSeqProperties
  <2> QED BY <1>2, <2>2, <2>3
<1>4. Queued(rest, cur, answer')
  <2>1. SUFFICES ASSUME NEW e \in Execs, answer'[e] = "pending", e # cur
                 PROVE  \E i \in 1..Len(rest) : rest[i] = e
    BY DEF Queued
  <2>2. PICK i \in 1..Len(q) : q[i] = e BY <2>1 DEF Queued
  <2>3. i \notin 1..n BY <1>1, <2>1, <2>2 DEF Skips, Settled
  <2>4. i - n \in 1..Len(rest) /\ n + (i - n) = i BY <1>2, <1>3, <2>2, <2>3
  <2>5. rest[i - n] = q[n + (i - n)] BY <1>3, <2>4
  <2>6. rest[i - n] = e BY <2>2, <2>4, <2>5
  <2> HIDE DEF rest
  <2> QED BY <2>4, <2>6
<1> HIDE DEF rest
<1>5. CASE cur # None \/ rest = <<>>
  <2>1. Idles(rest, cur, sh) BY <1>1, <1>5 DEF rest
  <2> QED BY <1>4, <2>1 DEF Idles, ServedInv
<1>6. CASE ~(cur # None \/ rest = <<>>)
  <2> DEFINE e == Head(rest)
             w == WorkerFor(e, sh)
  <2>1. Dispatch(rest, sh) BY <1>1, <1>6 DEF rest
  <2>2. /\ e = rest[1] /\ e \in Execs /\ Len(rest) \in Nat \ {0}
        /\ Len(Tail(rest)) = Len(rest) - 1
        /\ \A i \in 1..Len(Tail(rest)) : Tail(rest)[i] = rest[i + 1]
    BY <1>3, <1>6, HeadTailProperties, EmptySeq
  <2>3. e \notin dead' BY <1>2, <1>3, <2>2 DEF Waiting
  <2>4. w \in Execs /\ (SessionOf[e] = None => w = sh \/ (sh = None /\ w = e))
    BY <1>2, <2>2, WorkerForKnown
  <2>5. /\ queue' = Tail(rest) /\ current' = e
        /\ shared' = IF SessionOf[e] = None THEN w ELSE sh
        /\ inbox' = [inbox EXCEPT ![w] = @ \cup {e}]
    BY <2>1 DEF Dispatch
  <2> HIDE DEF w, e
  <2>6. Queued(queue', current', answer')
    <3>1. SUFFICES ASSUME NEW x \in Execs, answer'[x] = "pending", x # e
                   PROVE  \E i \in 1..Len(Tail(rest)) : Tail(rest)[i] = x
      BY <2>5 DEF Queued
    <3>2. PICK i \in 1..Len(rest) : rest[i] = x
      BY <1>4, <1>6, <3>1, JsExecAssumption DEF Queued
    <3>3. i # 1 BY <2>2, <3>1, <3>2
    <3>4. i - 1 \in 1..Len(Tail(rest)) /\ rest[(i - 1) + 1] = x BY <2>2, <3>2, <3>3
    <3> QED BY <2>2, <3>4
  <2>7. Heard(shared', dead', outbox')
    <3>1. CASE SessionOf[e] = None /\ sh = None BY <2>3, <2>4, <2>5, <3>1 DEF Heard
    <3>2. CASE ~(SessionOf[e] = None /\ sh = None)
      <4>1. shared' = sh BY <2>4, <2>5, <3>2
      <4> QED BY <4>1
    <3> QED BY <3>1, <3>2
  <2>8. Attended(current', shared', inbox', outbox')
    <3>1. SUFFICES ASSUME SessionOf[e] = None PROVE shared' # None /\ e \in inbox'[shared']
      BY <2>5 DEF Attended
    <3>2. shared' = w /\ w # None BY <2>4, <2>5, <3>1, JsExecAssumption
    <3> QED BY <1>2, <2>4, <2>5, <3>2
  <2> QED BY <2>6, <2>7, <2>8 DEF ServedInv
<1> QED BY <1>5, <1>6

\* A main thread that has given up the shared worker and has nothing current.
LEMMA NothingAttended ==
  ASSUME NEW dea, NEW inb, NEW out
  PROVE  Heard(None, dea, out) /\ Attended(None, None, inb, out)
  BY DEF Heard, Attended


LEMMA EnqueueServes ==
  ASSUME IInv, ServedInv, NEW e \in Execs, Enqueue(e) PROVE ServedInv'
<1> DEFINE q == Append(queue, e)
<1>1. /\ answer[e] = "uncalled" /\ answer' = [answer EXCEPT ![e] = "pending"]
      /\ canceled' = canceled /\ dead' = dead /\ outbox' = outbox
      /\ ProcessNext(q, current, shared)
  BY DEF Enqueue
<1>2. /\ Len(q) = Len(queue) + 1 /\ Len(queue) \in Nat
      /\ \A i \in 1..Len(queue) : q[i] = queue[i]
      /\ q[Len(queue) + 1] = e
      /\ \A x \in Execs : x # e => answer'[x] = answer[x]
      /\ Inv(q, current, shared, session, answer', created, dead', inbox, outbox')
  BY <1>1, Joins
<1>3. Settled(canceled', answer')
  <2>1. canceled \subseteq Execs BY DEF IInv
  <2> QED BY <1>1, <1>2, <2>1 DEF ServedInv, Settled
<1>4. Queued(q, current, answer')
  <2>1. SUFFICES ASSUME NEW x \in Execs, answer'[x] = "pending", x # current
                 PROVE  \E i \in 1..Len(q) : q[i] = x
    BY DEF Queued
  <2>2. CASE x = e BY <1>2, <2>2
  <2>3. CASE x # e
    <3>1. PICK i \in 1..Len(queue) : queue[i] = x
      BY <1>2, <2>1, <2>3 DEF ServedInv, Queued
    <3> QED BY <1>2, <3>1
  <2> QED BY <2>2, <2>3
<1> HIDE DEF q
<1>5. Heard(shared, dead', outbox') /\ Attended(current, shared, inbox, outbox')
  BY <1>1 DEF ServedInv
<1> QED BY <1>1, <1>2, <1>3, <1>4, <1>5, ProcessNextServes

\* resolve() takes nobody out of the queue.
LEMMA ResolvedServes ==
  ASSUME IInv, ServedInv, NEW S, NEW with \in {"result", "malformed", "crashed", "timeout"},
         answer' = Resolved(S, with)
  PROVE  /\ answer' \in [Execs -> Answers]
         /\ \A x \in Execs : answer'[x] = "uncalled" <=> answer[x] = "uncalled"
         /\ \A x \in Execs : answer'[x] = "pending" => answer[x] = "pending" /\ x \notin S
         /\ Settled(canceled, answer')
         /\ Queued(queue, current, answer')
         /\ current \in S => Queued(queue, None, answer')
<1>1. answer \in [Execs -> Answers] /\ canceled \subseteq Execs
  BY DEF IInv, NowInv, Inv, Types
<1>2. /\ answer' \in [Execs -> Answers]
      /\ \A x \in Execs : answer'[x] = "uncalled" <=> answer[x] = "uncalled"
      /\ \A x \in Execs : answer'[x] = "pending" => answer[x] = "pending" /\ x \notin S
  BY <1>1 DEF Resolved, Answers
<1> QED BY <1>1, <1>2 DEF ServedInv, Settled, Queued

LEMMA TimeoutServes ==
  ASSUME IInv, ServedInv, NEW e \in Execs, Timeout(e) PROVE ServedInv'
<1>1. answer' = Resolved({e}, "timeout") /\ answer[e] = "pending" BY DEF Timeout
<1>2. /\ answer' \in [Execs -> Answers]
      /\ \A x \in Execs : answer'[x] = "uncalled" <=> answer[x] = "uncalled"
      /\ \A x \in Execs : answer'[x] = "pending" => answer[x] = "pending" /\ x # e
      /\ Settled(canceled, answer') /\ Queued(queue, current, answer')
      /\ current = e => Queued(queue, None, answer')
  BY <1>1, ResolvedServes
<1>3. answer'[e] # "uncalled" BY <1>1, <1>2
<1>4. Waiting(queue, answer', created)
  BY <1>2, ElementOfSeq DEF IInv, NowInv, Inv, Waiting, Types
<1>5. CASE current = e
  <2>1. /\ Terminate({shared} \ {None}) /\ canceled' = canceled
        /\ ProcessNext(queue, None, None)
    BY <1>5 DEF Timeout
  <2>2. Inv(queue, None, None, session, answer', created, dead', inbox, outbox')
    BY <1>2, <2>1, GivesUp DEF IInv
  <2> QED BY <1>2, <1>5, <2>1, <2>2, NothingAttended, ProcessNextServes
<1>6. CASE current # e
  <2>1. canceled' = canceled \cup {e} /\ dead' = dead /\ outbox' = outbox
    BY <1>6 DEF Timeout
  <2>2. Inv(queue, current, shared, session, answer', created, dead', inbox, outbox')
    BY <1>2, <1>4, <2>1 DEF IInv, NowInv, Inv, Types, Fresh
  <2>3. Settled(canceled', answer') BY <1>2, <1>3, <2>1 DEF Settled
  <2>4. Heard(shared, dead', outbox') /\ Attended(current, shared, inbox, outbox')
    BY <2>1 DEF ServedInv
  <2>5. CASE current = None
    <3>1. ProcessNext(queue, current, shared) BY <1>6, <2>5 DEF Timeout
    <3> QED BY <1>2, <2>2, <2>3, <2>4, <3>1, ProcessNextServes
  <2>6. CASE current # None
    <3>1. Idles(queue, current, shared) BY <1>6, <2>6 DEF Timeout
    <3> QED BY <1>2, <2>3, <2>4, <3>1 DEF Idles, ServedInv
  <2> QED BY <2>5, <2>6
<1> QED BY <1>5, <1>6

LEMMA IdleTimeoutServes ==
  ASSUME IInv, ServedInv, IdleTimeout PROVE ServedInv'
<1>1. /\ queue' = queue /\ current' = current /\ canceled' = canceled
      /\ answer' = answer /\ inbox' = inbox
  BY DEF IdleTimeout
<1>2. CASE shared' = shared /\ dead' = dead /\ outbox' = outbox
  BY <1>1, <1>2 DEF ServedInv
<1>3. CASE shared' = None /\ current = None
  BY <1>1, <1>3, NothingAttended DEF ServedInv
<1> QED BY <1>2, <1>3 DEF IdleTimeout

\* The worker of a session is not the shared one.
LEMMA CloseSessionServes ==
  ASSUME IInv, ServedInv, NEW s \in Sessions, CloseSession(s) PROVE ServedInv'
<1>1. /\ session[s] # None /\ Terminate({session[s]})
      /\ queue' = queue /\ current' = current /\ shared' = shared
      /\ canceled' = canceled /\ answer' = answer /\ inbox' = inbox
  BY DEF CloseSession
<1>2. /\ {session[s]} \in SUBSET created
      /\ shared # None => shared \in Execs \ {session[s]}
  BY <1>1, JsExecAssumption DEF IInv, NowInv, Inv, Owners, Types
<1>3. shared # None => outbox'[shared] = outbox[shared] /\ (shared \in dead' => shared \in dead)
  BY <1>1, <1>2, TerminateKeeps DEF IInv
<1> QED BY <1>1, <1>3 DEF ServedInv, Heard, Attended, Tells

LEMMA IgnoreEventServes ==
  ASSUME IInv, ServedInv, NEW w \in Execs, IgnoreEvent(w) PROVE ServedInv'
<1>1. /\ outbox[w] # <<>> /\ Taken(w) /\ shared # w
      /\ queue' = queue /\ current' = current /\ shared' = shared
      /\ canceled' = canceled /\ answer' = answer /\ dead' = dead /\ inbox' = inbox
  BY DEF IgnoreEvent, Ignored, mainVars
<1>2. shared \in Execs \cup {None}
  BY DEF IInv, NowInv, Inv, Types
<1>3. shared # None => outbox'[shared] = outbox[shared]
  BY <1>1, <1>2, TakenKeeps DEF IInv
<1> QED BY <1>1, <1>3 DEF ServedInv, Heard, Attended, Tells

\* A message is not the end of its worker, which is told behind it.
LEMMA OnMessageServes ==
  ASSUME IInv, ServedInv, NEW w \in Execs, OnMessage(w) PROVE ServedInv'
<1>1. /\ shared = w /\ canceled' = canceled /\ dead' = dead
      /\ answer' = Resolved({current}, "result")
      /\ Inv(queue, None, shared, session, answer', created, dead', inbox, outbox')
      /\ outbox[w] # <<>> /\ Head(outbox[w]) \in Execs /\ Taken(w)
  BY OwnMessage
<1>2. Settled(canceled', answer') /\ Queued(queue, None, answer')
  BY <1>1, ResolvedServes
<1>3. Attended(None, shared, inbox, outbox')
  BY DEF Attended
<1>4. Heard(shared, dead', outbox')
  <2>1. /\ Len(outbox[w]) \in Nat /\ Len(outbox'[w]) = Len(outbox[w]) - 1
        /\ Head(outbox[w]) = outbox[w][1]
        /\ \A i \in 1..Len(outbox'[w]) : outbox'[w][i] = outbox[w][i + 1]
    BY <1>1, TakenKeeps, LenProperties DEF IInv, NowInv, Inv, Types
  <2>2. SUFFICES ASSUME shared # None, w \in dead
                 PROVE  Tells(outbox', w, {"error", "exit"})
    BY <1>1 DEF Heard
  <2>3. PICK n \in 1..Len(outbox[w]) : outbox[w][n] \in {"error", "exit"}
    BY <1>1, <2>2 DEF ServedInv, Heard, Tells
  <2>4. n # 1
    BY <1>1, <2>1, <2>3, JsExecAssumption
  <2>5. n - 1 \in 1..Len(outbox'[w]) /\ (n - 1) + 1 = n
    BY <2>1, <2>4
  <2>6. outbox'[w][n - 1] \in {"error", "exit"}
    BY <2>1, <2>3, <2>5
  <2> QED BY <2>5, <2>6 DEF Tells
<1>5. CASE queue # <<>>
  <2>1. ProcessNext(queue, None, shared)
    BY <1>5 DEF OnMessage
  <2> QED BY <1>1, <1>2, <1>3, <1>4, <2>1, ProcessNextServes
<1>6. CASE queue = <<>>
  <2>1. Idles(queue, None, shared)
    BY <1>6 DEF OnMessage
  <2> QED BY <1>2, <1>3, <1>4, <2>1 DEF Idles, ServedInv
<1> QED BY <1>5, <1>6

\* An error answers everybody: no call is left for the empty queue.
LEMMA OnErrorServes ==
  ASSUME IInv, ServedInv, NEW w \in Execs, OnError(w) PROVE ServedInv'
<1> DEFINE S == {current} \cup {queue[i] : i \in 1..Len(queue)}
<1>1. /\ canceled' = canceled /\ Idles(<<>>, None, None)
      /\ answer' = Resolved(S, "crashed")
  BY DEF OnError
<1>2. \A e \in Execs : answer[e] = "pending" => e \in S
  BY DEF ServedInv, Queued
<1> HIDE DEF S
<1>3. /\ Settled(canceled', answer')
      /\ \A e \in Execs : answer'[e] = "pending" => answer[e] = "pending" /\ e \notin S
  BY <1>1, ResolvedServes
<1>4. Queued(<<>>, None, answer')
  BY <1>2, <1>3 DEF Queued
<1> QED BY <1>1, <1>3, <1>4, NothingAttended DEF Idles, ServedInv

LEMMA OnExitServes ==
  ASSUME IInv, ServedInv, NEW w \in Execs, OnExit(w) PROVE ServedInv'
<1>1. /\ outbox[w] # <<>> /\ Taken(w) /\ Head(outbox[w]) = "exit" /\ shared = w
      /\ canceled' = canceled /\ dead' = dead
      /\ ProcessNext(queue, None, None)
      /\ answer' = Resolved({current}, "crashed")
  BY DEF OnExit, Ignored
<1>2. /\ answer' \in [Execs -> Answers]
      /\ \A x \in Execs : answer'[x] = "uncalled" <=> answer[x] = "uncalled"
      /\ Settled(canceled', answer') /\ Queued(queue, None, answer')
  BY <1>1, ResolvedServes
<1>3. queue \in Seq(Execs) /\ Waiting(queue, answer, created)
  BY DEF IInv, NowInv, Inv, Types
<1>4. Inv(queue, None, None, session, answer', created, dead', inbox, outbox')
  BY <1>1, <1>2, <1>3, WithoutShared DEF IInv
<1> QED BY <1>1, <1>2, <1>4, NothingAttended, ProcessNextServes

\* What a worker posts goes behind what it has posted.
LEMMA PostedBehind ==
  ASSUME NowInv, NEW w \in Execs, NEW more \in Seq(Events),
         outbox' = [outbox EXCEPT ![w] = @ \o more]
  PROVE  /\ \A v \in Execs : \A S : Tells(outbox, v, S) => Tells(outbox', v, S)
         /\ \A S : (\E n \in 1..Len(more) : more[n] \in S) => Tells(outbox', w, S)
<1>1. outbox \in [Execs -> Seq(Events)]
  BY DEF NowInv, Inv, Types
<1>2. /\ outbox'[w] = outbox[w] \o more
      /\ \A v \in Execs : v # w => outbox'[v] = outbox[v]
  BY <1>1
<1>3. /\ Len(outbox[w]) \in Nat /\ Len(more) \in Nat
      /\ Len(outbox[w] \o more) = Len(outbox[w]) + Len(more)
      /\ \A i \in 1..Len(outbox[w]) + Len(more) :
           (outbox[w] \o more)[i] = IF i <= Len(outbox[w]) THEN outbox[w][i]
                                                          ELSE more[i - Len(outbox[w])]
  BY <1>1, ConcatProperties, LenProperties
<1>4. ASSUME NEW v \in Execs, NEW S, Tells(outbox, v, S) PROVE Tells(outbox', v, S)
  <2>1. PICK n \in 1..Len(outbox[v]) : outbox[v][n] \in S
    BY <1>4 DEF Tells
  <2>2. CASE v = w
    <3>1. n \in 1..Len(outbox'[w]) /\ outbox'[w][n] = outbox[w][n]
      BY <1>2, <1>3, <2>1, <2>2
    <3> QED BY <2>1, <2>2, <3>1 DEF Tells
  <2>3. CASE v # w
    BY <1>2, <2>1, <2>3 DEF Tells
  <2> QED BY <2>2, <2>3
<1>5. ASSUME NEW S, NEW n \in 1..Len(more), more[n] \in S PROVE Tells(outbox', w, S)
  <2>1. Len(outbox[w]) + n \in 1..Len(outbox'[w])
    BY <1>2, <1>3
  <2>2. (Len(outbox[w]) + n) - Len(outbox[w]) = n /\ ~(Len(outbox[w]) + n <= Len(outbox[w]))
    BY <1>3
  <2>3. outbox'[w][Len(outbox[w]) + n] = more[n]
    BY <1>2, <1>3, <2>1, <2>2
  <2> QED BY <1>5, <2>1, <2>3 DEF Tells
<1> QED BY <1>4, <1>5

\* The execution that the shared worker ends is the current one; its message takes its place.
LEMMA FinishServes ==
  ASSUME IInv, ServedInv, NEW w \in Execs, NEW e \in Execs, Finish(w, e) PROVE ServedInv'
<1>1. /\ e \in inbox[w]
      /\ inbox' = [inbox EXCEPT ![w] = @ \ {e}]
      /\ outbox' = [outbox EXCEPT ![w] = Append(@, e)]
      /\ queue' = queue /\ current' = current /\ shared' = shared
      /\ canceled' = canceled /\ answer' = answer /\ dead' = dead
  BY DEF Finish, mainVars
<1>2. /\ shared \in Execs \cup {None} /\ inbox \in [Execs -> SUBSET Execs]
      /\ outbox \in [Execs -> Seq(Events)] /\ <<e>> \in Seq(Events)
      /\ shared = w => inbox[w] \subseteq {current}
  BY JsExecAssumption DEF IInv, NowInv, Inv, Types, AtWork, Events
<1>3. outbox' = [outbox EXCEPT ![w] = @ \o <<e>>]
  <2>1. Append(outbox[w], e) = outbox[w] \o <<e>>
    BY <1>2 DEF Events
  <2> QED BY <1>1, <2>1
<1>4. \A v \in Execs : \A S : Tells(outbox, v, S) => Tells(outbox', v, S)
  BY <1>2, <1>3, PostedBehind DEF IInv
<1>5. e = current => Tells(outbox', w, {current, "error", "exit"})
  <2>1. Len(<<e>>) = 1 /\ <<e>>[1] = e
    OBVIOUS
  <2>2. \A S : e \in S => \E n \in 1..Len(<<e>>) : <<e>>[n] \in S
    BY <2>1
  <2>3. \A S : e \in S => Tells(outbox', w, S)
    BY <1>2, <1>3, <2>2, PostedBehind DEF IInv
  <2> QED BY <2>3
<1>6. Heard(shared', dead', outbox')
  BY <1>1, <1>2, <1>4 DEF ServedInv, Heard
<1>7. Attended(current', shared', inbox', outbox')
  <2>1. SUFFICES ASSUME current # None, SessionOf[current] = None
                 PROVE  /\ shared # None
                        /\ \/ current \in inbox'[shared]
                           \/ Tells(outbox', shared, {current, "error", "exit"})
    BY <1>1 DEF Attended
  <2>2. /\ shared # None /\ shared \in Execs
        /\ current \in inbox[shared] \/ Tells(outbox, shared, {current, "error", "exit"})
    BY <1>2, <2>1 DEF ServedInv, Attended
  <2>3. CASE shared = w
    BY <1>1, <1>2, <1>4, <1>5, <2>2, <2>3
  <2>4. CASE shared # w
    BY <1>1, <1>2, <1>4, <2>2, <2>4
  <2> QED BY <2>3, <2>4
<1> QED BY <1>1, <1>6, <1>7 DEF ServedInv

LEMMA DieServes ==
  ASSUME IInv, ServedInv, NEW w \in Execs,
         NEW events \in {<<"exit">>, <<"error", "exit">>}, Die(w, events)
  PROVE  ServedInv'
<1>1. /\ dead' = dead \cup {w} /\ inbox' = inbox
      /\ outbox' = [outbox EXCEPT ![w] = @ \o events]
      /\ queue' = queue /\ current' = current /\ shared' = shared
      /\ canceled' = canceled /\ answer' = answer
  BY DEF Die, mainVars
<1>2. events \in Seq(Events) /\ \E n \in 1..Len(events) : events[n] \in {"error", "exit"}
  <2>1. CASE events = <<"exit">>
    <3>1. Len(<<"exit">>) = 1 /\ <<"exit">>[1] = "exit" /\ <<"exit">> \in Seq(Events)
      BY DEF Events
    <3> QED BY <2>1, <3>1
  <2>2. CASE events = <<"error", "exit">>
    <3>1. /\ Len(<<"error", "exit">>) = 2 /\ <<"error", "exit">>[1] = "error"
          /\ <<"error", "exit">> \in Seq(Events)
      BY DEF Events
    <3> QED BY <2>2, <3>1
  <2> QED BY <2>1, <2>2
<1>3. /\ \A v \in Execs : \A S : Tells(outbox, v, S) => Tells(outbox', v, S)
      /\ Tells(outbox', w, {"error", "exit"})
  BY <1>1, <1>2, PostedBehind DEF IInv
<1>4. shared \in Execs \cup {None}
  BY DEF IInv, NowInv, Inv, Types
<1>5. Heard(shared', dead', outbox')
  BY <1>1, <1>3, <1>4 DEF ServedInv, Heard
<1>6. Attended(current', shared', inbox', outbox')
  BY <1>1, <1>3, <1>4 DEF ServedInv, Attended
<1> QED BY <1>1, <1>5, <1>6 DEF ServedInv

LEMMA InitServed == Init => ServedInv
  BY NothingAttended DEF Init, ServedInv, Queued, Settled

LEMMA ServedStep == IInv /\ ServedInv /\ [Next]_vars => ServedInv'
<1> SUFFICES ASSUME IInv, ServedInv, [Next]_vars PROVE ServedInv'
  OBVIOUS
<1>1. ASSUME NEW e \in Execs, Enqueue(e) PROVE ServedInv'
  BY <1>1, EnqueueServes
<1>2. ASSUME NEW e \in Execs, Timeout(e) PROVE ServedInv'
  BY <1>2, TimeoutServes
<1>3. CASE IdleTimeout
  BY <1>3, IdleTimeoutServes
<1>4. ASSUME NEW s \in Sessions, CloseSession(s) PROVE ServedInv'
  BY <1>4, CloseSessionServes
<1>5. ASSUME NEW w \in Workers, Deliver(w) PROVE ServedInv'
  <2>1. CASE IgnoreEvent(w)
    BY <2>1, IgnoreEventServes DEF Workers
  <2>2. CASE OnMessage(w)
    BY <2>2, OnMessageServes DEF Workers
  <2>3. CASE OnError(w)
    BY <2>3, OnErrorServes DEF Workers
  <2>4. CASE OnExit(w)
    BY <2>4, OnExitServes DEF Workers
  <2> QED BY <1>5, <2>1, <2>2, <2>3, <2>4 DEF Deliver
<1>6. ASSUME NEW w \in Workers, WorkerStep(w) PROVE ServedInv'
  <2>1. ASSUME NEW e \in Execs, Finish(w, e) PROVE ServedInv'
    BY <2>1, FinishServes DEF Workers
  <2>2. ASSUME NEW events \in {<<"exit">>, <<"error", "exit">>}, Die(w, events)
        PROVE  ServedInv'
    BY <2>2, DieServes DEF Workers
  <2> QED BY <1>6, <2>1, <2>2 DEF WorkerStep
<1>7. CASE UNCHANGED vars
  BY <1>7 DEF vars, mainVars, workerVars, ServedInv
<1> QED BY <1>1, <1>2, <1>3, <1>4, <1>5, <1>6, <1>7 DEF Next

(***************************************************************************)
(* While a call has no answer, some execution is current, the call is that *)
(* one or waits behind it, and the one is attended to: its worker lives    *)
(* and has it, or the main thread has still to handle its message or the   *)
(* end of its worker.  No call without a session is left to its timer.     *)
(***************************************************************************)
THEOREM EveryCallIsServed == Spec => []NobodyIsLeft
<1>1. IInv /\ ServedInv => NobodyIsLeft
  <2> SUFFICES ASSUME IInv, ServedInv, NEW e \in Execs, answer[e] = "pending"
               PROVE  /\ current # None
                      /\ e = current \/ \E i \in 1..Len(queue) : queue[i] = e
                      /\ SessionOf[current] = None =>
                           /\ shared # None
                           /\ \/ shared \notin dead /\ current \in inbox[shared]
                              \/ Tells(outbox, shared, {current, "error", "exit"})
    BY DEF NobodyIsLeft
  <2>1. e = current \/ \E i \in 1..Len(queue) : queue[i] = e
    BY DEF ServedInv, Queued
  <2>2. current # None
    <3>1. SUFFICES ASSUME current = None PROVE FALSE
      OBVIOUS
    <3>2. PICK i \in 1..Len(queue) : queue[i] = e
      BY <2>1, <3>1, JsExecAssumption
    <3>3. e \in canceled
      BY <3>1, <3>2 DEF IInv, NoLostWakeup
    <3> QED BY <3>3 DEF ServedInv, Settled
  <2>3. ASSUME SessionOf[current] = None
        PROVE  /\ shared # None
               /\ \/ shared \notin dead /\ current \in inbox[shared]
                  \/ Tells(outbox, shared, {current, "error", "exit"})
    <3>1. /\ shared # None
          /\ current \in inbox[shared] \/ Tells(outbox, shared, {current, "error", "exit"})
      BY <2>2, <2>3 DEF ServedInv, Attended
    <3>2. CASE shared \in dead
      BY <3>1, <3>2 DEF ServedInv, Heard, Tells
    <3> QED BY <3>1, <3>2
  <2> QED BY <2>1, <2>2, <2>3
<1>2. Spec => [](IInv /\ ServedInv)
  <2>1. Init => IInv /\ ServedInv
    BY InitInv, InitServed
  <2>2. IInv /\ ServedInv /\ [Next]_vars => (IInv /\ ServedInv)'
    BY Inductive, ServedStep
  <2> QED BY <2>1, <2>2, PTL DEF Spec
<1> QED BY <1>1, <1>2, PTL

-----------------------------------------------------------------------------
(***************************************************************************)
(* The refinement of CallsInTurn.  A third invariant beside the others:    *)
(* the current call has no answer, and the queue holds other calls without *)
(* one, and canceled ones.                                                 *)
(***************************************************************************)
InTurn(q, cur, ans, can) ==
  /\ cur # None => ans[cur] = "pending"
  /\ \A i \in 1..Len(q) : q[i] # cur /\ (ans[q[i]] = "pending" \/ q[i] \in can)

TurnInv == InTurn(queue, current, answer, canceled)

\* r is what is left of q without its first n calls, none of which waits.
Drops(q, r, n, ans) ==
  /\ n \in Nat /\ Len(q) \in Nat /\ n <= Len(q) /\ Len(r) = Len(q) - n
  /\ \A i \in 1..Len(r) : r[i] = q[n + i]
  /\ \A i \in 1..n : ans[q[i]] # "pending"

\* Canceled calls are in nobody's way, ...
LEMMA LineBehind ==
  ASSUME NEW q, NEW r, NEW n, NEW cur, NEW ans, Drops(q, r, n, ans)
  PROVE  Line(r, cur, ans) = Line(q, cur, ans)
<1> USE DEF Drops
<1>1. ASSUME NEW d \in Execs, NEW e \in Execs, ans[d] = "pending", ans[e] = "pending"
      PROVE  Before(r, cur, d, e) <=> Before(q, cur, d, e)
  <2>1. ASSUME NEW i \in 1..Len(r), NEW j \in 1..Len(r), i < j, r[i] = d, r[j] = e
        PROVE  \E k, l \in 1..Len(q) : k < l /\ q[k] = d /\ q[l] = e
    <3>1. n + i \in 1..Len(q) /\ n + j \in 1..Len(q) /\ n + i < n + j BY <2>1
    <3>2. q[n + i] = d /\ q[n + j] = e BY <2>1
    <3> QED BY <3>1, <3>2
  <2>2. ASSUME NEW k \in 1..Len(q), NEW l \in 1..Len(q), k < l, q[k] = d, q[l] = e
        PROVE  \E i, j \in 1..Len(r) : i < j /\ r[i] = d /\ r[j] = e
    <3>1. k \notin 1..n BY <1>1, <2>2
    <3> DEFINE i == k - n
               j == l - n
    <3>2. i \in 1..Len(r) /\ j \in 1..Len(r) /\ i < j /\ n + i = k /\ n + j = l
      BY <2>2, <3>1
    <3> HIDE DEF i, j
    <3>3. r[i] = d /\ r[j] = e BY <2>2, <3>2
    <3> QED BY <3>2, <3>3
  <2> QED BY <2>1, <2>2 DEF Before
<1> QED BY <1>1 DEF Line

\* ... the first of the queue stays the first when it becomes the current one, ...
LEMMA LineHead ==
  ASSUME NEW r, NEW t, NEW e \in Execs, NEW ans,
         Len(r) \in Nat \ {0}, Len(t) = Len(r) - 1, r[1] = e,
         \A i \in 1..Len(t) : t[i] = r[i + 1],
         \A x \in Execs : ans[x] = "pending" => \E i \in 1..Len(r) : r[i] = x,
         \A i, j \in 1..Len(r) : r[i] = r[j] => i = j
  PROVE  Line(t, e, ans) = Line(r, None, ans)
<1>1. ASSUME NEW d \in Execs, NEW x \in Execs, ans[d] = "pending", ans[x] = "pending"
      PROVE  Before(t, e, d, x) <=> Before(r, None, d, x)
  <2>1. d # None BY JsExecAssumption
  <2>2. ASSUME d = e, x # e PROVE \E k, l \in 1..Len(r) : k < l /\ r[k] = d /\ r[l] = x
    <3>1. PICK l \in 1..Len(r) : r[l] = x BY <1>1
    <3>2. l # 1 BY <2>2, <3>1
    <3>3. 1 \in 1..Len(r) /\ 1 < l BY <3>1, <3>2
    <3> QED BY <2>2, <3>1, <3>3
  <2>3. ASSUME NEW i \in 1..Len(t), NEW j \in 1..Len(t), i < j, t[i] = d, t[j] = x
        PROVE  \E k, l \in 1..Len(r) : k < l /\ r[k] = d /\ r[l] = x
    <3>1. i + 1 \in 1..Len(r) /\ j + 1 \in 1..Len(r) /\ i + 1 < j + 1 BY <2>3
    <3>2. r[i + 1] = d /\ r[j + 1] = x BY <2>3
    <3> QED BY <3>1, <3>2
  <2>4. ASSUME NEW k \in 1..Len(r), NEW l \in 1..Len(r), k < l, r[k] = d, r[l] = x,
               ~(d = e /\ x # e)
        PROVE  \E i, j \in 1..Len(t) : i < j /\ t[i] = d /\ t[j] = x
    <3>1. k # 1
      <4>1. 1 \in 1..Len(r) OBVIOUS
      <4>2. SUFFICES ASSUME k = 1 PROVE FALSE
        OBVIOUS
      <4>3. d = e /\ x = e BY <2>4, <4>2
      <4>4. l = 1 BY <2>4, <4>1, <4>3
      <4> QED BY <2>4, <4>2, <4>4
    <3> DEFINE i == k - 1
               j == l - 1
    <3>2. i \in 1..Len(t) /\ j \in 1..Len(t) /\ i < j /\ i + 1 = k /\ j + 1 = l
      BY <2>4, <3>1
    <3> HIDE DEF i, j
    <3>3. t[i] = d /\ t[j] = x BY <2>4, <3>2
    <3> QED BY <3>2, <3>3
  <2> QED BY <2>1, <2>2, <2>3, <2>4 DEF Before
<1> QED BY <1>1 DEF Line

\* ... and those who were told something leave the others in their order.
LEMMA LineTold ==
  ASSUME NEW q, NEW c, NEW S, NEW ans, NEW told,
         \A e \in Execs : told[e] = "pending" <=> ans[e] = "pending" /\ e \notin S,
         c = current \/ (c = None /\ current \in S \cup {None})
  PROVE  Line(q, c, told) = Turns!Without(Line(q, current, ans), S)
<1>1. ASSUME NEW d \in Execs, NEW e \in Execs, d \notin S
      PROVE  Before(q, c, d, e) <=> Before(q, current, d, e)
  <2>1. d # None BY JsExecAssumption
  <2>2. d = c <=> d = current BY <1>1, <2>1
  <2>3. d = c => c = current BY <2>1
  <2> QED BY <2>2, <2>3 DEF Before
<1>2. ASSUME NEW e \in Execs
      PROVE  Line(q, c, told)[e] = IF e \in S THEN {} ELSE Line(q, current, ans)[e] \ S
  <2>1. Line(q, c, told)[e]
          = {d \in Execs : told[d] = "pending" /\ told[e] = "pending" /\ Before(q, c, d, e)}
    BY DEF Line
  <2>2. Line(q, current, ans)[e]
          = {d \in Execs : ans[d] = "pending" /\ ans[e] = "pending" /\ Before(q, current, d, e)}
    BY DEF Line
  <2> QED BY <1>1, <2>1, <2>2
<1> DEFINE L == Line(q, c, told)
<1>3. L = [e \in Execs |-> L[e]]
  BY DEF Line
<1> HIDE DEF L
<1> QED BY <1>2, <1>3 DEF L, Turns!Without

\* The same when the worker's slot is freed by telling its call.
LEMMA LineServed ==
  ASSUME NEW q, NEW S, NEW ans, NEW told,
         \A e \in Execs : told[e] = "pending" <=> ans[e] = "pending" /\ e \notin S,
         current \in S \cup {None}
  PROVE  Line(q, None, told) = Turns!Without(Line(q, current, ans), S)
BY LineTold

\* The next call that processNextExecution starts is the first of those who wait.
LEMMA ProcessNextInTurn ==
  ASSUME NEW q, NEW cur, NEW sh,
         Inv(q, cur, sh, session, answer', created, dead', inbox, outbox'),
         Queued(q, cur, answer'), Settled(canceled', answer'),
         InTurn(q, cur, answer', canceled'), ProcessNext(q, cur, sh)
  PROVE  TurnInv' /\ Line(queue, current, answer)' = Line(q, cur, answer')
<1>1. PICK n \in 0..Len(q) :
        /\ Skips(q, n)
        /\ LET rest == SubSeq(q, n + 1, Len(q))
           IN  IF cur # None \/ rest = <<>> THEN Idles(rest, cur, sh) /\ UNCHANGED idle
                                           ELSE Dispatch(rest, sh)
  BY DEF ProcessNext
<1> DEFINE rest == SubSeq(q, n + 1, Len(q))
<1>2. q \in Seq(Execs) /\ Len(q) \in Nat /\ Waiting(q, answer', created)
  BY LenProperties DEF Inv, Types
<1>3. /\ rest \in Seq(Execs) /\ Waiting(rest, answer', created)
      /\ Len(rest) = Len(q) - n /\ \A i \in 1..Len(rest) : rest[i] = q[n + i]
  <2>1. \A i \in n + 1..Len(q) : q[i] \in Execs BY <1>2, ElementOfSeq
  <2>2. rest \in Seq(Execs) /\ Waiting(rest, answer', created) BY <1>2, RestOfQueue
  <2>3. /\ Len(rest) = IF n + 1 <= Len(q) THEN Len(q) - (n + 1) + 1 ELSE 0
        /\ \A i \in 1..Len(q) - (n + 1) + 1 : rest[i] = q[n + 1 + i - 1]
    BY <1>2, <2>1, SubSeqProperties
  <2> QED BY <1>2, <2>2, <2>3
<1>4. \A i \in 1..n : answer'[q[i]] # "pending"
  BY <1>1 DEF Skips, Settled
<1>5. \A i \in 1..Len(rest) : n + i \in 1..Len(q)
  BY <1>2, <1>3
<1> HIDE DEF rest
<1>6. Line(rest, cur, answer') = Line(q, cur, answer')
  <2>1. n <= Len(q) BY <1>2
  <2>2. Drops(q, rest, n, answer') BY <1>2, <1>3, <1>4, <2>1 DEF Drops
  <2> QED BY <2>2, LineBehind
<1>7. InTurn(rest, cur, answer', canceled')
  BY <1>3, <1>5 DEF InTurn
<1>8. CASE cur # None \/ rest = <<>>
  <2>1. queue' = rest /\ current' = cur BY <1>1, <1>8 DEF rest, Idles
  <2> QED BY <1>6, <1>7, <2>1 DEF TurnInv
<1>9. CASE ~(cur # None \/ rest = <<>>)
  <2> DEFINE e == Head(rest)
             t == Tail(rest)
  <2>1. queue' = t /\ current' = e BY <1>1, <1>9 DEF rest, Dispatch
  <2>2. /\ e = rest[1] /\ e \in Execs /\ Len(rest) \in Nat \ {0}
        /\ Len(t) = Len(rest) - 1 /\ \A i \in 1..Len(t) : t[i] = rest[i + 1]
    BY <1>3, <1>9, HeadTailProperties, EmptySeq
  <2>3. e \notin canceled'
    <3>1. n < Len(q) /\ 1 \in 1..Len(rest) BY <1>2, <1>3, <2>2
    <3>2. rest[1] = q[n + 1] BY <1>3, <3>1
    <3> QED BY <1>1, <2>2, <3>1, <3>2 DEF Skips
  <2> HIDE DEF e, t
  <2>4. \A i, j \in 1..Len(rest) : rest[i] = rest[j] => i = j
    BY <1>3 DEF Waiting
  <2>5. \A x \in Execs : answer'[x] = "pending" => \E i \in 1..Len(rest) : rest[i] = x
    <3>1. SUFFICES ASSUME NEW x \in Execs, answer'[x] = "pending"
                   PROVE  \E i \in 1..Len(rest) : rest[i] = x
      OBVIOUS
    <3>2. x # cur BY <1>9, JsExecAssumption
    <3>3. PICK k \in 1..Len(q) : q[k] = x BY <3>1, <3>2 DEF Queued
    <3>4. k \notin 1..n BY <1>4, <3>1, <3>3
    <3> DEFINE i == k - n
    <3>5. i \in 1..Len(rest) /\ n + i = k BY <1>2, <1>3, <3>3, <3>4
    <3> HIDE DEF i
    <3>6. rest[i] = x BY <1>3, <3>3, <3>5
    <3> QED BY <3>5, <3>6
  <2>6. Line(t, e, answer') = Line(rest, None, answer')
    BY <2>2, <2>4, <2>5, LineHead
  <2>7. 1 \in 1..Len(rest) /\ \A i \in 1..Len(t) : i + 1 \in 1..Len(rest) /\ i + 1 # 1
    BY <2>2
  <2>8. answer'[e] = "pending"
    BY <1>7, <2>2, <2>3, <2>7 DEF InTurn
  <2>9. ASSUME NEW i \in 1..Len(t)
        PROVE  t[i] # e /\ (answer'[t[i]] = "pending" \/ t[i] \in canceled')
    <3>1. t[i] = rest[i + 1] /\ i + 1 \in 1..Len(rest) /\ i + 1 # 1 BY <2>2, <2>7
    <3>2. rest[i + 1] # rest[1] BY <2>4, <2>7, <3>1
    <3> QED BY <1>7, <2>2, <3>1, <3>2 DEF InTurn
  <2>10. InTurn(t, e, answer', canceled') BY <2>8, <2>9 DEF InTurn
  <2> QED BY <1>6, <1>9, <2>1, <2>6, <2>10 DEF TurnInv
<1> QED BY <1>8, <1>9

\* Whoever is current is the first in line; without anybody the line is empty.
LEMMA FirstServed ==
  ASSUME IInv', ServedInv', TurnInv'
  PROVE  Turns!ServesFirst
<1>1. /\ queue' \in Seq(Execs) /\ current' \in Execs \cup {None}
      /\ Queued(queue', current', answer') /\ Settled(canceled', answer')
      /\ InTurn(queue', current', answer', canceled')
      /\ current' = None => \A i \in 1..Len(queue') : queue'[i] \in canceled'
  BY DEF IInv, NowInv, Inv, Types, ServedInv, TurnInv, NoLostWakeup
<1>2. CASE current' = None
  <2>1. SUFFICES ASSUME NEW e \in Execs, answer'[e] = "pending" PROVE FALSE
    BY <1>2 DEF Turns!ServesFirst, Turns!Pending
  <2>2. e # None BY JsExecAssumption
  <2>3. PICK i \in 1..Len(queue') : queue'[i] = e BY <1>1, <1>2, <2>1, <2>2 DEF Queued
  <2> QED BY <1>1, <1>2, <2>1, <2>3 DEF Settled
<1>3. CASE current' # None
  <2>1. current' \in Execs /\ answer'[current'] = "pending" BY <1>1, <1>3 DEF InTurn
  <2>2. \A d \in Execs : ~Before(queue', current', d, current')
    BY <1>1 DEF Before, InTurn
  <2>3. Line(queue', current', answer')[current'] = {} BY <2>1, <2>2 DEF Line
  <2> QED BY <2>1, <2>3 DEF Turns!ServesFirst, Turns!Pending
<1> QED BY <1>2, <1>3

\* A handler that tells the calls of S, all of them without an answer before.
LEMMA TellsInTurn ==
  ASSUME IInv, ServedInv, TurnInv, IInv', ServedInv', TurnInv',
         NEW S \in SUBSET Execs, NEW with \in {"result", "crashed", "timeout"},
         \A e \in S : answer[e] = "pending", answer' = Resolved(S, with),
         Line(queue, current, answer)' = Turns!Without(Line(queue, current, answer), S)
  PROVE  Turns!Told(S, with)
<1>1. answer \in [Execs -> Answers]
  BY DEF IInv, NowInv, Inv, Types
<1>2. answer' = [e \in Execs |-> IF e \in S THEN with ELSE answer[e]]
  BY DEF Resolved
<1> QED BY <1>2, FirstServed DEF Turns!Told

LEMMA EnqueueInTurn ==
  ASSUME IInv, ServedInv, TurnInv, IInv', ServedInv', NEW e \in Execs, Enqueue(e)
  PROVE  TurnInv' /\ Turns!Call(e)
<1> DEFINE q == Append(queue, e)
<1>1. /\ answer[e] = "uncalled" /\ answer' = [answer EXCEPT ![e] = "pending"]
      /\ canceled' = canceled /\ dead' = dead /\ outbox' = outbox
      /\ ProcessNext(q, current, shared)
  BY DEF Enqueue
<1>2. /\ Len(q) = Len(queue) + 1 /\ Len(queue) \in Nat
      /\ \A i \in 1..Len(queue) : q[i] = queue[i] /\ queue[i] \in Execs
      /\ q[Len(queue) + 1] = e /\ answer'[e] = "pending"
      /\ \A x \in Execs : x # e => answer'[x] = answer[x]
      /\ Inv(q, current, shared, session, answer', created, dead', inbox, outbox')
  BY <1>1, Joins
<1>3. /\ current # e /\ current \in Execs \cup {None}
      /\ \A i \in 1..Len(queue) : queue[i] # e
  BY <1>1, JsExecAssumption DEF IInv, NowInv, Inv, Types, Waiting, TurnInv, InTurn
<1>4. \A i \in 1..Len(q) : i \in 1..Len(queue) \/ i = Len(queue) + 1
  BY <1>2
<1>5. Settled(canceled', answer')
  <2>1. canceled \subseteq Execs BY DEF IInv
  <2> QED BY <1>1, <1>2, <2>1 DEF ServedInv, Settled
<1>p. \A i \in 1..Len(queue) : i \in 1..Len(q)
  BY <1>2
<1>l. Len(queue) + 1 \in 1..Len(q) /\ \A i \in 1..Len(queue) : i < Len(queue) + 1
  BY <1>2
<1> HIDE DEF q
<1>6. Queued(q, current, answer')
  <2>1. SUFFICES ASSUME NEW x \in Execs, answer'[x] = "pending", x # current
                 PROVE  \E i \in 1..Len(q) : q[i] = x
    BY DEF Queued
  <2>2. CASE x = e BY <1>2, <1>l, <2>2
  <2>3. CASE x # e
    <3>1. PICK i \in 1..Len(queue) : queue[i] = x
      BY <1>2, <2>1, <2>3 DEF ServedInv, Queued
    <3> QED BY <1>2, <1>p, <3>1
  <2> QED BY <2>2, <2>3
<1>7. InTurn(q, current, answer', canceled')
  <2>1. current # None => answer'[current] = "pending"
    BY <1>2, <1>3 DEF TurnInv, InTurn
  <2>2. ASSUME NEW i \in 1..Len(q)
        PROVE  q[i] # current /\ (answer'[q[i]] = "pending" \/ q[i] \in canceled')
    <3>1. CASE i \in 1..Len(queue)
      <4>1. q[i] = queue[i] /\ queue[i] \in Execs /\ queue[i] # e BY <1>2, <1>3, <3>1
      <4>2. queue[i] # current /\ (answer[queue[i]] = "pending" \/ queue[i] \in canceled)
        BY <3>1 DEF TurnInv, InTurn
      <4> QED BY <1>1, <1>2, <4>1, <4>2
    <3>2. CASE i = Len(queue) + 1 BY <1>2, <1>3, <3>2
    <3> QED BY <1>4, <3>1, <3>2
  <2> QED BY <2>1, <2>2 DEF InTurn
<1>8. TurnInv' /\ Line(queue, current, answer)' = Line(q, current, answer')
  BY <1>1, <1>2, <1>5, <1>6, <1>7, ProcessNextInTurn
<1> DEFINE L == Line(queue, current, answer)
           M == Line(q, current, answer')
<1>9. M = [L EXCEPT ![e] = Turns!Pending]
  <2>1. L = [x \in Execs |-> L[x]] /\ M = [x \in Execs |-> M[x]]
    BY DEF Line
  <2>2. ASSUME NEW d \in Execs, NEW x \in Execs, x # e, d # e
        PROVE  Before(q, current, d, x) <=> Before(queue, current, d, x)
    <3>1. ASSUME NEW i \in 1..Len(q), NEW j \in 1..Len(q), q[i] = d, q[j] = x
          PROVE  i \in 1..Len(queue) /\ j \in 1..Len(queue) /\ queue[i] = d /\ queue[j] = x
      BY <1>2, <1>4, <2>2, <3>1
    <3>2. ASSUME NEW i \in 1..Len(queue), NEW j \in 1..Len(queue)
          PROVE  /\ i \in 1..Len(q) /\ j \in 1..Len(q)
                 /\ q[i] = queue[i] /\ q[j] = queue[j]
      BY <1>2, <1>p
    <3> QED BY <3>1, <3>2 DEF Before
  <2>3. ASSUME NEW x \in Execs, x # e PROVE ~Before(q, current, e, x)
    <3>1. ASSUME NEW i \in 1..Len(q), NEW j \in 1..Len(q), i < j, q[i] = e PROVE FALSE
      <4>1. i = Len(queue) + 1 BY <1>2, <1>3, <1>4, <3>1
      <4> QED BY <1>2, <3>1, <4>1
    <3> QED BY <1>3, <3>1 DEF Before
  <2>4. ASSUME NEW x \in Execs, x # e PROVE M[x] = L[x]
    <3>1. answer'[x] = answer[x] BY <1>2, <2>4
    <3>2. M[x] = {d \in Execs : /\ answer'[d] = "pending" /\ answer'[x] = "pending"
                                /\ Before(q, current, d, x)}
      BY DEF Line
    <3>3. L[x] = {d \in Execs : /\ answer[d] = "pending" /\ answer[x] = "pending"
                                /\ Before(queue, current, d, x)}
      BY DEF Line
    <3>4. ASSUME NEW d \in Execs PROVE d \in M[x] <=> d \in L[x]
      <4>1. CASE d = e BY <1>1, <2>3, <2>4, <3>2, <3>3, <4>1
      <4>2. CASE d # e BY <1>2, <2>2, <2>4, <3>1, <3>2, <3>3, <4>2
      <4> QED BY <4>1, <4>2
    <3> HIDE DEF L, M
    <3> QED BY <3>2, <3>3, <3>4
  <2>5. M[e] = Turns!Pending
    <3>1. M[e] = {d \in Execs : /\ answer'[d] = "pending" /\ answer'[e] = "pending"
                                /\ Before(q, current, d, e)}
      BY DEF Line
    <3>2. ~Before(q, current, e, e)
      <4>1. ASSUME NEW i \in 1..Len(q), NEW j \in 1..Len(q), i < j, q[i] = e PROVE FALSE
        <5>1. i = Len(queue) + 1 BY <1>2, <1>3, <1>4, <4>1
        <5> QED BY <1>2, <4>1, <5>1
      <4> QED BY <1>3, <4>1 DEF Before
    <3>3. ASSUME NEW d \in Execs, answer[d] = "pending" PROVE Before(q, current, d, e)
      <4>1. CASE d = current BY <1>3, <4>1 DEF Before
      <4>2. CASE d # current
        <5>1. PICK i \in 1..Len(queue) : queue[i] = d
          BY <3>3, <4>2 DEF ServedInv, Queued
        <5>2. i \in 1..Len(q) /\ q[i] = d /\ i < Len(queue) + 1 BY <1>2, <1>p, <1>l, <5>1
        <5> QED BY <1>2, <1>l, <5>2 DEF Before
      <4> QED BY <4>1, <4>2
    <3>4. ASSUME NEW d \in Execs PROVE d \in M[e] <=> answer[d] = "pending"
      <4>1. CASE d = e BY <1>1, <3>1, <3>2, <4>1
      <4>2. CASE d # e
        <5>1. answer'[d] = answer[d] BY <1>2, <4>2
        <5>2. Before(q, current, d, e) => answer[d] = "pending" \/ answer'[d] # "pending"
          BY <5>1
        <5> QED BY <1>2, <3>1, <3>3, <5>1
      <4> QED BY <4>1, <4>2
    <3> HIDE DEF M
    <3> QED BY <3>1, <3>4 DEF Turns!Pending
  <2> HIDE DEF L, M
  <2> QED BY <2>1, <2>4, <2>5
<1>10. Turns!ServesFirst
  BY <1>8, FirstServed
<1> QED BY <1>1, <1>8, <1>9, <1>10 DEF Turns!Call

LEMMA TimeoutInTurn ==
  ASSUME IInv, ServedInv, TurnInv, IInv', ServedInv', NEW e \in Execs, Timeout(e)
  PROVE  TurnInv' /\ Turns!GiveUp(e)
<1>1. answer' = Resolved({e}, "timeout") /\ answer[e] = "pending" BY DEF Timeout
<1>2. /\ answer' \in [Execs -> Answers]
      /\ \A x \in Execs : answer'[x] = "uncalled" <=> answer[x] = "uncalled"
      /\ \A x \in Execs : answer'[x] = "pending" => answer[x] = "pending" /\ x # e
      /\ Settled(canceled, answer') /\ Queued(queue, current, answer')
      /\ current = e => Queued(queue, None, answer')
  BY <1>1, ResolvedServes
<1>3. \A x \in Execs : x # e => answer'[x] = answer[x]
  BY <1>1 DEF Resolved
<1>4. /\ queue \in Seq(Execs) /\ \A i \in 1..Len(queue) : queue[i] \in Execs
      /\ Waiting(queue, answer', created) /\ current \in Execs \cup {None}
      /\ canceled \subseteq Execs
  BY <1>2, ElementOfSeq DEF IInv, NowInv, Inv, Waiting, Types
<1>5. \A x \in Execs : answer'[x] = "pending" <=> answer[x] = "pending" /\ x \notin {e}
  BY <1>2, <1>3
<1>6. /\ TurnInv'
      /\ Line(queue, current, answer)' = Turns!Without(Line(queue, current, answer), {e})
  <2>1. CASE current = e
    <3>1. /\ Terminate({shared} \ {None}) /\ canceled' = canceled
          /\ ProcessNext(queue, None, None)
      BY <2>1 DEF Timeout
    <3>2. Inv(queue, None, None, session, answer', created, dead', inbox, outbox')
      BY <1>2, <3>1, GivesUp DEF IInv
    <3>3. InTurn(queue, None, answer', canceled')
      <4>1. \A i \in 1..Len(queue) :
              queue[i] # e /\ (answer[queue[i]] = "pending" \/ queue[i] \in canceled)
        BY <2>1 DEF TurnInv, InTurn
      <4>2. None \notin Execs BY JsExecAssumption
      <4> QED BY <1>3, <1>4, <3>1, <4>1, <4>2 DEF InTurn
    <3>4. TurnInv' /\ Line(queue, current, answer)' = Line(queue, None, answer')
      BY <1>2, <2>1, <3>1, <3>2, <3>3, ProcessNextInTurn
    <3>5. current \in {e} \cup {None} BY <2>1
    <3> QED BY <1>5, <3>4, <3>5, LineTold
  <2>2. CASE current # e
    <3>1. canceled' = canceled \cup {e} /\ dead' = dead /\ outbox' = outbox
      BY <2>2 DEF Timeout
    <3>2. Inv(queue, current, shared, session, answer', created, dead', inbox, outbox')
      BY <1>2, <1>4, <3>1 DEF IInv, NowInv, Inv, Types, Fresh
    <3>3. Settled(canceled', answer')
      <4>1. answer'[e] # "uncalled" /\ answer'[e] # "pending" BY <1>1, <1>2
      <4> QED BY <1>2, <3>1, <4>1 DEF Settled
    <3>4. InTurn(queue, current, answer', canceled')
      <4>1. current # None => answer'[current] = "pending"
        BY <1>3, <1>4, <2>2 DEF TurnInv, InTurn
      <4>2. ASSUME NEW i \in 1..Len(queue)
            PROVE  /\ queue[i] # current
                   /\ answer'[queue[i]] = "pending" \/ queue[i] \in canceled'
        <5>1. queue[i] # current /\ (answer[queue[i]] = "pending" \/ queue[i] \in canceled)
          BY DEF TurnInv, InTurn
        <5> QED BY <1>3, <1>4, <3>1, <5>1
      <4> QED BY <4>1, <4>2 DEF InTurn
    <3>5. TurnInv' /\ Line(queue, current, answer)' = Line(queue, current, answer')
      <4>1. CASE current = None
        <5>1. ProcessNext(queue, current, shared) BY <2>2, <4>1 DEF Timeout
        <5> QED BY <1>2, <3>2, <3>3, <3>4, <5>1, ProcessNextInTurn
      <4>2. CASE current # None
        <5>1. queue' = queue /\ current' = current BY <2>2, <4>2 DEF Timeout, Idles
        <5> QED BY <3>4, <5>1 DEF TurnInv
      <4> QED BY <4>1, <4>2
    <3> QED BY <1>5, <3>5, LineTold
  <2> QED BY <2>1, <2>2
<1>7. Turns!Told({e}, "timeout")
  <2>1. {e} \in SUBSET Execs /\ \A x \in {e} : answer[x] = "pending" BY <1>1
  <2> QED BY <1>1, <1>6, <2>1, TellsInTurn
<1> QED BY <1>1, <1>6, <1>7 DEF Turns!GiveUp, Turns!Pending

\* The handlers of a message and of an exit tell the current call, and go on with the
\* shared worker or without one.
LEMMA ServesInTurn ==
  ASSUME IInv, ServedInv, TurnInv, IInv', ServedInv', NEW sh,
         NEW with \in {"result", "crashed"}, answer' = Resolved({current}, with),
         canceled' = canceled,
         Inv(queue, None, sh, session, answer', created, dead', inbox, outbox'),
         \/ ProcessNext(queue, None, sh)
         \/ queue = <<>> /\ queue' = queue /\ current' = None
  PROVE  TurnInv' /\ [Turns!Next]_(Turns!vars)
<1>1. /\ \A x \in Execs : answer'[x] = "pending" => answer[x] = "pending" /\ x \notin {current}
      /\ Settled(canceled', answer') /\ Queued(queue, None, answer')
  <2>1. with \in {"result", "malformed", "crashed", "timeout"} /\ current \in {current}
    OBVIOUS
  <2> QED BY <2>1, ResolvedServes
<1>2. \A x \in Execs : x # current => answer'[x] = answer[x]
  BY DEF Resolved
<1>3. /\ queue \in Seq(Execs) /\ \A i \in 1..Len(queue) : queue[i] \in Execs
      /\ current \in Execs \cup {None} /\ None \notin Execs
      /\ answer \in [Execs -> Answers] /\ answer' \in [Execs -> Answers]
  BY ElementOfSeq, JsExecAssumption DEF IInv, NowInv, Inv, Types
<1>4. \A x \in Execs :
        answer'[x] = "pending" <=> answer[x] = "pending" /\ x \notin {current}
  BY <1>1, <1>2
<1>5. InTurn(queue, None, answer', canceled')
  <2>1. ASSUME NEW i \in 1..Len(queue)
        PROVE  /\ queue[i] # None
               /\ answer'[queue[i]] = "pending" \/ queue[i] \in canceled'
    <3>1. queue[i] # current /\ (answer[queue[i]] = "pending" \/ queue[i] \in canceled)
      BY DEF TurnInv, InTurn
    <3> QED BY <1>2, <1>3, <3>1
  <2> QED BY <2>1 DEF InTurn
<1>6. TurnInv' /\ Line(queue, current, answer)' = Line(queue, None, answer')
  <2>1. CASE ProcessNext(queue, None, sh)
    BY <1>1, <1>5, <2>1, ProcessNextInTurn
  <2>2. CASE queue' = queue /\ current' = None
    BY <1>5, <2>2 DEF TurnInv
  <2> QED BY <2>1, <2>2
<1> DEFINE S == {current} \ {None}
<1>7. Line(queue, current, answer)' = Turns!Without(Line(queue, current, answer), S)
  <2>1. ASSUME NEW told, NEW T, T = S,
               \A x \in Execs : told[x] = "pending" <=> answer[x] = "pending" /\ x \notin T
        PROVE  Line(queue, None, told) = Turns!Without(Line(queue, current, answer), T)
    <3>1. current \in T \cup {None} BY <2>1
    <3> QED BY <2>1, <3>1, LineServed
  <2>2. \A x \in Execs : answer'[x] = "pending" <=> answer[x] = "pending" /\ x \notin S
    BY <1>3, <1>4
  <2> HIDE DEF S
  <2>3. Line(queue, None, answer') = Turns!Without(Line(queue, current, answer), S)
    BY <2>1, <2>2
  <2> QED BY <1>6, <2>3
<1>8. CASE current # None
  <2>1. answer[current] = "pending" BY <1>8 DEF TurnInv, InTurn
  <2>2. S = {current} /\ S \in SUBSET Execs BY <1>3, <1>8
  <2>3. Turns!Told(S, with)
    <3>1. \A x \in S : answer[x] = "pending" BY <2>1, <2>2
    <3>2. answer' = Resolved(S, with) BY <2>2
    <3>3. with \in {"result", "crashed", "timeout"} OBVIOUS
    <3> HIDE DEF S
    <3> QED BY <1>6, <1>7, <2>2, <3>1, <3>2, <3>3, TellsInTurn
  <2>4. Turns!Told({current}, with) BY <2>2, <2>3
  <2> QED BY <1>6, <1>8, <2>4 DEF Turns!Next, Turns!Serve
<1>9. CASE current = None
  <2>1. answer' = answer
    <3>1. answer' = [x \in Execs |-> answer[x]] BY <1>3, <1>9 DEF Resolved
    <3> QED BY <1>3, <3>1
  <2>2. \A e \in Execs : answer[e] # "pending"
    <3>1. SUFFICES ASSUME NEW e \in Execs, answer[e] = "pending" PROVE FALSE
      OBVIOUS
    <3>2. PICK i \in 1..Len(queue) : queue[i] = e
      BY <1>3, <1>9, <3>1 DEF ServedInv, Queued
    <3>3. e \in canceled BY <1>9, <3>2 DEF IInv, NoLostWakeup
    <3> QED BY <3>1, <3>3 DEF ServedInv, Settled
  <2>3. current' = None
    <3>1. current' \in Execs \cup {None} BY DEF IInv, NowInv, Inv, Types
    <3>2. current' # None => answer'[current'] = "pending" BY <1>6 DEF TurnInv, InTurn
    <3> QED BY <2>1, <2>2, <3>1, <3>2
  <2>4. Line(queue, current, answer)' = Line(queue, current, answer)
    BY <1>6, <1>9, <2>1
  <2> QED BY <1>6, <1>9, <2>1, <2>3, <2>4 DEF Turns!vars
<1> QED BY <1>8, <1>9

\* An error is told to the whole line.
LEMMA OnErrorInTurn ==
  ASSUME IInv, ServedInv, TurnInv, IInv', ServedInv', NEW w \in Execs, OnError(w)
  PROVE  TurnInv' /\ [Turns!Next]_(Turns!vars)
<1> DEFINE S == {current} \cup {queue[i] : i \in 1..Len(queue)}
           P == Turns!Pending
<1>1. Idles(<<>>, None, None) /\ answer' = Resolved(S, "crashed")
  BY DEF OnError
<1>2. queue' = <<>> /\ current' = None
  BY <1>1 DEF Idles
<1>3. TurnInv'
  <2>1. Len(<<>>) = 0 /\ 1..0 = {} OBVIOUS
  <2> QED BY <1>2, <2>1 DEF TurnInv, InTurn
<1>4. /\ answer \in [Execs -> Answers]
      /\ \A e \in Execs : answer[e] = "pending" => e \in S
  BY DEF IInv, NowInv, Inv, Types, ServedInv, Queued
<1> HIDE DEF S
<1>5. answer' = Resolved(P, "crashed") /\ P \in SUBSET Execs /\ \A e \in P : answer[e] = "pending"
  BY <1>1, <1>4 DEF Resolved, Turns!Pending
<1>6. \A e \in Execs : answer'[e] # "pending"
  BY <1>4, <1>5 DEF Resolved, Turns!Pending
<1>7. Line(queue, current, answer)' = Turns!Without(Line(queue, current, answer), P)
  <2>1. ASSUME NEW e \in Execs
        PROVE  /\ Line(queue, current, answer)'[e] = {}
               /\ Turns!Without(Line(queue, current, answer), P)[e] = {}
    <3>1. Line(queue, current, answer)'[e] = {} BY <1>6 DEF Line
    <3>2. Line(queue, current, answer)[e] \subseteq {d \in Execs : answer[d] = "pending"}
      BY DEF Line
    <3> QED BY <3>1, <3>2 DEF Turns!Without, Turns!Pending
  <2> DEFINE L == Line(queue, current, answer)'
             M == Turns!Without(Line(queue, current, answer), P)
  <2>2. L = [e \in Execs |-> L[e]] /\ M = [e \in Execs |-> M[e]]
    BY DEF Line, Turns!Without
  <2>3. \A e \in Execs : L[e] = M[e] BY <2>1
  <2> HIDE DEF L, M
  <2>4. L = M BY <2>2, <2>3
  <2> QED BY <2>4 DEF L, M
<1>8. CASE P # {}
  <2>1. Turns!Told(P, "crashed")
    <3> HIDE DEF P
    <3> QED BY <1>3, <1>5, <1>7, TellsInTurn
  <2> QED BY <1>3, <1>8, <2>1 DEF Turns!Next, Turns!Crash
<1>9. CASE P = {}
  <2>1. answer' = answer
    <3>1. answer' = [e \in Execs |-> answer[e]] BY <1>5, <1>9 DEF Resolved
    <3> QED BY <1>4, <3>1
  <2>2. current = None
    <3>1. current \in Execs \cup {None} BY DEF IInv, NowInv, Inv, Types
    <3>2. current # None => answer[current] = "pending" BY DEF TurnInv, InTurn
    <3> QED BY <1>9, <3>1, <3>2 DEF Turns!Pending
  <2>3. Line(queue, current, answer)' = Line(queue, current, answer)
    <3>1. \A e \in Execs : answer[e] # "pending" BY <1>9 DEF Turns!Pending
    <3> QED BY <1>6, <3>1 DEF Line
  <2> QED BY <1>2, <1>3, <2>1, <2>2, <2>3 DEF Turns!vars
<1> QED BY <1>8, <1>9

LEMMA TurnStep ==
  ASSUME IInv, ServedInv, TurnInv, IInv', ServedInv', [Next]_vars
  PROVE  TurnInv' /\ [Turns!Next]_(Turns!vars)
<1>1. ASSUME NEW e \in Execs, Enqueue(e) PROVE TurnInv' /\ [Turns!Next]_(Turns!vars)
  BY <1>1, EnqueueInTurn DEF Turns!Next
<1>2. ASSUME NEW e \in Execs, Timeout(e) PROVE TurnInv' /\ [Turns!Next]_(Turns!vars)
  BY <1>2, TimeoutInTurn DEF Turns!Next
<1>3. ASSUME NEW w \in Execs, OnMessage(w) PROVE TurnInv' /\ [Turns!Next]_(Turns!vars)
  <2>1. /\ canceled' = canceled /\ answer' = Resolved({current}, "result")
        /\ Inv(queue, None, shared, session, answer', created, dead', inbox, outbox')
    BY <1>3, OwnMessage
  <2>2. \/ ProcessNext(queue, None, shared)
        \/ queue = <<>> /\ queue' = queue /\ current' = None
    BY <1>3 DEF OnMessage, Idles
  <2> QED BY <2>1, <2>2, ServesInTurn
<1>4. ASSUME NEW w \in Execs, OnError(w) PROVE TurnInv' /\ [Turns!Next]_(Turns!vars)
  BY <1>4, OnErrorInTurn
<1>5. ASSUME NEW w \in Execs, OnExit(w) PROVE TurnInv' /\ [Turns!Next]_(Turns!vars)
  <2>1. /\ outbox[w] # <<>> /\ Taken(w) /\ Head(outbox[w]) = "exit" /\ shared = w
        /\ canceled' = canceled /\ dead' = dead
        /\ ProcessNext(queue, None, None)
        /\ answer' = Resolved({current}, "crashed")
    BY <1>5 DEF OnExit, Ignored
  <2>2. /\ answer' \in [Execs -> Answers]
        /\ \A x \in Execs : answer'[x] = "uncalled" <=> answer[x] = "uncalled"
    BY <2>1, ResolvedServes
  <2>3. queue \in Seq(Execs) /\ Waiting(queue, answer, created)
    BY DEF IInv, NowInv, Inv, Types
  <2>4. Inv(queue, None, None, session, answer', created, dead', inbox, outbox')
    BY <2>1, <2>2, <2>3, WithoutShared DEF IInv
  <2> QED BY <2>1, <2>4, ServesInTurn
<1>6. CASE /\ queue' = queue /\ current' = current
           /\ answer' = answer /\ canceled' = canceled
  BY <1>6 DEF TurnInv, Turns!vars
<1>7. ASSUME NEW w \in Execs, WorkerStep(w) PROVE TurnInv' /\ [Turns!Next]_(Turns!vars)
  <2>1. queue' = queue /\ current' = current /\ answer' = answer /\ canceled' = canceled
    BY <1>7 DEF WorkerStep, Finish, Die, mainVars
  <2> QED BY <1>6, <2>1
<1>8. ASSUME NEW w \in Execs, IgnoreEvent(w) PROVE TurnInv' /\ [Turns!Next]_(Turns!vars)
  BY <1>6, <1>8 DEF IgnoreEvent, mainVars
<1>9. CASE IdleTimeout
  BY <1>6, <1>9 DEF IdleTimeout
<1>10. ASSUME NEW s \in Sessions, CloseSession(s)
       PROVE  TurnInv' /\ [Turns!Next]_(Turns!vars)
  BY <1>6, <1>10 DEF CloseSession
<1>11. CASE UNCHANGED vars
  BY <1>6, <1>11 DEF vars, mainVars
<1> QED BY <1>1, <1>2, <1>3, <1>4, <1>5, <1>7, <1>8, <1>9, <1>10, <1>11
        DEF Next, Deliver, Workers

LEMMA InitInTurn == Init => TurnInv /\ Turns!Init
<1> SUFFICES ASSUME Init PROVE TurnInv /\ Turns!Init
  OBVIOUS
<1>1. queue = <<>> /\ current = None /\ answer = [e \in Execs |-> "uncalled"]
  BY DEF Init
<1>2. Len(<<>>) = 0 /\ 1..0 = {} OBVIOUS
<1>3. TurnInv BY <1>1, <1>2 DEF TurnInv, InTurn
<1>4. Line(queue, current, answer) = [e \in Execs |-> {}] BY <1>1 DEF Line
<1> QED BY <1>1, <1>3, <1>4 DEF Turns!Init

(***************************************************************************)
(* Whatever workers time out, crash or are superseded, the calls stand in  *)
(* one line in the order in which they were made: between two handlers the *)
(* first of them is the current one, which alone gets a result or, but for *)
(* an error that all are told of, a crash.                                 *)
(***************************************************************************)
THEOREM CallsAreServedInTurn == Spec => ImplementsTurns
<1>1. Spec => [](IInv /\ ServedInv)
  <2>1. Init => IInv /\ ServedInv
    BY InitInv, InitServed
  <2>2. IInv /\ ServedInv /\ [Next]_vars => (IInv /\ ServedInv)'
    BY Inductive, ServedStep
  <2> QED BY <2>1, <2>2, PTL DEF Spec
<1>2. IInv /\ ServedInv /\ TurnInv /\ (IInv /\ ServedInv)' /\ [Next]_vars
        => TurnInv' /\ [Turns!Next]_(Turns!vars)
  BY TurnStep
<1> QED BY <1>1, <1>2, InitInTurn, PTL DEF Spec, ImplementsTurns, Turns!Spec

=============================================================================
