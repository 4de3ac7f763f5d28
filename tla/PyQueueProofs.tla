---------------------------- MODULE PyQueueProofs ----------------------------
(***************************************************************************)
(* Proofs about PyQueue: type correctness, its three safety invariants,    *)
(* its two action properties and the safety half of EveryCallReturns, for  *)
(* any number of calls, sessions and filesystems and all faults.           *)
(*                                                                         *)
(* As in JsExecQueueProofs the invariant is stated of any values of the    *)
(* variables, so that it can be said of what a handler passes on to        *)
(* processNextExecution.                                                   *)
(***************************************************************************)
EXTENDS PyQueue, SequenceTheorems, TLAPS

Names == {"success", "failure", "error", "exit"}

Types(que, exe, ses, can, res, rf, toa, pro, ans, bri, thr, rsm) ==
  /\ que \in [Filesystems -> Seq(Execs)] /\ exe \in [Filesystems -> BOOLEAN]
  /\ ses \in [Sessions -> Execs \cup {None}]
  /\ \A s \in Sessions : ses[s] # None => SessionOf[ses[s]] = s
  /\ can \subseteq Execs /\ res \subseteq Execs /\ rf \subseteq Execs
  /\ toa \subseteq Execs /\ rsm \subseteq Execs
  /\ pro \in [Execs -> {"pending", "success", "error", "deadline"}]
  /\ ans \in [Execs -> {"uncalled", "pending", "ok", "fail"}]
  /\ bri \in [Execs -> {"running", "exit0", "exit1", "timeout", "rejected"}]
  /\ thr \in [Execs -> Live \cup {"none", "dead"}]

\* Why an entry that has been answered is still in the queue.
Abandoned(e, can, toa, bri) ==
  IF e \in Persistent THEN e \in can \/ bri[e] = "rejected" ELSE e \in can \cup toa

\* An entry of the queue f is a call on the filesystem f with neither a worker nor a
\* result; its deadline has canceled it, and so has its answer unless it is
\* a call with --session whose bridge failed.
Entry(e, f, can, res, toa, pro, ans, bri, thr) ==
  /\ FsOf[e] = f /\ thr[e] = "none" /\ e \notin res
  /\ pro[e] \in {"pending", "deadline"} /\ (pro[e] = "deadline" => e \in can)
  /\ ans[e] # "uncalled"
  /\ ans[e] # "pending" => Abandoned(e, can, toa, bri)

Queued(que, can, res, toa, pro, ans, bri, thr) ==
  \A f \in Filesystems :
    /\ \A i \in 1..Len(que[f]) : Entry(que[f][i], f, can, res, toa, pro, ans, bri, thr)
    /\ \A i, j \in 1..Len(que[f]) : que[f][i] = que[f][j] => i = j

\* Before a call nothing is known of it, and before it has a worker no workerRef holds one.
Uncalled(res, rf, pro, ans, thr) ==
  \A e \in Execs :
    /\ ans[e] = "uncalled" => thr[e] = "none" /\ e \notin res /\ pro[e] = "pending"
    /\ thr[e] = "none" => e \notin rf

\* Executions that were started and of which no result is known.
Open(res, thr) == {e \in Execs \ res : thr[e] # "none"}

\* There is one on each filesystem that is executing, and none on the others.
OneOpen(exe, res, thr) ==
  /\ \A e \in Open(res, thr) : exe[FsOf[e]] = TRUE
  /\ \A d, e \in Open(res, thr) : FsOf[d] = FsOf[e] => d = e

\* A worker without a session does not go on when its result is known.
Settled(res, thr) ==
  \A e \in res \ Persistent : thr[e] \notin {"running", "exited"}

\* A live worker is held by its session or by the workerRef of its pending call.
Held(ses, rf, ans, thr) ==
  \A e \in Execs : thr[e] \in Live =>
    IF e \in Persistent THEN ses[SessionOf[e]] = e ELSE e \in rf /\ ans[e] = "pending"

Core(que, exe, ses, can, res, rf, toa, pro, ans, bri, thr, rsm) ==
  /\ Types(que, exe, ses, can, res, rf, toa, pro, ans, bri, thr, rsm)
  /\ Queued(que, can, res, toa, pro, ans, bri, thr)
  /\ Uncalled(res, rf, pro, ans, thr)
  /\ OneOpen(exe, res, thr)
  /\ Settled(res, thr)
  /\ Held(ses, rf, ans, thr)

\* What is not started reports nothing, and only the dead report their exit.
Reports(thr, out) ==
  /\ out \in [Execs -> Seq(Names)]
  /\ \A e \in Execs : thr[e] = "none" => out[e] = <<>>
  /\ \A e \in Execs : \A i \in 1..Len(out[e]) : out[e][i] = "exit" => thr[e] = "dead"

Awake(f, que, exe, can, rsm) ==
  ~exe[f] => \/ \A i \in 1..Len(que[f]) : que[f][i] \in can
             \/ \E e \in rsm : FsOf[e] = f

NowCore == Core(queue, isExecuting, session, canceled, resolved, ref, terminateOnAttach,
                promise, answer, bridge, thread, resuming)

IInv ==
  /\ NowCore
  /\ Reports(thread, outbox)
  /\ unspawnable \subseteq Execs
  /\ \A f \in Filesystems : Awake(f, queue, isExecuting, canceled, resuming)

-----------------------------------------------------------------------------
(***************************************************************************)
(* The operators.                                                          *)
(***************************************************************************)
LEMMA ResolvedKeeps ==
  ASSUME NEW p \in [Execs -> {"pending", "success", "error", "deadline"}], NEW S,
         NEW with \in {"success", "error"}
  PROVE  /\ Resolved(p, S, with) \in [Execs -> {"pending", "success", "error", "deadline"}]
         /\ \A e \in Execs : e \notin S => Resolved(p, S, with)[e] = p[e]
  BY DEF Resolved

\* worker.terminate() of live workers leaves the others and those without a worker alone.
LEMMA StoppedKeeps ==
  ASSUME thread \in [Execs -> Live \cup {"none", "dead"}], NEW W
  PROVE  /\ Stopped(W) \in [Execs -> Live \cup {"none", "dead"}]
         /\ \A e \in Execs : Stopped(W)[e] = "none" <=> thread[e] = "none"
         /\ \A e \in Execs : Stopped(W)[e] \in Live => e \notin W /\ thread[e] \in Live
         /\ \A e \in Execs : Stopped(W)[e] = thread[e] \/ Stopped(W)[e] = "dead"
  BY DEF Stopped, Live

\* ... and what the main thread is told of it is the exit of those it stopped.
LEMMA EventsKeep ==
  ASSUME thread \in [Execs -> Live \cup {"none", "dead"}], Reports(thread, outbox),
         NEW T, \A e \in T \cap Execs : outbox[e] # <<>>, NEW W
  PROVE  Reports(Stopped(W), Events(T, W))
<1> DEFINE base(e) == IF e \in T THEN Tail(outbox[e]) ELSE outbox[e]
           more(e) == IF e \in W /\ thread[e] \in Live THEN <<"exit">> ELSE <<>>
           out == Events(T, W)
<1>1. ASSUME NEW e \in Execs
      PROVE  /\ base(e) \in Seq(Names)
             /\ \A i \in 1..Len(base(e)) : base(e)[i] = "exit" => thread[e] = "dead"
             /\ outbox[e] = <<>> => base(e) = <<>>
  <2>1. outbox[e] \in Seq(Names)
    BY DEF Reports
  <2>2. CASE e \in T
    <3>1. outbox[e] # <<>>
      BY <2>2
    <3>2. /\ Tail(outbox[e]) \in Seq(Names)
          /\ Len(Tail(outbox[e])) = Len(outbox[e]) - 1 /\ Len(outbox[e]) \in Nat
          /\ \A i \in 1..Len(Tail(outbox[e])) : Tail(outbox[e])[i] = outbox[e][i + 1]
      BY <2>1, <3>1, HeadTailProperties, LenProperties
    <3>3. \A i \in 1..Len(Tail(outbox[e])) : i + 1 \in 1..Len(outbox[e])
      BY <3>2
    <3> QED BY <2>2, <3>1, <3>2, <3>3 DEF Reports
  <2>3. CASE e \notin T
    BY <2>1, <2>3 DEF Reports
  <2> QED BY <2>2, <2>3
<1>2. ASSUME NEW e \in Execs
      PROVE  /\ more(e) \in Seq(Names) /\ Len(more(e)) \in Nat
             /\ thread[e] \notin Live => more(e) = <<>>
             /\ \A i \in 1..Len(more(e)) : Stopped(W)[e] = "dead"
  <2>1. CASE e \in W /\ thread[e] \in Live
    <3>1. Stopped(W)[e] = "dead"
      BY <2>1 DEF Stopped
    <3>2. more(e) = <<"exit">>
      BY <2>1
    <3> QED BY <2>1, <3>1, <3>2 DEF Names
  <2>2. CASE ~(e \in W /\ thread[e] \in Live)
    <3>1. more(e) = <<>>
      BY <2>2
    <3> QED BY <3>1, EmptySeq
  <2> QED BY <2>1, <2>2
<1>3. \A e \in Execs : out[e] = base(e) \o more(e)
  BY DEF Events
<1> HIDE DEF base, more
<1>4. ASSUME NEW e \in Execs
      PROVE  /\ out[e] \in Seq(Names) /\ Len(out[e]) = Len(base(e)) + Len(more(e))
             /\ Len(base(e)) \in Nat
             /\ \A i \in 1..Len(base(e)) + Len(more(e)) :
                  out[e][i] = IF i <= Len(base(e)) THEN base(e)[i]
                                                   ELSE more(e)[i - Len(base(e))]
  <2>1. base(e) \in Seq(Names) /\ more(e) \in Seq(Names) /\ out[e] = base(e) \o more(e)
    BY <1>1, <1>2, <1>3
  <2> HIDE DEF out
  <2> QED BY <2>1, ConcatProperties, LenProperties
<1>5. out \in [Execs -> Seq(Names)]
  BY <1>4 DEF Events
<1>6. ASSUME NEW e \in Execs, Stopped(W)[e] = "none" PROVE out[e] = <<>>
  <2>1. thread[e] = "none" /\ outbox[e] = <<>> /\ thread[e] \notin Live
    BY <1>6, StoppedKeeps DEF Reports, Live
  <2>2. base(e) = <<>> /\ more(e) = <<>>
    BY <2>1, <1>1, <1>2
  <2> QED BY <2>2, <1>3, <1>1, ConcatEmptySeq
<1>7. ASSUME NEW e \in Execs, NEW i \in 1..Len(out[e]), out[e][i] = "exit"
      PROVE  Stopped(W)[e] = "dead"
  <2>1. CASE i <= Len(base(e))
    <3>1. i \in 1..Len(base(e)) /\ base(e)[i] = "exit"
      BY <2>1, <1>2, <1>4, <1>7
    <3>2. thread[e] = "dead"
      BY <3>1, <1>1
    <3> QED BY <3>2, StoppedKeeps
  <2>2. CASE ~(i <= Len(base(e)))
    <3>1. i - Len(base(e)) \in 1..Len(more(e))
      BY <2>2, <1>2, <1>4
    <3> QED BY <3>1, <1>2
  <2> QED BY <2>1, <2>2
<1> QED BY <1>5, <1>6, <1>7 DEF Reports

\* Stopping workers keeps everything else that the invariant says.
LEMMA StopCore ==
  ASSUME NEW que, NEW exe, NEW ses, NEW can, NEW res, NEW rf, NEW toa, NEW pro, NEW ans,
         NEW bri, NEW rsm, NEW W,
         Core(que, exe, ses, can, res, rf, toa, pro, ans, bri, thread, rsm)
  PROVE  Core(que, exe, ses, can, res, rf, toa, pro, ans, bri, Stopped(W), rsm)
<1> DEFINE thr == Stopped(W)
<1>1. /\ thr \in [Execs -> Live \cup {"none", "dead"}]
      /\ \A e \in Execs : thr[e] = "none" <=> thread[e] = "none"
      /\ \A e \in Execs : thr[e] \in Live => e \notin W /\ thread[e] \in Live
      /\ \A e \in Execs : thr[e] = thread[e] \/ thr[e] = "dead"
  BY StoppedKeeps DEF Core, Types
<1> HIDE DEF thr
<1>2. Types(que, exe, ses, can, res, rf, toa, pro, ans, bri, thr, rsm)
  BY <1>1 DEF Core, Types
<1>3. Queued(que, can, res, toa, pro, ans, bri, thr)
  <2>1. \A f \in Filesystems : \A i \in 1..Len(que[f]) : que[f][i] \in Execs
    BY ElementOfSeq DEF Core, Types
  <2> QED BY <1>1, <2>1 DEF Core, Queued, Entry
<1>4. Uncalled(res, rf, pro, ans, thr)
  BY <1>1 DEF Core, Uncalled
<1>5. OneOpen(exe, res, thr)
  BY <1>1 DEF Core, OneOpen, Open
<1>6. Settled(res, thr)
  BY <1>1 DEF Core, Settled, Types
<1>7. Held(ses, rf, ans, thr)
  BY <1>1 DEF Core, Held, Live
<1> QED BY <1>2, <1>3, <1>4, <1>5, <1>6, <1>7 DEF Core, thr

-----------------------------------------------------------------------------
(***************************************************************************)
(* processNextExecution.                                                   *)
(***************************************************************************)

\* What a handler passes on: the queue q of f, its isExecuting, the promises and flags.
PassedOn(f, q, busy, p, done) ==
  Core([queue EXCEPT ![f] = q], [isExecuting EXCEPT ![f] = busy], session, canceled', done,
       ref, terminateOnAttach', p, answer', bridge', thread, resuming')

\* No call that has been answered starts in this step.
NoneStartsAnswered ==
  \A e \in Execs : (thread[e] = "none" /\ thread'[e] # "none") =>
    answer'[e] = "pending" \/ (e \in Persistent /\ bridge'[e] = "rejected")

\* The calls of a session are on one filesystem.
OneFilesystem ==
  \A d, e \in Persistent : SessionOf[d] = SessionOf[e] => FsOf[d] = FsOf[e]

\* What starts in this step ends no program that has still to report.
Spares ==
  \A e \in Execs : (thread[e] = "none" /\ thread'[e] = "running") =>
    \A d \in Unreported : d \in Persistent \cap resolved' \/ thread'[d] = thread[d]

LEMMA WaitsKeeps ==
  ASSUME IInv, NEW f \in Filesystems, NEW q, NEW busy, NEW p, NEW done, NEW T, NEW stale,
         PassedOn(f, q, busy, p, done), \A e \in T \cap Execs : outbox[e] # <<>>,
         Waits(f, q, busy, p, done, T, stale)
  PROVE  /\ NowCore' /\ Reports(thread', outbox') /\ NoneStartsAnswered /\ Spares
         /\ unspawnable' = unspawnable
         /\ queue' = [queue EXCEPT ![f] = q] /\ isExecuting' = [isExecuting EXCEPT ![f] = busy]
<1>1. /\ queue' = [queue EXCEPT ![f] = q] /\ isExecuting' = [isExecuting EXCEPT ![f] = busy]
      /\ promise' = p /\ resolved' = done
      /\ thread' = Stopped(stale) /\ outbox' = Events(T, stale)
      /\ unspawnable' = unspawnable /\ session' = session /\ ref' = ref
  BY DEF Waits
<1>2. NowCore'
  <2>1. Core([queue EXCEPT ![f] = q], [isExecuting EXCEPT ![f] = busy], session, canceled',
             done, ref, terminateOnAttach', p, answer', bridge', Stopped(stale), resuming')
    BY StopCore DEF PassedOn
  <2> QED BY <1>1, <2>1 DEF NowCore
<1>3. thread \in [Execs -> Live \cup {"none", "dead"}] /\ Reports(thread, outbox)
  BY DEF IInv, NowCore, Core, Types
<1>4. Reports(thread', outbox')
  BY <1>1, <1>3, EventsKeep
<1>5. NoneStartsAnswered /\ Spares
  <2>1. \A e \in Execs : thread[e] = "none" => thread'[e] = "none"
    BY <1>1, <1>3, StoppedKeeps
  <2> QED BY <2>1 DEF NoneStartsAnswered, Spares
<1> QED BY <1>1, <1>2, <1>4, <1>5

LEMMA StartsKeeps ==
  ASSUME IInv, NEW f \in Filesystems, NEW q, NEW p, NEW done, NEW T, NEW stale,
         PassedOn(f, q, FALSE, p, done), \A e \in T \cap Execs : outbox[e] # <<>>,
         q # <<>>, ~Passed(Head(q)),
         Head(q) \in Persistent => session[SessionOf[Head(q)]] \in stale,
         Starts(f, q, p, done, T, stale)
  PROVE  /\ NowCore' /\ Reports(thread', outbox') /\ NoneStartsAnswered
         /\ (\A d \in stale \cap Execs : d \in Persistent /\ FsOf[d] = f) => Spares
         /\ unspawnable' = unspawnable
         /\ queue' = [queue EXCEPT ![f] = Tail(q)]
         /\ isExecuting' = [isExecuting EXCEPT ![f] = TRUE]
<1> DEFINE e == Head(q)
           que == [queue EXCEPT ![f] = q]
           exe == [isExecuting EXCEPT ![f] = FALSE]
           thr == Stopped(stale)
           out == Events(T, stale)
<1>1. /\ queue' = [queue EXCEPT ![f] = Tail(q)]
      /\ isExecuting' = [isExecuting EXCEPT ![f] = TRUE]
      /\ promise' = p /\ resolved' = done
      /\ thread' = [thr EXCEPT ![e] = "running"] /\ outbox' = out
      /\ ref' = ref \cup {e} /\ unspawnable' = unspawnable
      /\ session' = [s \in Sessions |-> IF s = SessionOf[e] THEN e ELSE session[s]]
  BY DEF Starts
<1>2. Core(que, exe, session, canceled', done, ref, terminateOnAttach', p, answer', bridge',
           thr, resuming')
  BY StopCore DEF PassedOn
<1>3. /\ queue \in [Filesystems -> Seq(Execs)] /\ isExecuting \in [Filesystems -> BOOLEAN]
      /\ thread \in [Execs -> Live \cup {"none", "dead"}] /\ Reports(thread, outbox)
  BY DEF IInv, NowCore, Core, Types
<1>4. /\ que[f] = q /\ q \in Seq(Execs) /\ exe[f] = FALSE
      /\ \A g \in Filesystems : g # f => que[g] = queue[g] /\ exe[g] = isExecuting[g]
  BY <1>2, <1>3 DEF Core, Types
<1>5. /\ e \in Execs /\ e = q[1] /\ 1 \in 1..Len(q)
      /\ Tail(q) \in Seq(Execs)
      /\ \A i \in 1..Len(Tail(q)) : i + 1 \in 1..Len(q) /\ Tail(q)[i] = q[i + 1] /\ i + 1 # 1
  <2>1. Len(q) \in Nat \ {0}
    BY <1>4, EmptySeq
  <2> QED BY <1>4, <2>1, HeadTailProperties
<1>6. /\ Entry(e, f, canceled', done, terminateOnAttach', p, answer', bridge', thr)
      /\ \A i \in 1..Len(Tail(q)) : Tail(q)[i] # e
  BY <1>2, <1>4, <1>5 DEF Core, Queued
<1>7. /\ FsOf[e] = f /\ thr[e] = "none" /\ e \notin done /\ thread[e] = "none"
      /\ e \notin canceled' /\ (e \notin Persistent => e \notin terminateOnAttach')
      /\ answer'[e] = "pending" \/ (e \in Persistent /\ bridge'[e] = "rejected")
      /\ answer'[e] # "uncalled"
  BY <1>3, <1>5, <1>6, StoppedKeeps DEF Entry, Passed, Abandoned
<1> HIDE DEF e, thr, out
<1>8. /\ thr \in [Execs -> Live \cup {"none", "dead"}]
      /\ thread' \in [Execs -> Live \cup {"none", "dead"}]
      /\ thread'[e] = "running" /\ \A d \in Execs : d # e => thread'[d] = thr[d]
  BY <1>1, <1>2, <1>5 DEF Core, Types, Live
<1>9. SessionOf[e] \in Sessions \cup {None} /\ None \notin Sessions /\ None \notin Execs
  BY <1>5, PyQueueAssumption
<1>10. Types(queue', isExecuting', session', canceled', resolved', ref', terminateOnAttach',
             promise', answer', bridge', thread', resuming')
  <2>1. session' \in [Sessions -> Execs \cup {None}]
    BY <1>1, <1>2, <1>5 DEF Core, Types
  <2>2. queue' \in [Filesystems -> Seq(Execs)] /\ isExecuting' \in [Filesystems -> BOOLEAN]
    BY <1>1, <1>3, <1>5
  <2> QED BY <1>1, <1>2, <1>5, <1>8, <2>1, <2>2 DEF Core, Types
<1>11. Queued(queue', canceled', resolved', terminateOnAttach', promise', answer', bridge', thread')
  <2>1. \A g \in Filesystems : queue'[g] = IF g = f THEN Tail(q) ELSE que[g]
    BY <1>1, <1>3, <1>4
  <2>2. ASSUME NEW g \in Filesystems
        PROVE  /\ \A i \in 1..Len(queue'[g]) :
                    /\ Entry(queue'[g][i], g, canceled', done, terminateOnAttach', p, answer',
                             bridge', thr)
                    /\ queue'[g][i] \in Execs /\ queue'[g][i] # e
               /\ \A i, j \in 1..Len(queue'[g]) : queue'[g][i] = queue'[g][j] => i = j
    <3>1. CASE g = f
      <4>1. queue'[g] = Tail(q)
        BY <2>1, <3>1
      <4>2. /\ \A i \in 1..Len(q) : Entry(q[i], f, canceled', done, terminateOnAttach', p,
                                          answer', bridge', thr) /\ q[i] \in Execs
            /\ \A i, j \in 1..Len(q) : q[i] = q[j] => i = j
        BY <1>2, <1>4, ElementOfSeq DEF Core, Queued
      <4>3. ASSUME NEW i \in 1..Len(Tail(q)), NEW j \in 1..Len(Tail(q)), Tail(q)[i] = Tail(q)[j]
            PROVE  i = j
        <5>1. i + 1 = j + 1 /\ i \in Nat /\ j \in Nat
          BY <1>5, <4>2, <4>3, LenProperties
        <5> QED BY <5>1
      <4> QED BY <3>1, <4>1, <4>2, <4>3, <1>5, <1>6
    <3>2. CASE g # f
      <4>1. queue'[g] = que[g] /\ que[g] \in Seq(Execs)
        BY <2>1, <3>2, <1>2 DEF Core, Types
      <4>2. /\ \A i \in 1..Len(que[g]) : Entry(que[g][i], g, canceled', done,
                             terminateOnAttach', p, answer', bridge', thr)
            /\ \A i \in 1..Len(que[g]) : que[g][i] \in Execs
            /\ \A i, j \in 1..Len(que[g]) : que[g][i] = que[g][j] => i = j
        BY <1>2, <4>1, ElementOfSeq DEF Core, Queued
      <4>3. \A i \in 1..Len(que[g]) : que[g][i] # e
        BY <4>2, <3>2, <1>7 DEF Entry
      <4> QED BY <4>1, <4>2, <4>3
    <3> QED BY <3>1, <3>2
  <2>3. ASSUME NEW g \in Filesystems, NEW i \in 1..Len(queue'[g])
        PROVE  Entry(queue'[g][i], g, canceled', done, terminateOnAttach', p, answer', bridge',
                     thread')
    <3>1. thread'[queue'[g][i]] = thr[queue'[g][i]]
      BY <2>2, <1>8
    <3> QED BY <2>2, <3>1 DEF Entry
  <2>4. ASSUME NEW g \in Filesystems
        PROVE  \A i, j \in 1..Len(queue'[g]) : queue'[g][i] = queue'[g][j] => i = j
    BY <2>2
  <2>5. Queued(queue', canceled', done, terminateOnAttach', p, answer', bridge', thread')
    BY <2>3, <2>4 DEF Queued
  <2> QED BY <2>5, <1>1
<1>12. Uncalled(resolved', ref', promise', answer', thread')
  BY <1>1, <1>2, <1>7, <1>8 DEF Core, Uncalled
<1>13. OneOpen(isExecuting', resolved', thread')
  <2>1. \A d \in Open(done, thread') : d = e \/ (d \in Open(done, thr) /\ FsOf[d] # f)
    <3>1. SUFFICES ASSUME NEW d \in Open(done, thread'), d # e
                   PROVE  d \in Open(done, thr) /\ FsOf[d] # f
      OBVIOUS
    <3>2. d \in Open(done, thr)
      BY <3>1, <1>8 DEF Open
    <3>3. FsOf[d] # f
      BY <3>2, <1>2, <1>4 DEF Core, OneOpen
    <3> QED BY <3>2, <3>3
  <2>2. \A d \in Execs : FsOf[d] \in Filesystems
    BY PyQueueAssumption
  <2>3. isExecuting'[f] = TRUE /\ \A g \in Filesystems : g # f => isExecuting'[g] = exe[g]
    BY <1>1, <1>3, <1>4
  <2>4. \A d \in Open(done, thread') : isExecuting'[FsOf[d]] = TRUE
    BY <2>1, <2>2, <2>3, <1>2, <1>7 DEF Core, OneOpen, Open
  <2>5. \A c, d \in Open(done, thread') : FsOf[c] = FsOf[d] => c = d
    BY <2>1, <1>2, <1>7 DEF Core, OneOpen
  <2> QED BY <1>1, <2>4, <2>5 DEF OneOpen
<1>14. Settled(resolved', thread')
  BY <1>1, <1>2, <1>7, <1>8 DEF Core, Settled, Types
<1>15. Held(session', ref', answer', thread')
  <2>1. SUFFICES ASSUME NEW d \in Execs, thread'[d] \in Live
                 PROVE  IF d \in Persistent THEN session'[SessionOf[d]] = d
                                            ELSE d \in ref' /\ answer'[d] = "pending"
    BY DEF Held
  <2>2. CASE d = e
    BY <2>2, <1>1, <1>7, <1>9, <1>5 DEF Persistent
  <2>3. CASE d # e
    <3>1. thr[d] \in Live
      BY <2>1, <2>3, <1>8
    <3>2. IF d \in Persistent THEN session[SessionOf[d]] = d
                              ELSE d \in ref /\ answer'[d] = "pending"
      BY <3>1, <1>2 DEF Core, Held
    <3>3. d \notin stale
      BY <3>1, <1>3, StoppedKeeps DEF thr
    <3>4. CASE d \in Persistent
      <4>1. SessionOf[d] \in Sessions
        BY <3>4, PyQueueAssumption DEF Persistent
      <4>2. SessionOf[d] # SessionOf[e]
        BY <4>1, <3>2, <3>3, <3>4, <1>5, <1>9 DEF Persistent, e
      <4> QED BY <3>2, <3>4, <4>1, <4>2, <1>1
    <3>5. CASE d \notin Persistent
      BY <3>2, <3>5, <1>1
    <3> QED BY <3>4, <3>5
  <2> QED BY <2>2, <2>3
<1>16. Reports(thread', outbox')
  <2>1. Reports(thr, out)
    BY <1>3, EventsKeep DEF thr, out
  <2>2. out[e] = <<>>
    BY <2>1, <1>5, <1>7 DEF Reports
  <2> QED BY <2>1, <2>2, <1>1, <1>8, EmptySeq DEF Reports
<1>17. NoneStartsAnswered
  <2>1. \A d \in Execs : thr[d] = "none" <=> thread[d] = "none"
    BY <1>3, StoppedKeeps DEF thr
  <2> QED BY <2>1, <1>7, <1>8 DEF NoneStartsAnswered
<1>18. ASSUME \A d \in stale \cap Execs : d \in Persistent /\ FsOf[d] = f
       PROVE  Spares
  <2>1. SUFFICES ASSUME NEW d \in Unreported
                 PROVE  d \in Persistent \cap resolved' \/ thread'[d] = thread[d]
    BY DEF Spares
  <2>2. d \in Execs /\ thread[d] \in {"running", "exited"} /\ d # e
    BY <2>1, <1>7 DEF Unreported
  <2>3. CASE d \notin stale
    <3>1. thr[d] = thread[d]
      BY <2>2, <2>3 DEF thr, Stopped
    <3> QED BY <2>2, <3>1, <1>8
  <2>4. CASE d \in stale
    <3>1. d \in Persistent /\ FsOf[d] = f
      BY <2>2, <2>4, <1>18
    <3>2. d \in done
      <4>1. Core(que, exe, session, canceled', done, ref, terminateOnAttach', p, answer',
                 bridge', thread, resuming')
        BY DEF PassedOn
      <4>2. d \notin done => exe[FsOf[d]] = TRUE
        BY <4>1, <2>2 DEF Core, OneOpen, Open
      <4> QED BY <4>2, <3>1, <1>4
    <3> QED BY <3>1, <3>2, <1>1
  <2> QED BY <2>3, <2>4
<1>19. NowCore'
  BY <1>10, <1>11, <1>12, <1>13, <1>14, <1>15 DEF NowCore, Core
<1> QED BY <1>1, <1>16, <1>17, <1>18, <1>19 DEF e

\* Giving up the first n entries of a queue: they get a result without a worker.
LEMMA PassingKeeps ==
  ASSUME IInv, NEW f \in Filesystems, NEW q, NEW p, NEW done, NEW n \in 0..Len(q),
         PassedOn(f, q, FALSE, p, done)
  PROVE  PassedOn(f, SubSeq(q, n + 1, Len(q)), FALSE, Resolved(p, Tried(q, n), "error"),
                     done \cup (Tried(q, n) \ unspawnable))
<1> DEFINE rest == SubSeq(q, n + 1, Len(q))
           passed == Tried(q, n)
           p2 == Resolved(p, passed, "error")
           done2 == done \cup (passed \ unspawnable)
           exe == [isExecuting EXCEPT ![f] = FALSE]
<1>1. Core([queue EXCEPT ![f] = q], exe, session, canceled', done,
           ref, terminateOnAttach', p, answer', bridge', thread, resuming')
  BY DEF PassedOn
<1>2. queue \in [Filesystems -> Seq(Execs)]
  BY DEF IInv, NowCore, Core, Types
<1>3. q \in Seq(Execs)
  BY <1>1, <1>2 DEF Core, Types
<1>4. /\ \A i \in 1..Len(q) :
           Entry(q[i], f, canceled', done, terminateOnAttach', p, answer', bridge', thread)
           /\ q[i] \in Execs
      /\ \A i, j \in 1..Len(q) : q[i] = q[j] => i = j
  BY <1>1, <1>2, <1>3, ElementOfSeq DEF Core, Queued
<1>5. Len(q) \in Nat /\ n \in Nat /\ n + 1 \in Int /\ n <= Len(q)
  BY <1>3, LenProperties
<1>6. /\ rest \in Seq(Execs) /\ Len(rest) = Len(q) - n
      /\ \A i \in 1..Len(rest) : n + i \in 1..Len(q) /\ rest[i] = q[n + i]
  <2>1. \A i \in n + 1 .. Len(q) : q[i] \in Execs
    BY <1>4, <1>5
  <2>2. /\ rest \in Seq(Execs)
        /\ Len(rest) = IF n + 1 <= Len(q) THEN Len(q) - (n + 1) + 1 ELSE 0
        /\ \A i \in 1 .. Len(q) - (n + 1) + 1 : rest[i] = q[n + 1 + i - 1]
    BY <1>5, <2>1, SubSeqProperties
  <2> QED BY <1>5, <2>2
<1>7. ASSUME NEW x \in passed PROVE \E i \in 1..n : x = q[i] /\ i \in 1..Len(q)
  BY <1>5 DEF Tried
<1> HIDE DEF rest, passed
<1>8. \A i \in 1..Len(rest) : rest[i] \notin passed
  <2>1. SUFFICES ASSUME NEW i \in 1..Len(rest), rest[i] \in passed PROVE FALSE
    OBVIOUS
  <2>2. PICK j \in 1..n : rest[i] = q[j] /\ j \in 1..Len(q)
    BY <2>1, <1>7
  <2>3. n + i = j
    BY <2>2, <1>4, <1>6
  <2> QED BY <2>3, <1>5, <1>6
<1>9. ASSUME NEW x \in passed
      PROVE  /\ x \in Execs /\ FsOf[x] = f /\ thread[x] = "none" /\ x \notin done
             /\ answer'[x] # "uncalled"
  BY <1>4, <1>7 DEF Entry
<1>10. /\ p2 \in [Execs -> {"pending", "success", "error", "deadline"}]
       /\ \A x \in Execs : x \notin passed => p2[x] = p[x]
  BY <1>1, ResolvedKeeps DEF Core, Types
<1> HIDE DEF p2
<1>11. Types([queue EXCEPT ![f] = rest], exe, session, canceled', done2, ref,
             terminateOnAttach', p2, answer', bridge', thread, resuming')
  BY <1>1, <1>2, <1>6, <1>9, <1>10 DEF Core, Types
<1>12. Queued([queue EXCEPT ![f] = rest], canceled', done2, terminateOnAttach', p2, answer',
              bridge', thread)
  <2>1. SUFFICES ASSUME NEW g \in Filesystems
                 PROVE  LET qg == [queue EXCEPT ![f] = rest][g]
                        IN  /\ \A i \in 1..Len(qg) : Entry(qg[i], g, canceled', done2,
                                   terminateOnAttach', p2, answer', bridge', thread)
                            /\ \A i, j \in 1..Len(qg) : qg[i] = qg[j] => i = j
    BY DEF Queued
  <2>2. CASE g = f
    <3>1. [queue EXCEPT ![f] = rest][g] = rest
      BY <2>2, <1>2
    <3>2. ASSUME NEW i \in 1..Len(rest)
          PROVE  Entry(rest[i], f, canceled', done2, terminateOnAttach', p2, answer', bridge',
                       thread)
      <4>1. rest[i] \in Execs /\ rest[i] \notin passed
            /\ Entry(rest[i], f, canceled', done, terminateOnAttach', p, answer', bridge', thread)
        BY <1>4, <1>6, <1>8
      <4> QED BY <4>1, <1>10 DEF Entry
    <3>3. ASSUME NEW i \in 1..Len(rest), NEW j \in 1..Len(rest), rest[i] = rest[j]
          PROVE  i = j
      <4>1. n + i = n + j /\ i \in Nat /\ j \in Nat
        BY <3>3, <1>4, <1>5, <1>6
      <4> QED BY <4>1, <1>5
    <3> QED BY <2>2, <3>1, <3>2, <3>3
  <2>3. CASE g # f
    <3>1. [queue EXCEPT ![f] = rest][g] = queue[g] /\ [queue EXCEPT ![f] = q][g] = queue[g]
      BY <2>3, <1>2
    <3>2. /\ \A i \in 1..Len(queue[g]) :
               Entry(queue[g][i], g, canceled', done, terminateOnAttach', p, answer', bridge',
                     thread) /\ queue[g][i] \in Execs
          /\ \A i, j \in 1..Len(queue[g]) : queue[g][i] = queue[g][j] => i = j
      BY <1>1, <1>2, <3>1, ElementOfSeq DEF Core, Queued
    <3>3. \A i \in 1..Len(queue[g]) : queue[g][i] \notin passed
      BY <3>2, <2>3, <1>9 DEF Entry
    <3>4. ASSUME NEW i \in 1..Len(queue[g])
          PROVE  Entry(queue[g][i], g, canceled', done2, terminateOnAttach', p2, answer',
                       bridge', thread)
      BY <3>2, <3>3, <1>10 DEF Entry
    <3> QED BY <3>1, <3>2, <3>4
  <2> QED BY <2>2, <2>3
<1>13. Uncalled(done2, ref, p2, answer', thread)
  BY <1>1, <1>9, <1>10 DEF Core, Uncalled
<1>14. OneOpen(exe, done2, thread)
  BY <1>1 DEF Core, OneOpen, Open
<1>15. Settled(done2, thread)
  BY <1>1, <1>9 DEF Core, Settled
<1>16. Held(session, ref, answer', thread)
  BY <1>1 DEF Core
<1> QED BY <1>11, <1>12, <1>13, <1>14, <1>15, <1>16 DEF PassedOn, Core, rest, p2, passed

\* The queues of the other filesystems wake up as before.
LEMMA AwakeOthers ==
  ASSUME IInv, NEW f \in Filesystems, NEW q, NEW busy, canceled \subseteq canceled',
         queue' = [queue EXCEPT ![f] = q], isExecuting' = [isExecuting EXCEPT ![f] = busy],
         \A e \in resuming : e \in resuming' \/ FsOf[e] = f,
         busy = TRUE \/ q = <<>>
  PROVE  \A g \in Filesystems : Awake(g, queue', isExecuting', canceled', resuming')
<1>1. queue \in [Filesystems -> Seq(Execs)] /\ isExecuting \in [Filesystems -> BOOLEAN]
  BY DEF IInv, NowCore, Core, Types
<1> SUFFICES ASSUME NEW g \in Filesystems
             PROVE  Awake(g, queue', isExecuting', canceled', resuming')
  OBVIOUS
<1>2. CASE g = f
  BY <1>1, <1>2, EmptySeq DEF Awake
<1>3. CASE g # f
  <2>1. queue'[g] = queue[g] /\ isExecuting'[g] = isExecuting[g]
    BY <1>1, <1>3
  <2>2. Awake(g, queue, isExecuting, canceled, resuming)
    BY DEF IInv
  <2> QED BY <1>3, <2>1, <2>2 DEF Awake
<1> QED BY <1>2, <1>3

(***************************************************************************)
(* Whatever handler calls it, with what it passes on.                      *)
(***************************************************************************)
LEMMA ProcessNextKeeps ==
  ASSUME IInv, NEW f \in Filesystems, NEW q, NEW busy \in BOOLEAN, NEW p, NEW done, NEW T,
         PassedOn(f, q, busy, p, done), \A e \in T \cap Execs : outbox[e] # <<>>,
         \A e \in resuming : e \in resuming' \/ FsOf[e] = f,
         canceled \subseteq canceled',
         ProcessNext(f, q, busy, p, done, T)
  PROVE  IInv' /\ NoneStartsAnswered /\ (OneFilesystem => Spares)
<1>1. CASE busy = TRUE
  <2>1. Waits(f, q, busy, p, done, T, {})
    BY <1>1 DEF ProcessNext
  <2>2. /\ NowCore' /\ Reports(thread', outbox') /\ NoneStartsAnswered /\ Spares
        /\ unspawnable' = unspawnable
        /\ queue' = [queue EXCEPT ![f] = q] /\ isExecuting' = [isExecuting EXCEPT ![f] = busy]
    BY <2>1, WaitsKeeps
  <2>3. \A g \in Filesystems : Awake(g, queue', isExecuting', canceled', resuming')
    BY <1>1, <2>2, AwakeOthers
  <2> QED BY <2>2, <2>3 DEF IInv
<1>2. CASE busy = FALSE
  <2>1. PICK n \in 0..Len(q) :
          LET rest   == SubSeq(q, n + 1, Len(q))
              passed == Tried(q, n)
              failed == Resolved(p, passed, "error")
              told   == done \cup (passed \ unspawnable)
          IN  /\ Passes(q, n)
              /\ IF rest = <<>> THEN Waits(f, <<>>, FALSE, failed, told, T, Stale(passed))
                 ELSE Starts(f, rest, failed, told, T, Stale(passed \cup {Head(rest)}))
    BY <1>2 DEF ProcessNext
  <2> DEFINE rest   == SubSeq(q, n + 1, Len(q))
             passed == Tried(q, n)
             failed == Resolved(p, passed, "error")
             told   == done \cup (passed \ unspawnable)
  <2>2. PassedOn(f, rest, FALSE, failed, told)
    BY <1>2, PassingKeeps
  <2>3. CASE rest = <<>>
    <3>1. /\ Waits(f, <<>>, busy, failed, told, T, Stale(passed))
          /\ PassedOn(f, <<>>, busy, failed, told)
      BY <1>2, <2>1, <2>2, <2>3
    <3>2. /\ NowCore' /\ Reports(thread', outbox') /\ NoneStartsAnswered /\ Spares
          /\ unspawnable' = unspawnable
          /\ queue' = [queue EXCEPT ![f] = <<>>]
          /\ isExecuting' = [isExecuting EXCEPT ![f] = busy]
      <4> HIDE DEF failed, told, passed
      <4> QED BY <3>1, WaitsKeeps
    <3>3. \A g \in Filesystems : Awake(g, queue', isExecuting', canceled', resuming')
      BY <3>2, AwakeOthers
    <3> QED BY <3>2, <3>3 DEF IInv
  <2>4. CASE rest # <<>>
    <3>1. Starts(f, rest, failed, told, T, Stale(passed \cup {Head(rest)}))
      BY <2>1, <2>4
    <3>2. Head(rest) = q[n + 1] /\ n < Len(q)
      <4>1. queue \in [Filesystems -> Seq(Execs)]
        BY DEF IInv, NowCore, Core, Types
      <4>2. q \in Seq(Execs)
        BY <4>1 DEF PassedOn, Core, Types
      <4>3. Len(q) \in Nat /\ n \in Nat
        BY <4>2, LenProperties
      <4>4. n < Len(q)
        BY <2>4, <4>2, <4>3, SubSeqEmpty
      <4> QED BY <4>2, <4>3, <4>4, HeadTailOfSubSeq
    <3>3. ~Passed(Head(rest))
      BY <2>1, <3>2 DEF Passes
    <3>4. Head(rest) \in Persistent =>
            session[SessionOf[Head(rest)]] \in Stale(passed \cup {Head(rest)})
      BY DEF Stale
    <3>5. ASSUME OneFilesystem, NEW d \in Stale(passed \cup {Head(rest)}) \cap Execs
          PROVE  d \in Persistent /\ FsOf[d] = f
      <4>1. PICK x \in (passed \cup {Head(rest)}) \cap Persistent : d = session[SessionOf[x]]
        BY <3>5 DEF Stale
      <4>2. PICK i \in 1..Len(q) : x = q[i]
        <5>1. Len(q) \in Nat
          <6>1. queue \in [Filesystems -> Seq(Execs)]
            BY DEF IInv, NowCore, Core, Types
          <6>2. q \in Seq(Execs)
            BY <6>1 DEF PassedOn, Core, Types
          <6> QED BY <6>2, LenProperties
        <5>2. x = q[n + 1] \/ \E i \in 1..n : x = q[i]
          BY <4>1, <3>2 DEF Tried
        <5> QED BY <5>1, <5>2, <3>2
      <4>3. FsOf[x] = f
        <5>1. [queue EXCEPT ![f] = q][f] = q
          BY DEF IInv, NowCore, Core, Types
        <5> QED BY <4>2, <5>1 DEF PassedOn, Core, Queued, Entry
      <4>4. SessionOf[x] \in Sessions /\ d # None
        BY <4>1, PyQueueAssumption DEF Persistent
      <4>5. SessionOf[d] = SessionOf[x]
        BY <4>1, <4>4 DEF IInv, NowCore, Core, Types
      <4>6. d \in Persistent
        BY <4>1, <4>5, <3>5 DEF Persistent
      <4> QED BY <3>5, <4>1, <4>3, <4>5, <4>6 DEF OneFilesystem
    <3>6. /\ NowCore' /\ Reports(thread', outbox') /\ NoneStartsAnswered
          /\ OneFilesystem => Spares
          /\ unspawnable' = unspawnable
          /\ queue' = [queue EXCEPT ![f] = Tail(rest)]
          /\ isExecuting' = [isExecuting EXCEPT ![f] = TRUE]
      <4> DEFINE stale == Stale(passed \cup {Head(rest)})
      <4>1. OneFilesystem => \A d \in stale \cap Execs : d \in Persistent /\ FsOf[d] = f
        BY <3>5
      <4> HIDE DEF rest, failed, told, passed, stale
      <4>2. /\ Starts(f, rest, failed, told, T, stale)
            /\ Head(rest) \in Persistent => session[SessionOf[Head(rest)]] \in stale
        BY <3>1, <3>4 DEF stale
      <4>3. /\ NowCore' /\ Reports(thread', outbox') /\ NoneStartsAnswered
            /\ (\A d \in stale \cap Execs : d \in Persistent /\ FsOf[d] = f) => Spares
            /\ unspawnable' = unspawnable
            /\ queue' = [queue EXCEPT ![f] = Tail(rest)]
            /\ isExecuting' = [isExecuting EXCEPT ![f] = TRUE]
        BY <2>2, <2>4, <3>3, <4>2, StartsKeeps
      <4> QED BY <4>1, <4>3
    <3>7. \A g \in Filesystems : Awake(g, queue', isExecuting', canceled', resuming')
      BY <3>6, AwakeOthers
    <3> QED BY <3>6, <3>7 DEF IInv
  <2> QED BY <2>3, <2>4
<1> QED BY <1>1, <1>2

-----------------------------------------------------------------------------
(***************************************************************************)
(* The handlers.                                                           *)
(***************************************************************************)

\* No call that had been answered starts in this step, and none that ends another one.
StartsRight ==
  /\ \A e \in Execs : (thread[e] = "none" /\ thread'[e] # "none") =>
       answer'[e] = "pending" \/ (e \in Persistent /\ bridge[e] = "rejected")
  /\ OneFilesystem => Spares

\* What the invariant says of the types, for the steps below.
LEMMA TypesNow ==
  ASSUME IInv
  PROVE  /\ queue \in [Filesystems -> Seq(Execs)] /\ isExecuting \in [Filesystems -> BOOLEAN]
         /\ session \in [Sessions -> Execs \cup {None}]
         /\ promise \in [Execs -> {"pending", "success", "error", "deadline"}]
         /\ thread \in [Execs -> Live \cup {"none", "dead"}]
         /\ \A e \in Execs : FsOf[e] \in Filesystems
         /\ Stopped({}) = thread
         /\ \A f \in Filesystems :
              /\ [queue EXCEPT ![f] = queue[f]] = queue
              /\ [isExecuting EXCEPT ![f] = isExecuting[f]] = isExecuting
              /\ \A i \in 1..Len(queue[f]) : queue[f][i] \in Execs
              /\ isExecuting[f] \in BOOLEAN
<1>1. /\ queue \in [Filesystems -> Seq(Execs)] /\ isExecuting \in [Filesystems -> BOOLEAN]
      /\ session \in [Sessions -> Execs \cup {None}]
      /\ promise \in [Execs -> {"pending", "success", "error", "deadline"}]
      /\ thread \in [Execs -> Live \cup {"none", "dead"}]
  BY DEF IInv, NowCore, Core, Types
<1>2. Stopped({}) = thread
  BY <1>1 DEF Stopped
<1> QED BY <1>1, <1>2, PyQueueAssumption, ElementOfSeq

LEMMA InitInv == Init => IInv
<1> SUFFICES ASSUME Init PROVE IInv
  OBVIOUS
<1>1. Types(queue, isExecuting, session, canceled, resolved, ref, terminateOnAttach, promise,
            answer, bridge, thread, resuming)
  BY EmptySeq DEF Init, Types
<1>2. Queued(queue, canceled, resolved, terminateOnAttach, promise, answer, bridge, thread)
  BY EmptySeq DEF Init, Queued
<1>3. Uncalled(resolved, ref, promise, answer, thread) /\ Settled(resolved, thread)
  BY DEF Init, Uncalled, Settled
<1>4. OneOpen(isExecuting, resolved, thread)
  BY DEF Init, OneOpen, Open
<1>5. Held(session, ref, answer, thread)
  BY DEF Init, Held, Live
<1>6. Reports(thread, outbox)
  BY EmptySeq DEF Init, Reports
<1>7. \A f \in Filesystems : Awake(f, queue, isExecuting, canceled, resuming)
  BY EmptySeq DEF Init, Awake
<1>8. unspawnable \subseteq Execs
  BY DEF Init
<1> QED BY <1>1, <1>2, <1>3, <1>4, <1>5, <1>6, <1>7, <1>8 DEF IInv, NowCore, Core

LEMMA ExecuteKeeps ==
  ASSUME IInv, NEW e \in Execs, ExecutePython(e) PROVE IInv' /\ StartsRight
<1> DEFINE f == FsOf[e]
           q == Append(queue[f], e)
           que == [queue EXCEPT ![f] = q]
<1>1. /\ answer[e] = "uncalled" /\ answer' = [answer EXCEPT ![e] = "pending"]
      /\ canceled' = canceled /\ terminateOnAttach' = terminateOnAttach
      /\ bridge' = bridge /\ resuming' = resuming
      /\ ProcessNext(f, q, isExecuting[f], promise, resolved, {})
  BY DEF ExecutePython
<1>2. /\ f \in Filesystems /\ queue \in [Filesystems -> Seq(Execs)]
      /\ isExecuting[f] \in BOOLEAN /\ [isExecuting EXCEPT ![f] = isExecuting[f]] = isExecuting
  BY TypesNow
<1>3. /\ q \in Seq(Execs) /\ Len(q) = Len(queue[f]) + 1 /\ Len(queue[f]) \in Nat
      /\ \A i \in 1..Len(queue[f]) : q[i] = queue[f][i]
      /\ q[Len(queue[f]) + 1] = e
  BY <1>2, AppendProperties, LenProperties
<1>4. /\ answer \in [Execs -> {"uncalled", "pending", "ok", "fail"}]
      /\ answer'[e] = "pending" /\ \A d \in Execs : d # e => answer'[d] = answer[d]
      /\ answer' \in [Execs -> {"uncalled", "pending", "ok", "fail"}]
  BY <1>1 DEF IInv, NowCore, Core, Types
<1>5. thread[e] = "none" /\ e \notin resolved /\ promise[e] = "pending"
  BY <1>1 DEF IInv, NowCore, Core, Uncalled
<1>6. ASSUME NEW g \in Filesystems, NEW i \in 1..Len(queue[g])
      PROVE  /\ Entry(queue[g][i], g, canceled, resolved, terminateOnAttach, promise, answer',
                       bridge, thread)
             /\ queue[g][i] \in Execs /\ queue[g][i] # e
  <2>1. /\ Entry(queue[g][i], g, canceled, resolved, terminateOnAttach, promise, answer,
                 bridge, thread)
        /\ queue[g][i] \in Execs
    BY TypesNow DEF IInv, NowCore, Core, Queued
  <2>2. queue[g][i] # e
    BY <2>1, <1>1 DEF Entry
  <2> QED BY <2>1, <2>2, <1>4 DEF Entry
<1>7. Queued(que, canceled, resolved, terminateOnAttach, promise, answer', bridge, thread)
  <2>1. SUFFICES ASSUME NEW g \in Filesystems
                 PROVE  /\ \A i \in 1..Len(que[g]) : Entry(que[g][i], g, canceled, resolved,
                                 terminateOnAttach, promise, answer', bridge, thread)
                        /\ \A i, j \in 1..Len(que[g]) : que[g][i] = que[g][j] => i = j
    BY DEF Queued
  <2>2. \A i, j \in 1..Len(queue[g]) : queue[g][i] = queue[g][j] => i = j
    BY DEF IInv, NowCore, Core, Queued
  <2>3. CASE g # f
    <3>1. que[g] = queue[g]
      BY <2>3, <1>2
    <3> QED BY <3>1, <2>2, <1>6
  <2>4. CASE g = f
    <3>1. que[g] = q
      BY <2>4, <1>2
    <3>2. Entry(e, f, canceled, resolved, terminateOnAttach, promise, answer', bridge, thread)
      BY <1>4, <1>5 DEF Entry
    <3>3. ASSUME NEW i \in 1..Len(q)
          PROVE  Entry(q[i], f, canceled, resolved, terminateOnAttach, promise, answer', bridge,
                       thread)
      <4>1. i \in 1..Len(queue[f]) \/ i = Len(queue[f]) + 1
        BY <1>3
      <4> QED BY <4>1, <3>2, <1>2, <1>3, <1>6
    <3>4. ASSUME NEW i \in 1..Len(q), NEW j \in 1..Len(q), q[i] = q[j] PROVE i = j
      <4>1. i \in 1..Len(queue[f]) \/ i = Len(queue[f]) + 1
        BY <1>3
      <4>2. j \in 1..Len(queue[f]) \/ j = Len(queue[f]) + 1
        BY <1>3
      <4> QED BY <4>1, <4>2, <3>4, <2>2, <2>4, <1>2, <1>3, <1>6
    <3> QED BY <3>1, <3>3, <3>4, <2>4
  <2> QED BY <2>3, <2>4
<1>8. Types(que, isExecuting, session, canceled, resolved, ref, terminateOnAttach, promise,
            answer', bridge, thread, resuming)
  BY <1>2, <1>3, <1>4 DEF IInv, NowCore, Core, Types
<1>9. Uncalled(resolved, ref, promise, answer', thread) /\ Held(session, ref, answer', thread)
  BY <1>4, <1>5 DEF IInv, NowCore, Core, Uncalled, Held, Live
<1> HIDE DEF q
<1>10. PassedOn(f, q, isExecuting[f], promise, resolved)
  BY <1>1, <1>2, <1>7, <1>8, <1>9 DEF IInv, NowCore, Core, PassedOn
<1>11. IInv' /\ NoneStartsAnswered /\ (OneFilesystem => Spares)
  <2> HIDE DEF f
  <2>1. \A x \in {} \cap Execs : outbox[x] # <<>>
    OBVIOUS
  <2>2. (\A x \in resuming : x \in resuming') /\ canceled \subseteq canceled'
    BY <1>1
  <2> QED BY <1>1, <1>2, <1>10, <2>1, <2>2, ProcessNextKeeps
<1> QED BY <1>1, <1>11 DEF NoneStartsAnswered, StartsRight

(***************************************************************************)
(* A handler that makes the result of e known and goes on with the queue.  *)
(***************************************************************************)
LEMMA ResultPassedOn ==
  ASSUME IInv, NEW e \in Execs, NEW result \in {"success", "error"}, NEW W,
         e \in Open(resolved, thread), e \in Persistent \cup W \/ thread[e] = "dead"
  PROVE  Core(queue, [isExecuting EXCEPT ![FsOf[e]] = FALSE], session, canceled,
              resolved \cup {e}, ref, terminateOnAttach, Resolved(promise, {e}, result), answer,
              bridge, Stopped(W), resuming)
<1> DEFINE f == FsOf[e]
           exe == [isExecuting EXCEPT ![f] = FALSE]
           p == Resolved(promise, {e}, result)
           done == resolved \cup {e}
           thr == Stopped(W)
<1>1. /\ f \in Filesystems /\ isExecuting \in [Filesystems -> BOOLEAN]
      /\ \A d \in Execs : FsOf[d] \in Filesystems
  BY TypesNow
<1>2. /\ p \in [Execs -> {"pending", "success", "error", "deadline"}]
      /\ \A d \in Execs : d # e => p[d] = promise[d]
  <2>1. promise \in [Execs -> {"pending", "success", "error", "deadline"}]
    BY TypesNow
  <2> QED BY <2>1, ResolvedKeeps
<1>3. thr[e] # "none" /\ e \notin resolved
      /\ (e \notin Persistent => thr[e] \notin {"running", "exited"})
  BY TypesNow, StoppedKeeps DEF Open, Live
<1>4. Core(queue, isExecuting, session, canceled, resolved, ref, terminateOnAttach, promise,
           answer, bridge, thr, resuming)
  BY StopCore DEF IInv, NowCore
<1> HIDE DEF p, thr
<1>5. Types(queue, exe, session, canceled, done, ref, terminateOnAttach, p, answer, bridge,
            thr, resuming)
  BY <1>1, <1>2, <1>4 DEF Core, Types
<1>6. Queued(queue, canceled, done, terminateOnAttach, p, answer, bridge, thr)
  <2>1. ASSUME NEW g \in Filesystems, NEW i \in 1..Len(queue[g])
        PROVE  Entry(queue[g][i], g, canceled, done, terminateOnAttach, p, answer, bridge, thr)
    <3>1. queue[g][i] \in Execs
      BY TypesNow
    <3>2. Entry(queue[g][i], g, canceled, resolved, terminateOnAttach, promise, answer, bridge,
                thr)
      BY <1>4 DEF Core, Queued
    <3> QED BY <3>1, <3>2, <1>2, <1>3 DEF Entry
  <2> QED BY <2>1, <1>4 DEF Core, Queued
<1>7. Uncalled(done, ref, p, answer, thr)
  BY <1>2, <1>3, <1>4 DEF Core, Uncalled
<1>8. OneOpen(exe, done, thr)
  <2>1. \A d \in Open(done, thr) : d \in Open(resolved, thr) /\ d # e
    BY DEF Open
  <2>2. e \in Open(resolved, thr)
    BY <1>3 DEF Open
  <2>3. \A d \in Open(done, thr) : FsOf[d] # f
    BY <2>1, <2>2, <1>4 DEF Core, OneOpen
  <2>4. \A d \in Open(done, thr) : exe[FsOf[d]] = isExecuting[FsOf[d]]
    BY <1>1, <2>3 DEF Open
  <2> QED BY <2>1, <2>4, <1>4 DEF Core, OneOpen
<1>9. Settled(done, thr)
  BY <1>3, <1>4 DEF Core, Settled
<1>10. Held(session, ref, answer, thr)
  BY <1>4 DEF Core
<1> QED BY <1>5, <1>6, <1>7, <1>8, <1>9, <1>10 DEF Core, p, thr

LEMMA GoesOnKeeps ==
  ASSUME IInv, NEW e \in Execs, NEW result \in {"success", "error"},
         e \in Open(resolved, thread), e \in Persistent \/ thread[e] = "dead",
         outbox[e] # <<>>, UNCHANGED <<canceled, terminateOnAttach, answer, bridge, resuming>>,
         GoesOn(e, result)
  PROVE  IInv' /\ StartsRight
<1> DEFINE f == FsOf[e]
           p == Resolved(promise, {e}, result)
           done == resolved \cup {e}
<1>1. /\ f \in Filesystems /\ [queue EXCEPT ![f] = queue[f]] = queue
  BY TypesNow
<1>2. PassedOn(f, queue[f], FALSE, p, done)
  <2>1. Core(queue, [isExecuting EXCEPT ![f] = FALSE], session, canceled, done, ref,
             terminateOnAttach, p, answer, bridge, Stopped({}), resuming)
    BY ResultPassedOn
  <2>2. Stopped({}) = thread
    BY TypesNow
  <2> QED BY <1>1, <2>1, <2>2 DEF PassedOn
<1>3. ProcessNext(f, queue[f], FALSE, p, done, {e})
  BY DEF GoesOn
<1>4. IInv' /\ NoneStartsAnswered /\ (OneFilesystem => Spares)
  <2> HIDE DEF f, p, done
  <2>1. PICK busy \in BOOLEAN : busy = FALSE
    OBVIOUS
  <2>2. PassedOn(f, queue[f], busy, p, done) /\ ProcessNext(f, queue[f], busy, p, done, {e})
    BY <1>2, <1>3, <2>1
  <2>3. \A x \in {e} \cap Execs : outbox[x] # <<>>
    OBVIOUS
  <2>4. (\A x \in resuming : x \in resuming') /\ canceled \subseteq canceled'
    OBVIOUS
  <2> QED BY <1>1, <2>2, <2>3, <2>4, ProcessNextKeeps
<1> QED BY <1>4 DEF NoneStartsAnswered, StartsRight

\* A handler that makes the result of e known and waits for the end of its worker.
LEMMA SettlesKeeps ==
  ASSUME IInv, NEW e \in Execs, NEW result \in {"success", "error"},
         e \in Open(resolved, thread), outbox[e] # <<>>, Settles(e, result)
  PROVE  IInv' /\ StartsRight
<1> DEFINE f == FsOf[e]
           exe == [isExecuting EXCEPT ![f] = FALSE]
           p == Resolved(promise, {e}, result)
           done == resolved \cup {e}
<1>1. /\ unspawnable' = unspawnable /\ queue' = queue /\ session' = session
      /\ canceled' = canceled /\ ref' = ref /\ terminateOnAttach' = terminateOnAttach
      /\ answer' = answer /\ bridge' = bridge /\ resolved' = done /\ promise' = p
      /\ isExecuting' = exe /\ thread' = Stopped({e}) /\ outbox' = Events({e}, {e})
      /\ resuming' = resuming \cup {e}
  BY DEF Settles
<1>2. NowCore'
  <2>1. Core(queue, exe, session, canceled, done, ref, terminateOnAttach, p, answer, bridge,
             Stopped({e}), resuming)
    <3>1. e \in Persistent \cup {e}
      OBVIOUS
    <3> QED BY <3>1, ResultPassedOn
  <2>2. Core(queue, exe, session, canceled, done, ref, terminateOnAttach, p, answer, bridge,
             Stopped({e}), resuming \cup {e})
    BY <2>1 DEF Core, Types
  <2> QED BY <1>1, <2>2 DEF NowCore
<1>3. thread \in [Execs -> Live \cup {"none", "dead"}] /\ Reports(thread, outbox)
  BY TypesNow DEF IInv
<1>4. Reports(thread', outbox')
  <2>1. \A x \in {e} \cap Execs : outbox[x] # <<>>
    OBVIOUS
  <2> QED BY <1>1, <1>3, <2>1, EventsKeep
<1>5. ASSUME NEW g \in Filesystems PROVE Awake(g, queue', isExecuting', canceled', resuming')
  <2>1. CASE g = f
    BY <2>1, <1>1 DEF Awake
  <2>2. CASE g # f
    <3>1. exe[g] = isExecuting[g]
      BY <2>2, TypesNow
    <3> QED BY <3>1, <1>1 DEF IInv, Awake
  <2> QED BY <2>1, <2>2
<1>6. StartsRight
  BY <1>1, <1>3, StoppedKeeps DEF StartsRight, Spares
<1> QED BY <1>1, <1>2, <1>4, <1>5, <1>6 DEF IInv

LEMMA OnTimeoutKeeps ==
  ASSUME IInv, NEW e \in Execs, OnTimeout(e) PROVE IInv' /\ StartsRight
<1> DEFINE W == ref \cap {e}
           thr == Stopped(W)
<1>1. /\ answer[e] # "uncalled" /\ canceled' = canceled \cup ({e} \ ref)
      /\ promise' = [promise EXCEPT ![e] = "deadline"]
      /\ thread' = thr /\ outbox' = Events({}, W)
      /\ unspawnable' = unspawnable /\ queue' = queue /\ isExecuting' = isExecuting
      /\ session' = session /\ resolved' = resolved /\ ref' = ref
      /\ terminateOnAttach' = terminateOnAttach /\ answer' = answer /\ bridge' = bridge
      /\ resuming' = resuming
  BY DEF OnTimeout, queueVars
<1>2. Core(queue, isExecuting, session, canceled, resolved, ref, terminateOnAttach, promise,
           answer, bridge, thr, resuming)
  BY StopCore DEF IInv, NowCore
<1>3. thread \in [Execs -> Live \cup {"none", "dead"}] /\ Reports(thread, outbox)
  BY TypesNow DEF IInv
<1>4. Reports(thread', outbox')
  <2>1. \A x \in {} \cap Execs : outbox[x] # <<>>
    OBVIOUS
  <2> QED BY <1>1, <1>3, <2>1, EventsKeep
<1>5. StartsRight
  BY <1>1, <1>3, StoppedKeeps DEF StartsRight, Spares
<1> HIDE DEF thr, W
<1>6. Types(queue, isExecuting, session, canceled', resolved, ref, terminateOnAttach, promise',
            answer, bridge, thr, resuming)
  BY <1>1, <1>2 DEF Core, Types
<1>7. Queued(queue, canceled', resolved, terminateOnAttach, promise', answer, bridge, thr)
  <2>1. ASSUME NEW g \in Filesystems, NEW i \in 1..Len(queue[g])
        PROVE  Entry(queue[g][i], g, canceled', resolved, terminateOnAttach, promise', answer,
                     bridge, thr)
    <3>1. queue[g][i] \in Execs /\ promise \in [Execs -> {"pending", "success", "error", "deadline"}]
      BY TypesNow
    <3>2. Entry(queue[g][i], g, canceled, resolved, terminateOnAttach, promise, answer, bridge,
                thr)
      BY <1>2 DEF Core, Queued
    <3>3. queue[g][i] \notin ref
      BY <3>1, <3>2, <1>2 DEF Core, Uncalled, Entry
    <3> QED BY <3>1, <3>2, <3>3, <1>1 DEF Entry, Abandoned
  <2> QED BY <2>1, <1>2 DEF Core, Queued
<1>8. Uncalled(resolved, ref, promise', answer, thr)
  BY <1>1, <1>2 DEF Core, Uncalled, Types
<1>9. NowCore'
  <2>1. Core(queue, isExecuting, session, canceled', resolved, ref, terminateOnAttach, promise',
             answer, bridge, thr, resuming)
    BY <1>2, <1>6, <1>7, <1>8 DEF Core
  <2> QED BY <1>1, <2>1 DEF NowCore
<1>10. \A f \in Filesystems : Awake(f, queue', isExecuting', canceled', resuming')
  BY <1>1 DEF IInv, Awake
<1> QED BY <1>1, <1>4, <1>5, <1>9, <1>10 DEF IInv

\* Events that change nothing.
LEMMA TakenKeeps ==
  ASSUME IInv, NEW e \in Execs, outbox[e] # <<>>, Taken(e),
         UNCHANGED <<queueVars, callVars, bridge, thread, resuming>>
  PROVE  IInv' /\ StartsRight
<1>1. /\ outbox' = Events({e}, {}) /\ thread' = thread /\ thread = Stopped({})
  BY TypesNow DEF Taken
<1>2. Reports(thread', outbox')
  <2>1. \A x \in {e} \cap Execs : outbox[x] # <<>>
    OBVIOUS
  <2>2. Reports(Stopped({}), Events({e}, {}))
    BY <2>1, TypesNow, EventsKeep DEF IInv
  <2> QED BY <1>1, <2>2
<1>3. NowCore'
  BY DEF IInv, NowCore, queueVars, callVars
<1> QED BY <1>1, <1>2, <1>3 DEF IInv, queueVars, callVars, StartsRight, Spares

LEMMA ResumeKeeps ==
  ASSUME IInv, NEW e \in Execs, Resume(e) PROVE IInv' /\ StartsRight
<1> DEFINE f == FsOf[e]
<1>1. /\ resuming' = resuming \ {e} /\ canceled' = canceled
      /\ terminateOnAttach' = terminateOnAttach /\ answer' = answer /\ bridge' = bridge
      /\ ProcessNext(f, queue[f], isExecuting[f], promise, resolved, {})
  BY DEF Resume
<1>2. /\ f \in Filesystems /\ isExecuting[f] \in BOOLEAN
      /\ [queue EXCEPT ![f] = queue[f]] = queue
      /\ [isExecuting EXCEPT ![f] = isExecuting[f]] = isExecuting
  BY TypesNow
<1>3. PassedOn(f, queue[f], isExecuting[f], promise, resolved)
  <2>1. Core(queue, isExecuting, session, canceled, resolved, ref, terminateOnAttach, promise,
             answer, bridge, thread, resuming \ {e})
    BY DEF IInv, NowCore, Core, Types
  <2> QED BY <1>1, <1>2, <2>1 DEF PassedOn
<1>4. \A x \in resuming : x \in resuming' \/ FsOf[x] = f
  BY <1>1
<1>5. IInv' /\ NoneStartsAnswered /\ (OneFilesystem => Spares)
  <2> HIDE DEF f
  <2>1. \A x \in {} \cap Execs : outbox[x] # <<>>
    OBVIOUS
  <2> QED BY <1>1, <1>2, <1>3, <1>4, <2>1, ProcessNextKeeps
<1> QED BY <1>1, <1>5 DEF NoneStartsAnswered, StartsRight

\* The events of a worker: it was started, and if it exits it is dead.
LEMMA EventOpen ==
  ASSUME IInv, NEW e \in Execs, NEW names, Event(e, names)
  PROVE  /\ outbox[e] # <<>> /\ thread[e] # "none"
         /\ e \notin resolved => e \in Open(resolved, thread)
         /\ "exit" \notin names \/ Head(outbox[e]) # "exit" \/ thread[e] = "dead"
<1>1. outbox[e] # <<>> /\ outbox[e] \in Seq(Names) /\ thread[e] # "none"
  BY DEF Event, IInv, Reports
<1>2. Head(outbox[e]) = outbox[e][1] /\ 1 \in 1..Len(outbox[e])
  BY <1>1, HeadTailProperties, EmptySeq
<1> QED BY <1>1, <1>2 DEF IInv, Reports, Open

LEMMA HandleKeeps ==
  ASSUME IInv, NEW e \in Execs, Handle(e) PROVE IInv' /\ StartsRight
<1>1. CASE OnMessage(e)
  <2>1. /\ outbox[e] # <<>> /\ e \in Open(resolved, thread)
    BY <1>1, EventOpen DEF OnMessage
  <2>2. Result(Head(outbox[e])) \in {"success", "error"}
    BY <1>1 DEF OnMessage, Event, Result
  <2>3. CASE e \in Persistent
    <3>1. UNCHANGED <<canceled, terminateOnAttach, answer, bridge, resuming>>
          /\ GoesOn(e, Result(Head(outbox[e])))
      BY <1>1, <2>3 DEF OnMessage
    <3> QED BY <2>1, <2>2, <2>3, <3>1, GoesOnKeeps
  <2>4. CASE e \notin Persistent
    <3>1. Settles(e, Result(Head(outbox[e])))
      BY <1>1, <2>4 DEF OnMessage
    <3> QED BY <2>1, <2>2, <3>1, SettlesKeeps
  <2> QED BY <2>3, <2>4
<1>2. CASE OnError(e)
  <2>1. /\ outbox[e] # <<>> /\ e \in Open(resolved, thread) /\ Settles(e, "error")
    BY <1>2, EventOpen DEF OnError
  <2> QED BY <2>1, SettlesKeeps
<1>3. CASE OnExit(e)
  <2>1. outbox[e] # <<>> /\ thread[e] = "dead" /\ (e \notin resolved => e \in Open(resolved, thread))
    <3>1. Event(e, {"exit"}) /\ Head(outbox[e]) = "exit"
      BY <1>3 DEF OnExit, Event
    <3>2. "exit" \in {"exit"}
      OBVIOUS
    <3> QED BY <3>1, <3>2, EventOpen
  <2>2. CASE isExecuting[FsOf[e]] /\ e \notin resolved
    <3>1. UNCHANGED <<canceled, terminateOnAttach, answer, bridge, resuming>>
          /\ GoesOn(e, "error")
      BY <1>3, <2>2 DEF OnExit
    <3> QED BY <2>1, <2>2, <3>1, GoesOnKeeps
  <2>3. CASE ~(isExecuting[FsOf[e]] /\ e \notin resolved)
    <3>1. Taken(e) /\ UNCHANGED <<queueVars, callVars, bridge, thread, resuming>>
      BY <1>3, <2>3 DEF OnExit, callVars
    <3> QED BY <2>1, <3>1, TakenKeeps
  <2> QED BY <2>2, <2>3
<1>4. CASE Ignore(e)
  <2>1. outbox[e] # <<>> /\ Taken(e) /\ UNCHANGED <<queueVars, callVars, bridge, thread, resuming>>
    BY <1>4 DEF Ignore, Event
  <2> QED BY <2>1, TakenKeeps
<1>5. CASE Resume(e)
  BY <1>5, ResumeKeeps
<1> QED BY <1>1, <1>2, <1>3, <1>4, <1>5 DEF Handle

-----------------------------------------------------------------------------
(***************************************************************************)
(* The end of a call, its bridge, closeSession and the workers.            *)
(***************************************************************************)
LEMMA ReturnKeeps ==
  ASSUME IInv, NEW e \in Execs, Return(e) PROVE IInv' /\ StartsRight
<1> DEFINE W == IF e \in Persistent THEN {} ELSE ref \cap {e}
           thr == Stopped(W)
<1>1. /\ answer[e] = "pending" /\ answer' = [answer EXCEPT ![e] = Outcome(e)]
      /\ \/ promise[e] = "success" \/ promise[e] = "error"
         \/ promise[e] = "deadline" /\ (Over(e) \/ e \in canceled)
         \/ bridge[e] = "rejected"
      /\ unspawnable' = unspawnable /\ queue' = queue /\ isExecuting' = isExecuting
      /\ session' = session /\ canceled' = canceled /\ resolved' = resolved
      /\ promise' = promise /\ bridge' = bridge /\ resuming' = resuming
  BY DEF Return, queueVars
<1>2. thread \in [Execs -> Live \cup {"none", "dead"}] /\ Reports(thread, outbox)
  BY TypesNow DEF IInv
<1>3. /\ thread' = thr
      /\ ref' = (IF e \in Persistent THEN ref ELSE ref \ {e})
      /\ terminateOnAttach' = (IF e \in Persistent THEN terminateOnAttach
                                 ELSE terminateOnAttach \cup ({e} \ ref))
  BY TypesNow DEF Return, TearDown
<1>4. Reports(thread', outbox')
  <2>1. CASE e \in Persistent
    BY <2>1, <1>2 DEF Return, TearDown
  <2>2. CASE e \notin Persistent
    <3>1. \A x \in {} \cap Execs : outbox[x] # <<>>
      OBVIOUS
    <3>2. thread' = Stopped(ref \cap {e}) /\ outbox' = Events({}, ref \cap {e})
      BY <2>2 DEF Return, TearDown
    <3> QED BY <1>2, <3>1, <3>2, EventsKeep
  <2> QED BY <2>1, <2>2
<1>5. Core(queue, isExecuting, session, canceled, resolved, ref, terminateOnAttach, promise,
           answer, bridge, thr, resuming)
  BY StopCore DEF IInv, NowCore
<1>6. \A d \in Execs : thr[d] = "none" <=> thread[d] = "none"
  BY <1>2, StoppedKeeps
<1>7. e \in ref /\ e \notin Persistent => thr[e] \notin Live
  BY <1>2, StoppedKeeps
<1> HIDE DEF W, thr
<1>8. Types(queue, isExecuting, session, canceled, resolved, ref', terminateOnAttach', promise,
            answer', bridge, thr, resuming)
  <2>1. Outcome(e) \in {"uncalled", "pending", "ok", "fail"}
    BY DEF Outcome
  <2> QED BY <2>1, <1>1, <1>3, <1>5 DEF Core, Types
<1>9. Queued(queue, canceled, resolved, terminateOnAttach', promise, answer', bridge, thr)
  <2>1. ASSUME NEW g \in Filesystems, NEW i \in 1..Len(queue[g])
        PROVE  Entry(queue[g][i], g, canceled, resolved, terminateOnAttach', promise, answer',
                     bridge, thr)
    <3> DEFINE x == queue[g][i]
    <3>1. x \in Execs
      BY TypesNow
    <3>2. Entry(x, g, canceled, resolved, terminateOnAttach, promise, answer, bridge, thr)
      BY <1>5 DEF Core, Queued
    <3> HIDE DEF x
    <3>3. CASE x # e
      <4>1. answer'[x] = answer[x]
        BY <3>1, <3>3, <1>1, <1>5 DEF Core, Types
      <4>2. Abandoned(x, canceled, terminateOnAttach, bridge)
              => Abandoned(x, canceled, terminateOnAttach', bridge)
        BY <1>3 DEF Abandoned
      <4>3. Entry(x, g, canceled, resolved, terminateOnAttach', promise, answer', bridge, thr)
        BY <3>2, <4>1, <4>2 DEF Entry
      <4> QED BY <4>3 DEF x
    <3>4. CASE x = e
      <4>1. e \notin ref /\ promise[e] \in {"pending", "deadline"}
            /\ (promise[e] = "deadline" => e \in canceled)
        BY <3>2, <3>4, <1>5 DEF Core, Uncalled, Entry
      <4>2. e \in canceled \/ bridge[e] = "rejected"
        BY <4>1, <1>1
      <4>3. Abandoned(e, canceled, terminateOnAttach', bridge)
        BY <4>1, <4>2, <1>3 DEF Abandoned
      <4>4. answer'[e] # "uncalled"
        BY <1>1, <1>5 DEF Core, Types, Outcome
      <4>5. Entry(e, g, canceled, resolved, terminateOnAttach, promise, answer, bridge, thr)
        BY <3>2, <3>4
      <4>6. Entry(e, g, canceled, resolved, terminateOnAttach', promise, answer', bridge, thr)
        BY <4>3, <4>4, <4>5 DEF Entry
      <4> QED BY <3>4, <4>6 DEF x
    <3> QED BY <3>3, <3>4 DEF x
  <2> QED BY <2>1, <1>5 DEF Core, Queued
<1>10. Uncalled(resolved, ref', promise, answer', thr)
  <2>1. ASSUME NEW d \in Execs, answer'[d] = "uncalled" PROVE answer[d] = "uncalled"
    BY <2>1, <1>1, <1>5 DEF Core, Types, Outcome
  <2> QED BY <2>1, <1>3, <1>5 DEF Core, Uncalled
<1>11. Held(session, ref', answer', thr)
  <2>1. e \notin Persistent => thr[e] \notin Live
    BY <1>5, <1>7 DEF Core, Held
  <2>2. \A d \in Execs : d # e => answer'[d] = answer[d] /\ (d \in ref => d \in ref')
    BY <1>1, <1>3, <1>5 DEF Core, Types
  <2> QED BY <2>1, <2>2, <1>5 DEF Core, Held
<1>12. NowCore'
  <2>1. Core(queue, isExecuting, session, canceled, resolved, ref', terminateOnAttach', promise,
             answer', bridge, thr, resuming)
    BY <1>5, <1>8, <1>9, <1>10, <1>11 DEF Core
  <2> QED BY <2>1, <1>1, <1>3 DEF NowCore
<1>13. StartsRight
  BY <1>3, <1>6 DEF StartsRight, Spares
<1> QED BY <1>1, <1>4, <1>12, <1>13 DEF IInv, Awake

LEMMA BridgeEndsKeeps ==
  ASSUME IInv, NEW e \in Execs, NEW with \in {"timeout", "rejected"}, BridgeEnds(e, with)
  PROVE  IInv' /\ StartsRight
<1>1. /\ bridge[e] = "running" /\ bridge' = [bridge EXCEPT ![e] = with]
      /\ UNCHANGED <<queueVars, callVars, thread, outbox, resuming>>
  BY DEF BridgeEnds
<1>2. Core(queue, isExecuting, session, canceled, resolved, ref, terminateOnAttach, promise,
           answer, bridge', thread, resuming)
  <2>1. bridge' \in [Execs -> {"running", "exit0", "exit1", "timeout", "rejected"}]
        /\ \A d \in Execs : bridge[d] = "rejected" => bridge'[d] = "rejected"
    BY <1>1 DEF IInv, NowCore, Core, Types
  <2>2. ASSUME NEW g \in Filesystems, NEW i \in 1..Len(queue[g])
        PROVE  Entry(queue[g][i], g, canceled, resolved, terminateOnAttach, promise, answer,
                     bridge', thread)
    <3>1. Entry(queue[g][i], g, canceled, resolved, terminateOnAttach, promise, answer, bridge,
                thread) /\ queue[g][i] \in Execs
      BY TypesNow DEF IInv, NowCore, Core, Queued
    <3> QED BY <3>1, <2>1 DEF Entry, Abandoned
  <2> QED BY <2>1, <2>2 DEF IInv, NowCore, Core, Types, Queued
<1> QED BY <1>1, <1>2 DEF IInv, NowCore, queueVars, callVars, StartsRight, Spares

LEMMA CloseSessionKeeps ==
  ASSUME IInv, NEW s \in Sessions, CloseSession(s) PROVE IInv' /\ StartsRight
<1> DEFINE W == {session[s]}
           thr == Stopped(W)
<1>1. /\ session' = [session EXCEPT ![s] = None]
      /\ thread' = thr /\ outbox' = Events({}, W)
      /\ UNCHANGED <<unspawnable, queue, isExecuting, callVars, bridge, resuming>>
  BY DEF CloseSession
<1>2. thread \in [Execs -> Live \cup {"none", "dead"}] /\ Reports(thread, outbox)
  BY TypesNow DEF IInv
<1>3. Reports(thread', outbox')
  <2>1. \A x \in {} \cap Execs : outbox[x] # <<>>
    OBVIOUS
  <2> QED BY <1>1, <1>2, <2>1, EventsKeep
<1>4. Core(queue, isExecuting, session, canceled, resolved, ref, terminateOnAttach, promise,
           answer, bridge, thr, resuming)
  BY StopCore DEF IInv, NowCore
<1>5. \A d \in Execs : (thr[d] = "none" <=> thread[d] = "none") /\ (thr[d] \in Live => d # session[s])
  BY <1>2, StoppedKeeps
<1> HIDE DEF W, thr
<1>6. Held(session', ref, answer, thr)
  <2>1. SUFFICES ASSUME NEW d \in Execs, thr[d] \in Live
                 PROVE  IF d \in Persistent THEN session'[SessionOf[d]] = d
                                            ELSE d \in ref /\ answer[d] = "pending"
    BY DEF Held
  <2>2. CASE d \in Persistent
    <3>1. session[SessionOf[d]] = d /\ SessionOf[d] # s
      BY <2>1, <2>2, <1>4, <1>5 DEF Core, Held
    <3>2. SessionOf[d] \in Sessions
      BY <2>2, PyQueueAssumption DEF Persistent
    <3> QED BY <2>2, <3>1, <3>2, <1>1, <1>4 DEF Core, Types
  <2>3. CASE d \notin Persistent
    BY <2>1, <2>3, <1>4 DEF Core, Held
  <2> QED BY <2>2, <2>3
<1>7. NowCore'
  <2>1. Core(queue, isExecuting, session', canceled, resolved, ref, terminateOnAttach, promise,
             answer, bridge, thr, resuming)
    BY <1>1, <1>4, <1>6 DEF Core, Types
  <2> QED BY <1>1, <2>1 DEF NowCore, callVars
<1>8. StartsRight
  BY <1>1, <1>5 DEF StartsRight, Spares
<1> QED BY <1>1, <1>3, <1>7, <1>8 DEF IInv, callVars

\* A worker thread that was started goes on or ends; it reports its exit when it is dead.
LEMMA BecomesKeeps ==
  ASSUME IInv, NEW e \in Execs, NEW state \in Live \cup {"dead"}, NEW events \in Seq(Names),
         thread[e] \in Live,
         state \in {"running", "exited"} => thread[e] \in {"running", "exited"},
         state # "dead" => \A i \in 1..Len(events) : events[i] # "exit",
         bridge' \in [Execs -> {"running", "exit0", "exit1", "timeout", "rejected"}],
         \A d \in Execs : bridge[d] = "rejected" => bridge'[d] = "rejected",
         Becomes(e, state, events)
  PROVE  IInv' /\ StartsRight
<1> DEFINE out == outbox[e] \o events
<1>1. /\ thread' = [thread EXCEPT ![e] = state] /\ outbox' = [outbox EXCEPT ![e] = out]
      /\ UNCHANGED <<queueVars, callVars, resuming>>
  BY DEF Becomes
<1>2. /\ thread \in [Execs -> Live \cup {"none", "dead"}] /\ Reports(thread, outbox)
      /\ thread[e] # "none" /\ state # "none" /\ thread[e] # "dead"
  BY TypesNow DEF IInv, Live
<1>3. /\ thread' \in [Execs -> Live \cup {"none", "dead"}] /\ thread'[e] = state
      /\ \A d \in Execs : d # e => thread'[d] = thread[d]
      /\ \A d \in Execs : thread'[d] = "none" <=> thread[d] = "none"
  BY <1>1, <1>2
<1>4. outbox[e] \in Seq(Names) /\ Len(outbox[e]) \in Nat /\ Len(events) \in Nat
  BY <1>2, LenProperties DEF Reports
<1>5. /\ out \in Seq(Names) /\ Len(out) = Len(outbox[e]) + Len(events)
      /\ \A i \in 1..Len(outbox[e]) + Len(events) :
           out[i] = IF i <= Len(outbox[e]) THEN outbox[e][i] ELSE events[i - Len(outbox[e])]
  BY <1>4, ConcatProperties
<1> HIDE DEF out
<1>6. ASSUME NEW i \in 1..Len(out), out[i] = "exit" PROVE state = "dead"
  <2>1. CASE i <= Len(outbox[e])
    <3>1. i \in 1..Len(outbox[e]) /\ outbox[e][i] = "exit"
      BY <2>1, <1>4, <1>5, <1>6
    <3> QED BY <3>1, <1>2 DEF Reports
  <2>2. CASE ~(i <= Len(outbox[e]))
    <3>1. i - Len(outbox[e]) \in 1..Len(events) /\ events[i - Len(outbox[e])] = "exit"
      BY <2>2, <1>4, <1>5, <1>6
    <3> QED BY <3>1
  <2> QED BY <2>1, <2>2
<1>7. Reports(thread', outbox')
  <2>1. outbox' \in [Execs -> Seq(Names)] /\ outbox'[e] = out
        /\ \A d \in Execs : d # e => outbox'[d] = outbox[d]
    BY <1>1, <1>2, <1>5 DEF Reports
  <2>2. ASSUME NEW d \in Execs, thread'[d] = "none" PROVE outbox'[d] = <<>>
    <3>1. d # e /\ thread[d] = "none"
      BY <2>2, <1>2, <1>3
    <3> QED BY <3>1, <2>1, <1>2 DEF Reports
  <2>3. ASSUME NEW d \in Execs, NEW i \in 1..Len(outbox'[d]), outbox'[d][i] = "exit"
        PROVE  thread'[d] = "dead"
    <3>1. CASE d = e
      BY <3>1, <2>1, <2>3, <1>3, <1>6
    <3>2. CASE d # e
      BY <3>2, <2>1, <2>3, <1>2, <1>3 DEF Reports
    <3> QED BY <3>1, <3>2
  <2> QED BY <2>1, <2>2, <2>3 DEF Reports
<1>8. Core(queue, isExecuting, session, canceled, resolved, ref, terminateOnAttach, promise,
           answer, bridge', thread', resuming)
  <2>1. Types(queue, isExecuting, session, canceled, resolved, ref, terminateOnAttach, promise,
              answer, bridge', thread', resuming)
    BY <1>3 DEF IInv, NowCore, Core, Types
  <2>2. ASSUME NEW g \in Filesystems, NEW i \in 1..Len(queue[g])
        PROVE  Entry(queue[g][i], g, canceled, resolved, terminateOnAttach, promise, answer,
                     bridge', thread')
    <3>1. Entry(queue[g][i], g, canceled, resolved, terminateOnAttach, promise, answer, bridge,
                thread) /\ queue[g][i] \in Execs
      BY TypesNow DEF IInv, NowCore, Core, Queued
    <3> QED BY <3>1, <1>3 DEF Entry, Abandoned
  <2>3. Queued(queue, canceled, resolved, terminateOnAttach, promise, answer, bridge', thread')
    BY <2>2 DEF IInv, NowCore, Core, Queued
  <2>4. Uncalled(resolved, ref, promise, answer, thread')
    BY <1>3 DEF IInv, NowCore, Core, Uncalled
  <2>5. OneOpen(isExecuting, resolved, thread')
    BY <1>3 DEF IInv, NowCore, Core, OneOpen, Open
  <2>6. Settled(resolved, thread')
    BY <1>3 DEF IInv, NowCore, Core, Settled, Types
  <2>7. Held(session, ref, answer, thread')
    BY <1>3 DEF IInv, NowCore, Core, Held
  <2> QED BY <2>1, <2>3, <2>4, <2>5, <2>6, <2>7 DEF Core
<1>9. StartsRight
  BY <1>3 DEF StartsRight, Spares
<1> QED BY <1>1, <1>7, <1>8, <1>9 DEF IInv, NowCore, queueVars, callVars

LEMMA WorkerStepKeeps ==
  ASSUME IInv, NEW e \in Execs, WorkerStep(e) PROVE IInv' /\ StartsRight
<1>1. bridge \in [Execs -> {"running", "exit0", "exit1", "timeout", "rejected"}]
  BY DEF IInv, NowCore, Core, Types
<1>2. /\ <<>> \in Seq(Names) /\ <<"success">> \in Seq(Names) /\ <<"failure">> \in Seq(Names)
      /\ <<"exit">> \in Seq(Names) /\ <<"error", "exit">> \in Seq(Names)
      /\ Len(<<>>) = 0
  BY EmptySeq DEF Names
<1>3. ASSUME NEW code \in {"exit0", "exit1"}, ProgramExits(e, code)
      PROVE  IInv' /\ StartsRight
  <2>1. /\ thread[e] = "running" /\ bridge[e] = "running"
        /\ bridge' = [bridge EXCEPT ![e] = code] /\ Becomes(e, "exited", <<>>)
    BY <1>3 DEF ProgramExits
  <2>2. /\ bridge' \in [Execs -> {"running", "exit0", "exit1", "timeout", "rejected"}]
        /\ \A d \in Execs : bridge[d] = "rejected" => bridge'[d] = "rejected"
    BY <1>1, <2>1
  <2>3. "exited" \in Live \cup {"dead"} /\ thread[e] \in Live
        /\ \A i \in 1..Len(<<>>) : <<>>[i] # "exit"
    BY <1>2, <2>1 DEF Live
  <2> QED BY <1>2, <2>1, <2>2, <2>3, BecomesKeeps
<1>4. ASSUME UNCHANGED bridge, NEW state \in {"running", "posted"},
             NEW event \in {"success", "failure"}, thread[e] \in Live,
             state = "running" => thread[e] = "running", Becomes(e, state, <<event>>)
      PROVE  IInv' /\ StartsRight
  <2>1. /\ <<event>> \in Seq(Names) /\ Len(<<event>>) = 1 /\ <<event>>[1] = event
    BY <1>4, <1>2
  <2>2. \A i \in 1..Len(<<event>>) : <<event>>[i] # "exit"
    BY <1>4, <2>1
  <2>3. state \in Live \cup {"dead"}
    BY <1>4 DEF Live
  <2>4. state \in {"running", "exited"} => thread[e] \in {"running", "exited"}
    BY <1>4
  <2>5. bridge' \in [Execs -> {"running", "exit0", "exit1", "timeout", "rejected"}]
        /\ \A d \in Execs : bridge[d] = "rejected" => bridge'[d] = "rejected"
    BY <1>1, <1>4
  <2> QED BY <2>1, <2>2, <2>3, <2>4, <2>5, <1>4, BecomesKeeps
<1>5. ASSUME UNCHANGED bridge, NEW events \in {<<"exit">>, <<"error", "exit">>},
             thread[e] \in Live, Becomes(e, "dead", events)
      PROVE  IInv' /\ StartsRight
  <2>1. events \in Seq(Names) /\ "dead" \in Live \cup {"dead"}
    BY <1>2, <1>5
  <2>2. bridge' \in [Execs -> {"running", "exit0", "exit1", "timeout", "rejected"}]
        /\ \A d \in Execs : bridge[d] = "rejected" => bridge'[d] = "rejected"
    BY <1>1, <1>5
  <2>3. "dead" \notin {"running", "exited"}
    OBVIOUS
  <2> QED BY <2>1, <2>2, <2>3, <1>5, BecomesKeeps
<1>6. ASSUME Worker(e) PROVE IInv' /\ StartsRight
  <2>1. CASE thread[e] = "exited" /\ Becomes(e, "posted", <<"success">>)
    <3>1. UNCHANGED bridge /\ thread[e] \in Live
      BY <1>6, <2>1 DEF Worker, Live
    <3> QED BY <2>1, <3>1, <1>4
  <2>2. CASE thread[e] = "running" /\ Becomes(e, "running", <<"failure">>)
    <3>1. UNCHANGED bridge /\ thread[e] \in Live
      BY <1>6, <2>2 DEF Worker, Live
    <3> QED BY <2>2, <3>1, <1>4
  <2>3. CASE thread[e] = "posted" /\ Becomes(e, "dead", <<"exit">>)
    <3>1. UNCHANGED bridge /\ thread[e] \in Live
      BY <1>6, <2>3 DEF Worker, Live
    <3> QED BY <2>3, <3>1, <1>5
  <2>4. CASE thread[e] = "running" /\ Becomes(e, "posted", <<"failure">>)
    <3>1. UNCHANGED bridge /\ thread[e] \in Live
      BY <1>6, <2>4 DEF Worker, Live
    <3> QED BY <2>4, <3>1, <1>4
  <2>5. CASE thread[e] \in Live /\ \E last \in {<<"exit">>, <<"error", "exit">>} :
                                      Becomes(e, "dead", last)
    <3>1. UNCHANGED bridge
      BY <1>6 DEF Worker
    <3> QED BY <2>5, <3>1, <1>5
  <2> QED BY <1>6, <2>1, <2>2, <2>3, <2>4, <2>5 DEF Worker
<1> QED BY <1>3, <1>6 DEF WorkerStep

-----------------------------------------------------------------------------
(***************************************************************************)
(* The theorems.                                                           *)
(***************************************************************************)
LEMMA Inductive == IInv /\ [Next]_vars => IInv' /\ (StartsRight \/ UNCHANGED vars)
<1> SUFFICES ASSUME IInv, [Next]_vars PROVE IInv' /\ (StartsRight \/ UNCHANGED vars)
  OBVIOUS
<1>1. ASSUME NEW e \in Execs, ExecutePython(e) PROVE IInv' /\ StartsRight
  BY <1>1, ExecuteKeeps
<1>2. ASSUME NEW e \in Execs, OnTimeout(e) PROVE IInv' /\ StartsRight
  BY <1>2, OnTimeoutKeeps
<1>3. ASSUME NEW e \in Execs, Handle(e) PROVE IInv' /\ StartsRight
  BY <1>3, HandleKeeps
<1>4. ASSUME NEW e \in Execs, Return(e) PROVE IInv' /\ StartsRight
  BY <1>4, ReturnKeeps
<1>5. ASSUME NEW e \in Execs, NEW with \in {"timeout", "rejected"}, BridgeEnds(e, with)
      PROVE  IInv' /\ StartsRight
  BY <1>5, BridgeEndsKeeps
<1>6. ASSUME NEW e \in Execs, WorkerStep(e) PROVE IInv' /\ StartsRight
  BY <1>6, WorkerStepKeeps
<1>7. ASSUME NEW s \in Sessions, CloseSession(s) PROVE IInv' /\ StartsRight
  BY <1>7, CloseSessionKeeps
<1>8. CASE UNCHANGED vars
  <2>1. NowCore' = NowCore
    BY <1>8 DEF vars, queueVars, callVars, NowCore
  <2> QED BY <1>8, <2>1 DEF vars, queueVars, callVars, IInv
<1> QED BY <1>1, <1>2, <1>3, <1>4, <1>5, <1>6, <1>7, <1>8 DEF Next

LEMMA Invariance == Spec => []IInv
<1>1. Init => IInv
  BY InitInv
<1>2. IInv /\ [Next]_vars => IInv'
  BY Inductive
<1> QED BY <1>1, <1>2, PTL DEF Spec

\* Every variable keeps its type, and what is in a queue has no worker.
THEOREM TypeCorrect == Spec => []TypeOK
<1>1. IInv => TypeOK
  <2> SUFFICES ASSUME IInv PROVE TypeOK
    OBVIOUS
  <2>1. \A f \in Filesystems : \A i \in 1..Len(queue[f]) : thread[queue[f][i]] = "none"
    BY DEF IInv, NowCore, Core, Queued, Entry
  <2> QED BY <2>1 DEF IInv, NowCore, Core, Types, Reports, Names, TypeOK
<1> QED BY <1>1, Invariance, PTL

\* One program of a filesystem runs at a time, apart from those of a session that have
\* reported a violation.
THEOREM OneAtATime == Spec => []Serialized
<1>1. IInv => Serialized
  <2>1. SUFFICES ASSUME IInv, NEW d \in Unreported, NEW e \in Unreported, FsOf[d] = FsOf[e]
                 PROVE  d = e
    BY DEF Serialized
  <2>2. \A x \in Unreported : x \in Open(resolved, thread)
    BY <2>1 DEF Unreported, Open, IInv, NowCore, Core, Settled
  <2> QED BY <2>1, <2>2 DEF IInv, NowCore, Core, OneOpen
<1> QED BY <1>1, Invariance, PTL

\* A queue that is not executing has nothing to execute, or a handler is about to go on.
THEOREM NothingIsLeftWaiting == Spec => []NoLostWakeup
<1>1. IInv => NoLostWakeup
  BY DEF IInv, Awake, NoLostWakeup
<1> QED BY <1>1, Invariance, PTL

\* The worker of a call that has returned is not alive, unless a session holds it.
THEOREM EveryWorkerIsHeld == Spec => []NoStrayWorker
<1>1. IInv => NoStrayWorker
  BY DEF IInv, NowCore, Core, Held, NoStrayWorker
<1> QED BY <1>1, Invariance, PTL

\* A call that has been answered is not executed afterwards.
THEOREM AnsweredStayUnstarted == Spec => AnsweredNeverStarts
<1>1. IInv /\ [Next]_vars => [StartsRight]_vars
  BY Inductive
<1>2. StartsRight =>
        \A e \in Execs : (thread[e] = "none" /\ thread'[e] # "none") =>
          answer'[e] = "pending" \/ (e \in Persistent /\ bridge[e] = "rejected")
  BY DEF StartsRight
<1> QED BY <1>1, <1>2, Invariance, PTL DEF Spec, AnsweredNeverStarts

\* The start of an execution terminates the previous worker of its session, but no program
\* that has still to report, if the calls of a session are on one filesystem (two
\* filesystems that share a SessionManager have queues of their own).
THEOREM StartsEndNone == OneFilesystem /\ Spec => StartKillsNone
<1>1. IInv /\ [Next]_vars => [StartsRight]_vars
  BY Inductive
<1>2. OneFilesystem /\ StartsRight =>
        \A e \in Execs : (thread[e] = "none" /\ thread'[e] = "running") =>
          \A d \in Unreported : d \in Persistent \cap resolved' \/ thread'[d] = thread[d]
  BY DEF StartsRight, Spares
<1>3. ASSUME OneFilesystem PROVE Spec => StartKillsNone
  <2>1. IInv /\ [Next]_vars =>
          [\A e \in Execs : (thread[e] = "none" /\ thread'[e] = "running") =>
             \A d \in Unreported : d \in Persistent \cap resolved' \/ thread'[d] = thread[d]]_vars
    BY <1>1, <1>2, <1>3
  <2> QED BY <2>1, Invariance, PTL DEF Spec, StartKillsNone
<1> QED BY <1>3

-----------------------------------------------------------------------------
(***************************************************************************)
(* Nobody is left: the safety half of EveryCallReturns.  What IInv says is *)
(* closed under the steps by itself, so the second invariant stands beside *)
(* it.                                                                     *)
(***************************************************************************)
\* Among the events of worker e that have still to be handled is one by this name.
Told(out, e, name) == \E n \in 1..Len(out[e]) : out[e][n] = name

InLine(q, e) == \E i \in 1..Len(q) : q[i] = e

\* A call without a result is in its queue or was started.
Placed(que, res, pro, ans, thr) ==
  \A e \in Execs : ans[e] = "pending" /\ pro[e] = "pending" =>
    InLine(que[FsOf[e]], e) \/ e \in Open(res, thr)

\* A filesystem that is executing has an execution of which no result is known, ...
Busy(exe, res, thr) ==
  \A f \in Filesystems : exe[f] = TRUE => \E d \in Open(res, thr) : FsOf[d] = f

\* ... and the exit of a dead one is still to be handled.
Heard(res, thr, out) == \A d \in Open(res, thr) : thr[d] = "dead" => Told(out, d, "exit")

\* Only the timer cancels.
Timed(can, pro) == \A e \in can : pro[e] = "deadline"

\* A worker posts its success behind the exit code that the bridge has seen.
Seen(bri, pro, thr, out) ==
  \A e \in Execs :
    pro[e] = "success" \/ thr[e] = "exited" \/ Told(out, e, "success") => bri[e] # "running"

\* A handler that waits for terminate() can go on.
Ended(rsm, thr) == \A e \in rsm : thr[e] = "dead"

ServedInv ==
  /\ Placed(queue, resolved, promise, answer, thread)
  /\ Busy(isExecuting, resolved, thread)
  /\ Heard(resolved, thread, outbox)
  /\ Timed(canceled, promise)
  /\ Seen(bridge, promise, thread, outbox)
  /\ Ended(resuming, thread)

\* What the events are after those of T are taken and the workers of W are terminated.
LEMMA EventsTell ==
  ASSUME IInv, NEW T, \A e \in T \cap Execs : outbox[e] # <<>>, NEW W, NEW e \in Execs
  PROVE  /\ Told(Events(T, W), e, "success") => Told(outbox, e, "success")
         /\ e \notin T => \A name : Told(outbox, e, name) => Told(Events(T, W), e, name)
         /\ e \in W /\ thread[e] \in Live => Told(Events(T, W), e, "exit")
<1> DEFINE base == IF e \in T THEN Tail(outbox[e]) ELSE outbox[e]
           more == IF e \in W /\ thread[e] \in Live THEN <<"exit">> ELSE <<>>
           out == Events(T, W)[e]
<1>1. /\ base \in Seq(Names)
      /\ \A i \in 1..Len(base) : \E j \in 1..Len(outbox[e]) : base[i] = outbox[e][j]
  <2>1. outbox[e] \in Seq(Names)
    BY DEF IInv, Reports
  <2>2. CASE e \in T
    <3>1. /\ Tail(outbox[e]) \in Seq(Names)
          /\ Len(Tail(outbox[e])) = Len(outbox[e]) - 1 /\ Len(outbox[e]) \in Nat
          /\ \A i \in 1..Len(Tail(outbox[e])) : Tail(outbox[e])[i] = outbox[e][i + 1]
      BY <2>1, <2>2, HeadTailProperties, LenProperties
    <3>2. \A i \in 1..Len(Tail(outbox[e])) : i + 1 \in 1..Len(outbox[e])
      BY <3>1
    <3> QED BY <2>2, <3>1, <3>2
  <2>3. CASE e \notin T
    BY <2>1, <2>3
  <2> QED BY <2>2, <2>3
<1>2. /\ more \in Seq(Names) /\ Len(more) \in {0, 1}
      /\ \A i \in 1..Len(more) : more[i] = "exit"
      /\ e \in W /\ thread[e] \in Live => Len(more) = 1
  <2>1. <<"exit">> \in Seq(Names) /\ Len(<<"exit">>) = 1 /\ <<"exit">>[1] = "exit"
    BY DEF Names
  <2>2. <<>> \in Seq(Names) /\ Len(<<>>) = 0
    BY EmptySeq
  <2> QED BY <2>1, <2>2
<1>3. out = base \o more
  BY DEF Events
<1>4. e \notin T => base = outbox[e]
  OBVIOUS
<1> HIDE DEF out, base, more
<1>5. /\ Len(out) = Len(base) + Len(more) /\ Len(base) \in Nat
      /\ \A i \in 1..Len(base) + Len(more) :
           out[i] = IF i <= Len(base) THEN base[i] ELSE more[i - Len(base)]
  BY <1>1, <1>2, <1>3, ConcatProperties, LenProperties
<1>6. ASSUME NEW n \in 1..Len(out), out[n] = "success"
      PROVE  \E j \in 1..Len(outbox[e]) : outbox[e][j] = "success"
  <2>1. CASE n <= Len(base)
    <3>1. n \in 1..Len(base) /\ base[n] = "success"
      BY <1>5, <1>6, <2>1
    <3> QED BY <1>1, <3>1
  <2>2. CASE ~(n <= Len(base))
    <3>1. n - Len(base) \in 1..Len(more) /\ out[n] = more[n - Len(base)]
      BY <1>2, <1>5, <2>2
    <3> QED BY <1>2, <1>6, <3>1
  <2> QED BY <2>1, <2>2
<1>7. ASSUME e \notin T, NEW name, NEW n \in 1..Len(outbox[e]), outbox[e][n] = name
      PROVE  \E m \in 1..Len(out) : out[m] = name
  <2>1. n \in 1..Len(out) /\ out[n] = base[n]
    BY <1>2, <1>4, <1>5, <1>7
  <2> QED BY <1>4, <1>7, <2>1
<1>8. ASSUME e \in W, thread[e] \in Live PROVE \E m \in 1..Len(out) : out[m] = "exit"
  <2>1. Len(more) = 1
    BY <1>2, <1>8
  <2>2. /\ Len(base) + 1 \in 1..Len(out) /\ Len(base) + 1 \in 1..Len(base) + Len(more)
        /\ ~(Len(base) + 1 <= Len(base))
        /\ (Len(base) + 1) - Len(base) = 1 /\ 1 \in 1..Len(more)
    BY <1>5, <2>1
  <2>3. out[Len(base) + 1] = more[1]
    BY <1>5, <2>2
  <2> QED BY <1>2, <2>2, <2>3
<1> QED BY <1>6, <1>7, <1>8 DEF Told, out

\* Terminating workers leaves nobody unheard.
LEMMA StopServes ==
  ASSUME IInv, NEW T, \A e \in T \cap Execs : outbox[e] # <<>>, NEW W,
         NEW res, T \subseteq res, NEW bri, NEW pro, NEW rsm \in SUBSET Execs,
         Heard(res, thread, outbox), Seen(bri, pro, thread, outbox), Ended(rsm, thread)
  PROVE  /\ Open(res, Stopped(W)) = Open(res, thread)
         /\ Heard(res, Stopped(W), Events(T, W))
         /\ Seen(bri, pro, Stopped(W), Events(T, W))
         /\ Ended(rsm, Stopped(W))
<1>1. /\ \A e \in Execs : Stopped(W)[e] = "none" <=> thread[e] = "none"
      /\ \A e \in Execs : Stopped(W)[e] = thread[e] \/ Stopped(W)[e] = "dead"
  BY TypesNow, StoppedKeeps
<1>2. \A e \in Execs : Stopped(W)[e] = "dead" => thread[e] = "dead" \/ (e \in W /\ thread[e] \in Live)
  BY DEF Stopped
<1>3. Open(res, Stopped(W)) = Open(res, thread)
  BY <1>1 DEF Open
<1>4. Heard(res, Stopped(W), Events(T, W))
  <2>1. SUFFICES ASSUME NEW d \in Open(res, thread), Stopped(W)[d] = "dead"
                 PROVE  Told(Events(T, W), d, "exit")
    BY <1>3 DEF Heard
  <2>2. d \in Execs /\ d \notin T
    BY DEF Open
  <2>3. CASE thread[d] = "dead"
    BY <2>2, <2>3, EventsTell DEF Heard
  <2>4. CASE d \in W /\ thread[d] \in Live
    BY <2>2, <2>4, EventsTell
  <2> QED BY <1>2, <2>1, <2>2, <2>3, <2>4
<1>5. Seen(bri, pro, Stopped(W), Events(T, W))
  <2>1. \A e \in Execs : Told(Events(T, W), e, "success") => Told(outbox, e, "success")
    BY EventsTell
  <2>2. \A e \in Execs : Stopped(W)[e] = "exited" => thread[e] = "exited"
    BY <1>1
  <2> QED BY <2>1, <2>2 DEF Seen
<1>6. Ended(rsm, Stopped(W))
  BY <1>1 DEF Ended, Stopped, Live
<1> QED BY <1>3, <1>4, <1>5, <1>6

\* What a handler passes on, as in PassedOn.
Serving(f, q, busy, p, done, T) ==
  /\ q \in Seq(Execs)
  /\ \A i \in 1..Len(q) : FsOf[q[i]] = f /\ thread[q[i]] = "none" /\ q[i] \notin done
  /\ \A i, j \in 1..Len(q) : q[i] = q[j] => i = j
  /\ Placed([queue EXCEPT ![f] = q], done, p, answer', thread)
  /\ Busy([isExecuting EXCEPT ![f] = busy], done, thread)
  /\ T \subseteq done /\ \A e \in T \cap Execs : outbox[e] # <<>>
  /\ Heard(done, thread, outbox)
  /\ canceled' \subseteq Execs /\ Timed(canceled', p)
  /\ Seen(bridge', p, thread, outbox)
  /\ resuming' \subseteq Execs /\ Ended(resuming', thread)

LEMMA WaitsServes ==
  ASSUME IInv, NEW f, NEW q, NEW busy, NEW p, NEW done, NEW T, NEW stale,
         Serving(f, q, busy, p, done, T), Waits(f, q, busy, p, done, T, stale)
  PROVE  ServedInv'
<1>1. /\ queue' = [queue EXCEPT ![f] = q] /\ isExecuting' = [isExecuting EXCEPT ![f] = busy]
      /\ promise' = p /\ resolved' = done
      /\ thread' = Stopped(stale) /\ outbox' = Events(T, stale)
  BY DEF Waits
<1>2. /\ Open(done, Stopped(stale)) = Open(done, thread)
      /\ Heard(done, Stopped(stale), Events(T, stale))
      /\ Seen(bridge', p, Stopped(stale), Events(T, stale))
      /\ Ended(resuming', Stopped(stale))
  BY StopServes DEF Serving
<1>3. Placed(queue', resolved', promise', answer', thread') /\ Busy(isExecuting', resolved', thread')
  BY <1>1, <1>2 DEF Serving, Placed, Busy
<1> QED BY <1>1, <1>2, <1>3 DEF Serving, ServedInv

LEMMA StartsServes ==
  ASSUME IInv, NEW f \in Filesystems, NEW q, NEW p, NEW done, NEW T, NEW stale,
         Serving(f, q, FALSE, p, done, T), q # <<>>, Starts(f, q, p, done, T, stale)
  PROVE  ServedInv'
<1> DEFINE e == Head(q)
           thr == Stopped(stale)
           out == Events(T, stale)
<1>1. /\ queue' = [queue EXCEPT ![f] = Tail(q)]
      /\ isExecuting' = [isExecuting EXCEPT ![f] = TRUE]
      /\ promise' = p /\ resolved' = done
      /\ thread' = [thr EXCEPT ![e] = "running"] /\ outbox' = out
  BY DEF Starts
<1>2. /\ Open(done, thr) = Open(done, thread)
      /\ Heard(done, thr, out) /\ Seen(bridge', p, thr, out) /\ Ended(resuming', thr)
  <2>1. /\ T \subseteq done /\ \A x \in T \cap Execs : outbox[x] # <<>>
        /\ Heard(done, thread, outbox) /\ Seen(bridge', p, thread, outbox)
        /\ resuming' \in SUBSET Execs /\ Ended(resuming', thread)
    BY DEF Serving
  <2> QED BY <2>1, StopServes
<1>3. /\ e = q[1] /\ e \in Execs /\ Len(q) \in Nat \ {0} /\ Len(Tail(q)) = Len(q) - 1
      /\ \A i \in 1..Len(Tail(q)) : Tail(q)[i] = q[i + 1]
  BY HeadTailProperties, EmptySeq DEF Serving
<1>4. FsOf[e] = f /\ thread[e] = "none" /\ e \notin done
  BY <1>3 DEF Serving
<1>5. /\ thr \in [Execs -> Live \cup {"none", "dead"}] /\ thr[e] = "none"
      /\ queue \in [Filesystems -> Seq(Execs)] /\ isExecuting \in [Filesystems -> BOOLEAN]
      /\ \A x \in Execs : FsOf[x] \in Filesystems
  BY <1>3, <1>4, TypesNow, StoppedKeeps
<1> HIDE DEF e, thr, out
<1>6. /\ thread'[e] = "running" /\ \A x \in Execs : x # e => thread'[x] = thr[x]
      /\ Open(done, thread') = Open(done, thr) \cup {e}
  <2>1. thread'[e] = "running" /\ \A x \in Execs : x # e => thread'[x] = thr[x]
    BY <1>1, <1>3, <1>5
  <2> QED BY <1>3, <1>4, <2>1 DEF Open
<1>7. Placed(queue', done, p, answer', thread')
  <2>1. SUFFICES ASSUME NEW x \in Execs, answer'[x] = "pending", p[x] = "pending",
                        x \notin Open(done, thread')
                 PROVE  InLine(queue'[FsOf[x]], x)
    BY DEF Placed
  <2>2. InLine([queue EXCEPT ![f] = q][FsOf[x]], x) /\ x # e
    BY <1>2, <1>6, <2>1 DEF Serving, Placed
  <2>3. CASE FsOf[x] # f
    BY <1>1, <1>5, <2>2, <2>3
  <2>4. CASE FsOf[x] = f
    <3>1. InLine(q, x) /\ queue'[FsOf[x]] = Tail(q)
      BY <1>1, <1>5, <2>2, <2>4
    <3>2. PICK i \in 1..Len(q) : q[i] = x
      BY <3>1 DEF InLine
    <3>3. i # 1
      BY <1>3, <2>2, <3>2
    <3>4. i - 1 \in 1..Len(Tail(q)) /\ (i - 1) + 1 = i
      BY <1>3, <3>2, <3>3
    <3>5. Tail(q)[i - 1] = x
      BY <1>3, <3>2, <3>4
    <3> QED BY <3>1, <3>4, <3>5 DEF InLine
  <2> QED BY <2>3, <2>4
<1>8. Busy(isExecuting', done, thread')
  <2>1. SUFFICES ASSUME NEW g \in Filesystems, isExecuting'[g] = TRUE
                 PROVE  \E d \in Open(done, thread') : FsOf[d] = g
    BY DEF Busy
  <2>2. CASE g = f
    BY <1>4, <1>6, <2>2
  <2>3. CASE g # f
    <3>1. [isExecuting EXCEPT ![f] = FALSE][g] = TRUE
      BY <1>1, <1>5, <2>1, <2>3
    <3> QED BY <1>2, <1>6, <3>1 DEF Serving, Busy
  <2> QED BY <2>2, <2>3
<1>9. Heard(done, thread', out)
  BY <1>2, <1>3, <1>6 DEF Heard, Open
<1>10. Seen(bridge', p, thread', out)
  BY <1>2, <1>6 DEF Seen
<1>11. Ended(resuming', thread')
  BY <1>2, <1>5, <1>6 DEF Ended, Serving
<1> QED BY <1>1, <1>7, <1>8, <1>9, <1>10, <1>11 DEF Serving, ServedInv

\* The entries passed over are canceled, or their calls are told of an error.
LEMMA PassingServes ==
  ASSUME IInv, NEW f \in Filesystems, NEW q, NEW p, NEW done, NEW T, NEW n \in 0..Len(q),
         Serving(f, q, FALSE, p, done, T)
  PROVE  Serving(f, SubSeq(q, n + 1, Len(q)), FALSE, Resolved(p, Tried(q, n), "error"),
                    done \cup (Tried(q, n) \ unspawnable), T)
<1> DEFINE rest == SubSeq(q, n + 1, Len(q))
           passed == Tried(q, n)
           p2 == Resolved(p, passed, "error")
           done2 == done \cup (passed \ unspawnable)
<1>1. /\ q \in Seq(Execs) /\ Len(q) \in Nat /\ n \in Nat /\ n + 1 \in Int /\ n <= Len(q)
      /\ \A i \in 1..Len(q) :
           q[i] \in Execs /\ FsOf[q[i]] = f /\ thread[q[i]] = "none" /\ q[i] \notin done
  BY ElementOfSeq, LenProperties DEF Serving
<1>2. /\ rest \in Seq(Execs) /\ Len(rest) = Len(q) - n
      /\ \A i \in 1..Len(rest) : n + i \in 1..Len(q) /\ rest[i] = q[n + i]
  <2>1. /\ rest \in Seq(Execs)
        /\ Len(rest) = IF n + 1 <= Len(q) THEN Len(q) - (n + 1) + 1 ELSE 0
        /\ \A i \in 1 .. Len(q) - (n + 1) + 1 : rest[i] = q[n + 1 + i - 1]
    BY <1>1, SubSeqProperties
  <2> QED BY <1>1, <2>1
<1>3. \A x \in passed : x \in Execs /\ thread[x] = "none"
  BY <1>1 DEF Tried
<1>4. \A i \in 1..n : q[i] \in canceled' \/ q[i] \in passed
  BY DEF Tried
<1>5. \A x \in Execs : p2[x] = IF x \in passed /\ p[x] = "pending" THEN "error" ELSE p[x]
  BY DEF Resolved
<1>6. queue \in [Filesystems -> Seq(Execs)] /\ isExecuting \in [Filesystems -> BOOLEAN]
  BY TypesNow
<1> HIDE DEF rest, passed, p2
<1>7. Open(done2, thread) = Open(done, thread)
  BY <1>3 DEF Open
<1>8. Timed(canceled', p2)
  BY <1>5 DEF Serving, Timed
<1>9. ASSUME NEW x \in Execs, p2[x] = "pending", FsOf[x] = f, InLine(q, x)
      PROVE  InLine(rest, x)
  <2>1. PICK i \in 1..Len(q) : q[i] = x
    BY <1>9 DEF InLine
  <2>2. i \notin 1..n
    <3>1. SUFFICES ASSUME i \in 1..n PROVE FALSE
      OBVIOUS
    <3>2. x \notin canceled'
      BY <1>8, <1>9 DEF Timed
    <3>3. x \in passed
      BY <1>4, <2>1, <3>1, <3>2
    <3> QED BY <1>5, <1>9, <3>3
  <2>3. i - n \in 1..Len(rest) /\ n + (i - n) = i
    BY <1>1, <1>2, <2>1, <2>2
  <2>4. rest[i - n] = x
    BY <1>2, <2>1, <2>3
  <2> QED BY <2>3, <2>4 DEF InLine
<1>10. Placed([queue EXCEPT ![f] = rest], done2, p2, answer', thread)
  <2>1. SUFFICES ASSUME NEW x \in Execs, answer'[x] = "pending", p2[x] = "pending",
                        x \notin Open(done, thread)
                 PROVE  InLine([queue EXCEPT ![f] = rest][FsOf[x]], x)
    BY <1>7 DEF Placed
  <2>2. p[x] = "pending"
    BY <1>5, <2>1
  <2>3. InLine([queue EXCEPT ![f] = q][FsOf[x]], x)
    BY <2>1, <2>2 DEF Serving, Placed
  <2>4. FsOf[x] \in Filesystems
    BY TypesNow
  <2>5. CASE FsOf[x] = f
    BY <1>6, <1>9, <2>1, <2>3, <2>5
  <2>6. CASE FsOf[x] # f
    BY <1>6, <2>3, <2>4, <2>6
  <2> QED BY <2>5, <2>6
<1>11. \A i \in 1..Len(rest) :
         FsOf[rest[i]] = f /\ thread[rest[i]] = "none" /\ rest[i] \notin done2
  <2>1. ASSUME NEW i \in 1..Len(rest), rest[i] \in passed PROVE FALSE
    <3>1. PICK j \in 1..n : q[j] = rest[i]
      BY <2>1 DEF passed, Tried
    <3>2. n + i \in 1..Len(q) /\ q[n + i] = q[j] /\ j \in 1..Len(q)
      BY <1>1, <1>2, <3>1
    <3>3. n + i = j
      BY <3>2 DEF Serving
    <3> QED BY <1>1, <1>2, <3>3
  <2>2. TAKE i \in 1..Len(rest)
  <2> DEFINE x == rest[i]
  <2>3. n + i \in 1..Len(q) /\ q[n + i] = x /\ x \notin passed
    BY <1>2, <2>1
  <2> HIDE DEF x
  <2>4. FsOf[x] = f /\ thread[x] = "none" /\ x \notin done
    BY <1>1, <2>3
  <2>5. x \notin done2
    BY <2>3, <2>4
  <2> QED BY <2>4, <2>5 DEF x
<1>14. \A i, j \in 1..Len(rest) : rest[i] = rest[j] => i = j
  <2>1. SUFFICES ASSUME NEW i \in 1..Len(rest), NEW j \in 1..Len(rest), rest[i] = rest[j]
                 PROVE  i = j
    OBVIOUS
  <2>2. n + i \in 1..Len(q) /\ n + j \in 1..Len(q) /\ q[n + i] = q[n + j]
    BY <1>2, <2>1
  <2>3. n + i = n + j
    BY <2>2 DEF Serving
  <2> QED BY <1>1, <2>3
<1>12. /\ Busy([isExecuting EXCEPT ![f] = FALSE], done2, thread)
       /\ Heard(done2, thread, outbox) /\ T \subseteq done2
  BY <1>7 DEF Serving, Busy, Heard
<1>13. Seen(bridge', p2, thread, outbox)
  BY <1>5 DEF Serving, Seen
<1> QED BY <1>2, <1>8, <1>10, <1>11, <1>12, <1>13, <1>14
       DEF Serving, rest, p2, passed

(***************************************************************************)
(* Whatever handler calls processNextExecution, with what it passes on.    *)
(***************************************************************************)
LEMMA ProcessNextServes ==
  ASSUME IInv, NEW f \in Filesystems, NEW q, NEW busy \in BOOLEAN, NEW p, NEW done, NEW T,
         Serving(f, q, busy, p, done, T), ProcessNext(f, q, busy, p, done, T)
  PROVE  ServedInv'
<1>1. CASE busy = TRUE
  <2>1. Waits(f, q, busy, p, done, T, {})
    BY <1>1 DEF ProcessNext
  <2> QED BY <2>1, WaitsServes
<1>2. CASE busy = FALSE
  <2>1. PICK n \in 0..Len(q) :
          LET rest   == SubSeq(q, n + 1, Len(q))
              passed == Tried(q, n)
              failed == Resolved(p, passed, "error")
              told   == done \cup (passed \ unspawnable)
          IN  IF rest = <<>> THEN Waits(f, <<>>, FALSE, failed, told, T, Stale(passed))
              ELSE Starts(f, rest, failed, told, T, Stale(passed \cup {Head(rest)}))
    BY <1>2 DEF ProcessNext
  <2> DEFINE rest   == SubSeq(q, n + 1, Len(q))
             passed == Tried(q, n)
             failed == Resolved(p, passed, "error")
             told   == done \cup (passed \ unspawnable)
  <2>2. Serving(f, rest, FALSE, failed, told, T)
    BY <1>2, PassingServes
  <2>3. CASE rest = <<>>
    <3>1. Waits(f, <<>>, FALSE, failed, told, T, Stale(passed))
      BY <2>1, <2>3
    <3> HIDE DEF failed, told, passed
    <3> QED BY <2>2, <2>3, <3>1, WaitsServes
  <2>4. CASE rest # <<>>
    <3>1. Starts(f, rest, failed, told, T, Stale(passed \cup {Head(rest)}))
      BY <2>1, <2>4
    <3> HIDE DEF failed, told, passed, rest
    <3> QED BY <2>2, <2>4, <3>1, StartsServes
  <2> QED BY <2>3, <2>4
<1> QED BY <1>1, <1>2

LEMMA LinesNow ==
  ASSUME IInv, NEW f \in Filesystems
  PROVE  /\ queue[f] \in Seq(Execs)
         /\ \A i \in 1..Len(queue[f]) :
              /\ FsOf[queue[f][i]] = f /\ thread[queue[f][i]] = "none"
              /\ queue[f][i] \notin resolved /\ answer[queue[f][i]] # "uncalled"
         /\ \A i, j \in 1..Len(queue[f]) : queue[f][i] = queue[f][j] => i = j
<1>1. Queued(queue, canceled, resolved, terminateOnAttach, promise, answer, bridge, thread)
  BY DEF IInv, NowCore, Core
<1> QED BY <1>1, TypesNow DEF Queued, Entry

LEMMA ExecuteServes ==
  ASSUME IInv, ServedInv, NEW e \in Execs, ExecutePython(e) PROVE ServedInv'
<1> DEFINE f == FsOf[e]
           q == Append(queue[f], e)
<1>1. /\ answer[e] = "uncalled" /\ answer' = [answer EXCEPT ![e] = "pending"]
      /\ canceled' = canceled /\ bridge' = bridge /\ resuming' = resuming
      /\ ProcessNext(f, q, isExecuting[f], promise, resolved, {})
  BY DEF ExecutePython
<1>2. /\ f \in Filesystems /\ queue \in [Filesystems -> Seq(Execs)]
      /\ isExecuting[f] \in BOOLEAN /\ [isExecuting EXCEPT ![f] = isExecuting[f]] = isExecuting
      /\ \A x \in Execs : FsOf[x] \in Filesystems
  BY TypesNow
<1>3. /\ q \in Seq(Execs) /\ Len(q) = Len(queue[f]) + 1 /\ Len(queue[f]) \in Nat
      /\ \A i \in 1..Len(queue[f]) : q[i] = queue[f][i]
      /\ q[Len(queue[f]) + 1] = e
  BY <1>2, AppendProperties, LenProperties
<1>4. \A i \in 1..Len(q) : i \in 1..Len(queue[f]) \/ i = Len(queue[f]) + 1
  BY <1>3
<1>5. thread[e] = "none" /\ e \notin resolved /\ \A x \in Execs : x # e => answer'[x] = answer[x]
  BY <1>1 DEF IInv, NowCore, Core, Uncalled, Types
<1>6. /\ \A i \in 1..Len(q) : FsOf[q[i]] = f /\ thread[q[i]] = "none" /\ q[i] \notin resolved
      /\ \A i, j \in 1..Len(q) : q[i] = q[j] => i = j
  <2>1. \A i \in 1..Len(queue[f]) : queue[f][i] # e
    BY <1>1, <1>2, LinesNow
  <2>2. /\ \A i \in 1..Len(queue[f]) : FsOf[queue[f][i]] = f /\ thread[queue[f][i]] = "none"
                                       /\ queue[f][i] \notin resolved
        /\ \A i, j \in 1..Len(queue[f]) : queue[f][i] = queue[f][j] => i = j
    BY <1>2, LinesNow
  <2> HIDE DEF q
  <2>3. ASSUME NEW i \in 1..Len(q)
        PROVE  FsOf[q[i]] = f /\ thread[q[i]] = "none" /\ q[i] \notin resolved
    <3>1. CASE i \in 1..Len(queue[f])
      <4>1. q[i] = queue[f][i]
        BY <1>3, <3>1
      <4> QED BY <2>2, <3>1, <4>1
    <3>2. CASE i = Len(queue[f]) + 1
      <4>1. q[i] = e
        BY <1>3, <3>2
      <4> QED BY <1>5, <4>1
    <3> QED BY <1>4, <3>1, <3>2
  <2>4. ASSUME NEW i \in 1..Len(q), NEW j \in 1..Len(q), q[i] = q[j] PROVE i = j
    BY <1>3, <1>4, <2>1, <2>2, <2>4
  <2> QED BY <2>3, <2>4
<1>7. Placed([queue EXCEPT ![f] = q], resolved, promise, answer', thread)
  <2>1. SUFFICES ASSUME NEW x \in Execs, answer'[x] = "pending", promise[x] = "pending",
                        x \notin Open(resolved, thread)
                 PROVE  InLine([queue EXCEPT ![f] = q][FsOf[x]], x)
    BY DEF Placed
  <2>2. CASE x = e
    <3>1. [queue EXCEPT ![f] = q][FsOf[x]] = q
      BY <1>2, <2>2
    <3>2. Len(queue[f]) + 1 \in 1..Len(q)
      BY <1>3
    <3> QED BY <1>3, <2>2, <3>1, <3>2 DEF InLine
  <2>3. CASE x # e
    <3>1. InLine(queue[FsOf[x]], x)
      BY <1>5, <2>1, <2>3 DEF ServedInv, Placed
    <3>2. CASE FsOf[x] = f
      <4>1. PICK i \in 1..Len(queue[f]) : queue[f][i] = x
        BY <3>1, <3>2 DEF InLine
      <4>2. i \in 1..Len(q) /\ q[i] = x /\ [queue EXCEPT ![f] = q][FsOf[x]] = q
        BY <1>2, <1>3, <3>2, <4>1
      <4> QED BY <4>2 DEF InLine
    <3>3. CASE FsOf[x] # f
      BY <1>2, <3>1, <3>3
    <3> QED BY <3>2, <3>3
  <2> QED BY <2>2, <2>3
<1> HIDE DEF q
<1>8. Serving(f, q, isExecuting[f], promise, resolved, {})
  <2>1. canceled \subseteq Execs /\ resuming \subseteq Execs
    BY DEF IInv, NowCore, Core, Types
  <2> QED BY <1>1, <1>2, <1>3, <1>6, <1>7, <2>1 DEF Serving, ServedInv
<1> HIDE DEF f
<1> QED BY <1>1, <1>2, <1>8, ProcessNextServes

\* Once the result of e is known.
LEMMA ResultServes ==
  ASSUME IInv, ServedInv, NEW e \in Open(resolved, thread), NEW result \in {"success", "error"},
         result = "success" => Told(outbox, e, "success")
  PROVE  /\ Placed(queue, resolved \cup {e}, Resolved(promise, {e}, result), answer, thread)
         /\ Busy([isExecuting EXCEPT ![FsOf[e]] = FALSE], resolved \cup {e}, thread)
         /\ Heard(resolved \cup {e}, thread, outbox)
         /\ Timed(canceled, Resolved(promise, {e}, result))
         /\ Seen(bridge, Resolved(promise, {e}, result), thread, outbox)
<1> DEFINE p == Resolved(promise, {e}, result)
           done == resolved \cup {e}
<1>1. /\ \A x \in Execs : x # e => p[x] = promise[x]
      /\ p[e] = IF promise[e] = "pending" THEN result ELSE promise[e]
      /\ e \in Execs
  BY DEF Resolved, Open
<1> HIDE DEF p
<1>2. \A x \in Execs : x \in Open(done, thread) <=> x \in Open(resolved, thread) /\ x # e
  BY DEF Open
<1>3. Placed(queue, done, p, answer, thread)
  BY <1>1, <1>2 DEF ServedInv, Placed
<1>4. Busy([isExecuting EXCEPT ![FsOf[e]] = FALSE], done, thread)
  <2>1. SUFFICES ASSUME NEW g \in Filesystems, [isExecuting EXCEPT ![FsOf[e]] = FALSE][g] = TRUE
                 PROVE  \E d \in Open(done, thread) : FsOf[d] = g
    BY DEF Busy
  <2>2. isExecuting[g] = TRUE /\ g # FsOf[e]
    BY <2>1, TypesNow
  <2>3. PICK d \in Open(resolved, thread) : FsOf[d] = g
    BY <2>2 DEF ServedInv, Busy
  <2> QED BY <1>2, <2>2, <2>3 DEF Open
<1>5. Heard(done, thread, outbox)
  BY DEF ServedInv, Heard, Open
<1>6. Timed(canceled, p)
  <2>1. canceled \subseteq Execs
    BY DEF IInv, NowCore, Core, Types
  <2> QED BY <1>1, <2>1 DEF ServedInv, Timed
<1>7. Seen(bridge, p, thread, outbox)
  BY <1>1 DEF ServedInv, Seen
<1> QED BY <1>3, <1>4, <1>5, <1>6, <1>7 DEF p

LEMMA GoesOnServes ==
  ASSUME IInv, ServedInv, NEW e \in Open(resolved, thread), NEW result \in {"success", "error"},
         result = "success" => Told(outbox, e, "success"), outbox[e] # <<>>,
         UNCHANGED <<canceled, answer, bridge, resuming>>, GoesOn(e, result)
  PROVE  ServedInv'
<1> DEFINE f == FsOf[e]
           p == Resolved(promise, {e}, result)
           done == resolved \cup {e}
<1>1. /\ f \in Filesystems /\ [queue EXCEPT ![f] = queue[f]] = queue
      /\ thread[e] # "none"
  BY TypesNow DEF Open
<1>2. /\ Placed(queue, done, p, answer, thread)
      /\ Busy([isExecuting EXCEPT ![f] = FALSE], done, thread)
      /\ Heard(done, thread, outbox) /\ Timed(canceled, p) /\ Seen(bridge, p, thread, outbox)
  BY ResultServes
<1>3. ProcessNext(f, queue[f], FALSE, p, done, {e})
  BY DEF GoesOn
<1>4. canceled \subseteq Execs /\ resuming \subseteq Execs
  BY DEF IInv, NowCore, Core, Types
<1> HIDE DEF f, p
<1>5. Serving(f, queue[f], FALSE, p, done, {e})
  <2>1. \A i \in 1..Len(queue[f]) : queue[f][i] \notin done
    BY <1>1, LinesNow
  <2> QED BY <1>1, <1>2, <1>4, <2>1, LinesNow DEF Serving, ServedInv
<1> HIDE DEF done
<1>6. PICK busy \in BOOLEAN : busy = FALSE
  OBVIOUS
<1> QED BY <1>1, <1>3, <1>5, <1>6, ProcessNextServes

LEMMA SettlesServes ==
  ASSUME IInv, ServedInv, NEW e \in Open(resolved, thread), NEW result \in {"success", "error"},
         result = "success" => Told(outbox, e, "success"), outbox[e] # <<>>, Settles(e, result)
  PROVE  ServedInv'
<1> DEFINE p == Resolved(promise, {e}, result)
           done == resolved \cup {e}
           exe == [isExecuting EXCEPT ![FsOf[e]] = FALSE]
<1>1. /\ queue' = queue /\ canceled' = canceled /\ answer' = answer /\ bridge' = bridge
      /\ resolved' = done /\ promise' = p /\ isExecuting' = exe
      /\ thread' = Stopped({e}) /\ outbox' = Events({e}, {e}) /\ resuming' = resuming \cup {e}
  BY DEF Settles
<1>2. /\ Placed(queue, done, p, answer, thread) /\ Busy(exe, done, thread)
      /\ Heard(done, thread, outbox) /\ Timed(canceled, p) /\ Seen(bridge, p, thread, outbox)
  BY ResultServes
<1>3. resuming \in SUBSET Execs /\ Ended(resuming, thread)
  BY DEF IInv, NowCore, Core, Types, ServedInv
<1> HIDE DEF p, exe
<1>4. /\ Open(done, Stopped({e})) = Open(done, thread)
      /\ Heard(done, Stopped({e}), Events({e}, {e}))
      /\ Seen(bridge, p, Stopped({e}), Events({e}, {e}))
      /\ Ended(resuming, Stopped({e}))
  <2>1. {e} \subseteq done /\ \A x \in {e} \cap Execs : outbox[x] # <<>>
    OBVIOUS
  <2> HIDE DEF done
  <2> QED BY <1>2, <1>3, <2>1, StopServes
<1>5. Stopped({e})[e] = "dead"
  <2>1. e \in Execs /\ thread[e] # "none" /\ thread[e] \in Live \cup {"none", "dead"}
    BY TypesNow DEF Open
  <2> QED BY <2>1 DEF Stopped
<1>6. Ended(resuming', thread')
  BY <1>1, <1>4, <1>5 DEF Ended
<1>7. Placed(queue', resolved', promise', answer', thread') /\ Busy(isExecuting', resolved', thread')
  BY <1>1, <1>2, <1>4 DEF Placed, Busy
<1> QED BY <1>1, <1>2, <1>4, <1>6, <1>7 DEF ServedInv

\* Terminating the workers of W outside a change of the queue.
LEMMA StoppingServes ==
  ASSUME IInv, ServedInv, NEW T, T \subseteq resolved, \A x \in T \cap Execs : outbox[x] # <<>>,
         NEW W, thread' = Stopped(W), outbox' = Events(T, W),
         queue' = queue, isExecuting' = isExecuting, resolved' = resolved, bridge' = bridge,
         resuming' = resuming,
         \A x \in Execs : answer'[x] = "pending" => answer[x] = "pending",
         \A x \in Execs : promise'[x] \in {"pending", "success"} => promise'[x] = promise[x],
         Timed(canceled', promise')
  PROVE  ServedInv'
<1>1. resuming \in SUBSET Execs
  BY DEF IInv, NowCore, Core, Types
<1>2. /\ Open(resolved, thread') = Open(resolved, thread)
      /\ Heard(resolved, thread', outbox') /\ Seen(bridge, promise, thread', outbox')
      /\ Ended(resuming, thread')
  BY <1>1, StopServes DEF ServedInv
<1>3. Placed(queue', resolved', promise', answer', thread')
  BY <1>2 DEF ServedInv, Placed
<1>4. Busy(isExecuting', resolved', thread')
  BY <1>2 DEF ServedInv, Busy
<1>5. Seen(bridge', promise', thread', outbox')
  BY <1>2 DEF Seen
<1> QED BY <1>2, <1>3, <1>4, <1>5 DEF ServedInv

LEMMA OnTimeoutServes ==
  ASSUME IInv, ServedInv, NEW e \in Execs, OnTimeout(e) PROVE ServedInv'
<1>1. /\ canceled' = canceled \cup ({e} \ ref)
      /\ promise' = [promise EXCEPT ![e] = "deadline"]
      /\ thread' = Stopped(ref \cap {e}) /\ outbox' = Events({}, ref \cap {e})
      /\ queue' = queue /\ isExecuting' = isExecuting /\ resolved' = resolved
      /\ answer' = answer /\ bridge' = bridge /\ resuming' = resuming
  BY DEF OnTimeout, queueVars
<1>2. promise'[e] = "deadline" /\ \A x \in Execs : x # e => promise'[x] = promise[x]
  BY <1>1, TypesNow
<1>3. Timed(canceled', promise')
  <2>1. canceled \subseteq Execs
    BY DEF IInv, NowCore, Core, Types
  <2> QED BY <1>1, <1>2, <2>1 DEF ServedInv, Timed
<1>4. \A x \in Execs : promise'[x] \in {"pending", "success"} => promise'[x] = promise[x]
  BY <1>2
<1>5. {} \subseteq resolved /\ \A x \in {} \cap Execs : outbox[x] # <<>>
  OBVIOUS
<1> QED BY <1>1, <1>3, <1>4, <1>5, StoppingServes

\* An event of a worker whose result is known.
LEMMA TakenServes ==
  ASSUME IInv, ServedInv, NEW e \in Execs, e \in resolved, outbox[e] # <<>>, Taken(e),
         UNCHANGED <<queueVars, callVars, bridge, thread, resuming>>
  PROVE  ServedInv'
<1>1. /\ thread' = Stopped({}) /\ outbox' = Events({e}, {})
      /\ queue' = queue /\ isExecuting' = isExecuting /\ resolved' = resolved
      /\ bridge' = bridge /\ resuming' = resuming /\ canceled' = canceled
      /\ answer' = answer /\ promise' = promise
  BY TypesNow DEF Taken, queueVars, callVars
<1>2. {e} \subseteq resolved /\ \A x \in {e} \cap Execs : outbox[x] # <<>>
  OBVIOUS
<1>3. Timed(canceled', promise')
  BY <1>1 DEF ServedInv
<1> QED BY <1>1, <1>2, <1>3, StoppingServes

LEMMA ResumeServes ==
  ASSUME IInv, ServedInv, NEW e \in Execs, Resume(e) PROVE ServedInv'
<1> DEFINE f == FsOf[e]
<1>1. /\ resuming' = resuming \ {e} /\ canceled' = canceled
      /\ answer' = answer /\ bridge' = bridge
      /\ ProcessNext(f, queue[f], isExecuting[f], promise, resolved, {})
  BY DEF Resume
<1>2. /\ f \in Filesystems /\ isExecuting[f] \in BOOLEAN
      /\ [queue EXCEPT ![f] = queue[f]] = queue
      /\ [isExecuting EXCEPT ![f] = isExecuting[f]] = isExecuting
  BY TypesNow
<1>3. canceled \subseteq Execs /\ resuming \subseteq Execs
  BY DEF IInv, NowCore, Core, Types
<1>4. Ended(resuming', thread)
  BY <1>1 DEF ServedInv, Ended
<1> HIDE DEF f
<1>5. Serving(f, queue[f], isExecuting[f], promise, resolved, {})
  BY <1>1, <1>2, <1>3, <1>4, LinesNow DEF Serving, ServedInv
<1> QED BY <1>1, <1>2, <1>5, ProcessNextServes

\* The event at the head of an outbox.
LEMMA HeadTold ==
  ASSUME IInv, NEW e \in Execs, outbox[e] # <<>>
  PROVE  Told(outbox, e, Head(outbox[e]))
<1>1. outbox[e] \in Seq(Names)
  BY DEF IInv, Reports
<1>2. Head(outbox[e]) = outbox[e][1] /\ Len(outbox[e]) \in Nat \ {0}
  BY <1>1, HeadTailProperties, EmptySeq
<1>3. 1 \in 1..Len(outbox[e])
  BY <1>2
<1> QED BY <1>2, <1>3 DEF Told

LEMMA HandleServes ==
  ASSUME IInv, ServedInv, NEW e \in Execs, Handle(e) PROVE ServedInv'
<1>1. CASE OnMessage(e)
  <2>1. /\ outbox[e] # <<>> /\ e \in Open(resolved, thread)
    BY <1>1, EventOpen DEF OnMessage
  <2>2. /\ Result(Head(outbox[e])) \in {"success", "error"}
        /\ Result(Head(outbox[e])) = "success" => Told(outbox, e, "success")
    BY <1>1, <2>1, HeadTold DEF OnMessage, Event, Result
  <2>3. CASE e \in Persistent
    <3>1. UNCHANGED <<canceled, answer, bridge, resuming>> /\ GoesOn(e, Result(Head(outbox[e])))
      BY <1>1, <2>3 DEF OnMessage
    <3> QED BY <2>1, <2>2, <3>1, GoesOnServes
  <2>4. CASE e \notin Persistent
    <3>1. Settles(e, Result(Head(outbox[e])))
      BY <1>1, <2>4 DEF OnMessage
    <3> QED BY <2>1, <2>2, <3>1, SettlesServes
  <2> QED BY <2>3, <2>4
<1>2. CASE OnError(e)
  <2>1. /\ outbox[e] # <<>> /\ e \in Open(resolved, thread) /\ Settles(e, "error")
        /\ "error" \in {"success", "error"} /\ "error" # "success"
    BY <1>2, EventOpen DEF OnError
  <2> QED BY <2>1, SettlesServes
<1>3. CASE OnExit(e)
  <2>1. outbox[e] # <<>> /\ (e \notin resolved => e \in Open(resolved, thread))
    BY <1>3, EventOpen DEF OnExit
  <2>2. e \notin resolved => isExecuting[FsOf[e]]
    BY <2>1 DEF IInv, NowCore, Core, OneOpen
  <2>3. CASE isExecuting[FsOf[e]] /\ e \notin resolved
    <3>1. UNCHANGED <<canceled, answer, bridge, resuming>> /\ GoesOn(e, "error")
      BY <1>3, <2>3 DEF OnExit
    <3>2. "error" \in {"success", "error"} /\ "error" # "success"
      OBVIOUS
    <3> QED BY <2>1, <2>3, <3>1, <3>2, GoesOnServes
  <2>4. CASE ~(isExecuting[FsOf[e]] /\ e \notin resolved)
    <3>1. Taken(e) /\ UNCHANGED <<queueVars, callVars, bridge, thread, resuming>>
      BY <1>3, <2>4 DEF OnExit, callVars
    <3> QED BY <2>1, <2>2, <2>4, <3>1, TakenServes
  <2> QED BY <2>3, <2>4
<1>4. CASE Ignore(e)
  <2>1. /\ e \in resolved /\ outbox[e] # <<>> /\ Taken(e)
        /\ UNCHANGED <<queueVars, callVars, bridge, thread, resuming>>
    BY <1>4 DEF Ignore, Event
  <2> QED BY <2>1, TakenServes
<1>5. CASE Resume(e)
  BY <1>5, ResumeServes
<1> QED BY <1>1, <1>2, <1>3, <1>4, <1>5 DEF Handle

LEMMA ReturnServes ==
  ASSUME IInv, ServedInv, NEW e \in Execs, Return(e) PROVE ServedInv'
<1>1. /\ answer' = [answer EXCEPT ![e] = Outcome(e)]
      /\ queue' = queue /\ isExecuting' = isExecuting /\ canceled' = canceled
      /\ resolved' = resolved /\ promise' = promise /\ bridge' = bridge /\ resuming' = resuming
  BY DEF Return, queueVars
<1>2. \A x \in Execs : answer'[x] = "pending" => answer[x] = "pending"
  <2>1. answer \in [Execs -> {"uncalled", "pending", "ok", "fail"}] /\ Outcome(e) # "pending"
    BY DEF IInv, NowCore, Core, Types, Outcome
  <2> QED BY <1>1, <2>1
<1>3. Timed(canceled', promise')
  BY <1>1 DEF ServedInv
<1>4. CASE e \in Persistent
  <2>1. thread' = thread /\ outbox' = outbox
    BY <1>4 DEF Return, TearDown
  <2> QED BY <1>1, <1>2, <2>1 DEF ServedInv, Placed
<1>5. CASE e \notin Persistent
  <2>1. thread' = Stopped(ref \cap {e}) /\ outbox' = Events({}, ref \cap {e})
    BY <1>5 DEF Return, TearDown
  <2>2. {} \subseteq resolved /\ \A x \in {} \cap Execs : outbox[x] # <<>>
    OBVIOUS
  <2> QED BY <1>1, <1>2, <1>3, <2>1, <2>2, StoppingServes
<1> QED BY <1>4, <1>5

LEMMA BridgeEndsServes ==
  ASSUME IInv, ServedInv, NEW e \in Execs, NEW with \in {"timeout", "rejected"},
         BridgeEnds(e, with)
  PROVE  ServedInv'
<1>1. /\ bridge' = [bridge EXCEPT ![e] = with]
      /\ UNCHANGED <<queueVars, callVars, thread, outbox, resuming>>
  BY DEF BridgeEnds
<1>2. bridge \in [Execs -> {"running", "exit0", "exit1", "timeout", "rejected"}]
  BY DEF IInv, NowCore, Core, Types
<1>3. Seen(bridge', promise, thread, outbox)
  BY <1>1, <1>2 DEF ServedInv, Seen
<1> QED BY <1>1, <1>3 DEF ServedInv, queueVars, callVars

LEMMA CloseSessionServes ==
  ASSUME IInv, ServedInv, NEW s \in Sessions, CloseSession(s) PROVE ServedInv'
<1>1. /\ thread' = Stopped({session[s]}) /\ outbox' = Events({}, {session[s]})
      /\ queue' = queue /\ isExecuting' = isExecuting /\ resolved' = resolved
      /\ bridge' = bridge /\ resuming' = resuming /\ canceled' = canceled
      /\ answer' = answer /\ promise' = promise
  BY DEF CloseSession, callVars
<1>2. {} \subseteq resolved /\ \A x \in {} \cap Execs : outbox[x] # <<>>
  OBVIOUS
<1>3. Timed(canceled', promise')
  BY <1>1 DEF ServedInv
<1> QED BY <1>1, <1>2, <1>3, StoppingServes

\* A worker says that it succeeded when the bridge has seen its exit code, and its exit
\* when it dies.
LEMMA BecomesServes ==
  ASSUME IInv, ServedInv, NEW e \in Execs, NEW state \in Live \cup {"dead"},
         NEW events \in Seq(Names), thread[e] \in Live,
         state = "dead" => \E n \in 1..Len(events) : events[n] = "exit",
         state = "exited" \/ (\E n \in 1..Len(events) : events[n] = "success") =>
           bridge'[e] # "running",
         \A x \in Execs : bridge[x] # "running" => bridge'[x] # "running",
         Becomes(e, state, events)
  PROVE  ServedInv'
<1> DEFINE out == outbox[e] \o events
<1>1. /\ thread' = [thread EXCEPT ![e] = state] /\ outbox' = [outbox EXCEPT ![e] = out]
      /\ UNCHANGED <<queueVars, callVars, resuming>>
  BY DEF Becomes
<1>2. /\ thread \in [Execs -> Live \cup {"none", "dead"}] /\ thread[e] \notin {"none", "dead"}
      /\ outbox \in [Execs -> Seq(Names)] /\ state # "none"
  BY TypesNow DEF IInv, Reports, Live
<1>3. /\ thread'[e] = state /\ outbox'[e] = out
      /\ \A d \in Execs : d # e => thread'[d] = thread[d] /\ outbox'[d] = outbox[d]
  BY <1>1, <1>2
<1>4. /\ Len(out) = Len(outbox[e]) + Len(events)
      /\ Len(outbox[e]) \in Nat /\ Len(events) \in Nat
      /\ \A i \in 1..Len(outbox[e]) + Len(events) :
           out[i] = IF i <= Len(outbox[e]) THEN outbox[e][i] ELSE events[i - Len(outbox[e])]
  BY <1>2, ConcatProperties, LenProperties
<1> HIDE DEF out
<1>5. \A x \in Open(resolved, thread') : x \in Open(resolved, thread)
  BY <1>2, <1>3 DEF Open
<1>6. Open(resolved, thread) \subseteq Open(resolved, thread')
  BY <1>2, <1>3 DEF Open
<1>7. Placed(queue', resolved', promise', answer', thread') /\ Busy(isExecuting', resolved', thread')
  BY <1>1, <1>6 DEF ServedInv, Placed, Busy, queueVars, callVars
<1>8. Heard(resolved', thread', outbox')
  <2>1. SUFFICES ASSUME NEW d \in Open(resolved, thread), thread'[d] = "dead"
                 PROVE  Told(outbox', d, "exit")
    BY <1>1, <1>5 DEF Heard, callVars
  <2>2. CASE d = e
    <3>1. PICK n \in 1..Len(events) : events[n] = "exit"
      BY <1>3, <2>1, <2>2
    <3>2. Len(outbox[e]) + n \in 1..Len(outbox[e]) + Len(events)
      BY <1>4
    <3>3. (Len(outbox[e]) + n) - Len(outbox[e]) = n /\ ~(Len(outbox[e]) + n <= Len(outbox[e]))
      BY <1>4
    <3>4. out[Len(outbox[e]) + n] = "exit"
      BY <1>4, <3>1, <3>2, <3>3
    <3> QED BY <1>3, <1>4, <2>2, <3>2, <3>4 DEF Told
  <2>3. CASE d # e
    BY <1>3, <2>1, <2>3 DEF ServedInv, Heard, Open, Told
  <2> QED BY <2>2, <2>3
<1>9. Seen(bridge', promise', thread', outbox')
  <2>1. SUFFICES ASSUME NEW x \in Execs,
                        promise[x] = "success" \/ thread'[x] = "exited" \/ Told(outbox', x, "success")
                 PROVE  bridge'[x] # "running"
    BY <1>1 DEF Seen, callVars
  <2>2. CASE x # e
    BY <1>3, <2>1, <2>2 DEF ServedInv, Seen, Told
  <2>3. CASE x = e /\ Told(outbox', x, "success")
    <3>1. PICK n \in 1..Len(out) : out[n] = "success"
      BY <1>3, <2>3 DEF Told
    <3>2. CASE n <= Len(outbox[e])
      <4>1. n \in 1..Len(outbox[e]) /\ outbox[e][n] = "success"
        BY <1>4, <3>1, <3>2
      <4> QED BY <2>3, <4>1 DEF ServedInv, Seen, Told
    <3>3. CASE ~(n <= Len(outbox[e]))
      <4>1. n - Len(outbox[e]) \in 1..Len(events) /\ out[n] = events[n - Len(outbox[e])]
        BY <1>4, <3>3
      <4> QED BY <2>3, <3>1, <4>1
    <3> QED BY <3>2, <3>3
  <2>4. CASE x = e /\ (promise[x] = "success" \/ thread'[x] = "exited")
    BY <1>3, <2>4 DEF ServedInv, Seen
  <2> QED BY <2>1, <2>2, <2>3, <2>4
<1>10. Timed(canceled', promise')
  BY <1>1 DEF ServedInv, callVars
<1>11. Ended(resuming', thread')
  BY <1>1, <1>2, <1>3 DEF ServedInv, Ended, IInv, NowCore, Core, Types
<1> QED BY <1>7, <1>8, <1>9, <1>10, <1>11 DEF ServedInv

LEMMA WorkerStepServes ==
  ASSUME IInv, ServedInv, NEW e \in Execs, WorkerStep(e) PROVE ServedInv'
<1>1. bridge \in [Execs -> {"running", "exit0", "exit1", "timeout", "rejected"}]
  BY DEF IInv, NowCore, Core, Types
<1>2. /\ <<>> \in Seq(Names) /\ <<"success">> \in Seq(Names) /\ <<"failure">> \in Seq(Names)
      /\ <<"exit">> \in Seq(Names) /\ <<"error", "exit">> \in Seq(Names)
      /\ Len(<<>>) = 0
  BY EmptySeq DEF Names
<1>3. ASSUME NEW code \in {"exit0", "exit1"}, ProgramExits(e, code) PROVE ServedInv'
  <2>1. /\ thread[e] = "running" /\ bridge[e] = "running"
        /\ bridge' = [bridge EXCEPT ![e] = code] /\ Becomes(e, "exited", <<>>)
    BY <1>3 DEF ProgramExits
  <2>2. /\ bridge'[e] # "running"
        /\ \A x \in Execs : bridge[x] # "running" => bridge'[x] # "running"
    BY <1>1, <2>1
  <2>3. "exited" \in Live \cup {"dead"} /\ thread[e] \in Live /\ "exited" # "dead"
    BY <2>1 DEF Live
  <2> QED BY <1>2, <2>1, <2>2, <2>3, BecomesServes
<1>4. ASSUME UNCHANGED bridge, NEW state \in {"running", "posted"},
             NEW event \in {"success", "failure"}, thread[e] \in Live,
             event = "success" => bridge[e] # "running", Becomes(e, state, <<event>>)
      PROVE  ServedInv'
  <2>1. /\ <<event>> \in Seq(Names) /\ Len(<<event>>) = 1 /\ <<event>>[1] = event
    BY <1>4, <1>2
  <2>2. state \in Live \cup {"dead"} /\ state # "dead" /\ state # "exited"
    BY <1>4 DEF Live
  <2>3. (\E n \in 1..Len(<<event>>) : <<event>>[n] = "success") => bridge'[e] # "running"
    BY <1>4, <2>1
  <2>4. \A x \in Execs : bridge[x] # "running" => bridge'[x] # "running"
    BY <1>4
  <2> QED BY <1>4, <2>1, <2>2, <2>3, <2>4, BecomesServes
<1>5. ASSUME UNCHANGED bridge, NEW events \in {<<"exit">>, <<"error", "exit">>},
             thread[e] \in Live, Becomes(e, "dead", events)
      PROVE  ServedInv'
  <2>1. events \in Seq(Names) /\ "dead" \in Live \cup {"dead"} /\ "dead" # "exited"
    BY <1>2, <1>5
  <2>2. /\ \E n \in 1..Len(events) : events[n] = "exit"
        /\ ~\E n \in 1..Len(events) : events[n] = "success"
    <3>1. CASE events = <<"exit">>
      <4>1. Len(events) = 1 /\ events[1] = "exit"
        BY <3>1
      <4> QED BY <4>1
    <3>2. CASE events = <<"error", "exit">>
      <4>1. Len(events) = 2 /\ events[1] = "error" /\ events[2] = "exit"
        BY <3>2
      <4> QED BY <4>1
    <3> QED BY <1>5, <3>1, <3>2
  <2>3. \A x \in Execs : bridge[x] # "running" => bridge'[x] # "running"
    BY <1>5
  <2> QED BY <1>5, <2>1, <2>2, <2>3, BecomesServes
<1>6. ASSUME Worker(e) PROVE ServedInv'
  <2>1. CASE thread[e] = "exited" /\ Becomes(e, "posted", <<"success">>)
    <3>1. UNCHANGED bridge /\ thread[e] \in Live
      BY <1>6, <2>1 DEF Worker, Live
    <3>2. bridge[e] # "running"
      BY <2>1 DEF ServedInv, Seen
    <3> QED BY <2>1, <3>1, <3>2, <1>4
  <2>2. CASE thread[e] = "running" /\ Becomes(e, "running", <<"failure">>)
    <3>1. UNCHANGED bridge /\ thread[e] \in Live
      BY <1>6, <2>2 DEF Worker, Live
    <3> QED BY <2>2, <3>1, <1>4
  <2>3. CASE thread[e] = "posted" /\ Becomes(e, "dead", <<"exit">>)
    <3>1. UNCHANGED bridge /\ thread[e] \in Live
      BY <1>6, <2>3 DEF Worker, Live
    <3> QED BY <2>3, <3>1, <1>5
  <2>4. CASE thread[e] = "running" /\ Becomes(e, "posted", <<"failure">>)
    <3>1. UNCHANGED bridge /\ thread[e] \in Live
      BY <1>6, <2>4 DEF Worker, Live
    <3> QED BY <2>4, <3>1, <1>4
  <2>5. CASE thread[e] \in Live /\ \E last \in {<<"exit">>, <<"error", "exit">>} :
                                      Becomes(e, "dead", last)
    <3>1. UNCHANGED bridge
      BY <1>6 DEF Worker
    <3> QED BY <2>5, <3>1, <1>5
  <2> QED BY <1>6, <2>1, <2>2, <2>3, <2>4, <2>5 DEF Worker
<1> QED BY <1>3, <1>6 DEF WorkerStep

LEMMA InitServed == Init => ServedInv
<1> SUFFICES ASSUME Init PROVE ServedInv
  OBVIOUS
<1>1. Placed(queue, resolved, promise, answer, thread)
  BY DEF Init, Placed
<1>2. Busy(isExecuting, resolved, thread) /\ Heard(resolved, thread, outbox)
  BY DEF Init, Busy, Heard, Open
<1>3. Seen(bridge, promise, thread, outbox)
  BY EmptySeq DEF Init, Seen, Told
<1> QED BY <1>1, <1>2, <1>3 DEF Init, ServedInv, Timed, Ended

LEMMA ServedStep == IInv /\ ServedInv /\ [Next]_vars => ServedInv'
<1> SUFFICES ASSUME IInv, ServedInv, [Next]_vars PROVE ServedInv'
  OBVIOUS
<1>1. ASSUME NEW e \in Execs, ExecutePython(e) PROVE ServedInv'
  BY <1>1, ExecuteServes
<1>2. ASSUME NEW e \in Execs, OnTimeout(e) PROVE ServedInv'
  BY <1>2, OnTimeoutServes
<1>3. ASSUME NEW e \in Execs, Handle(e) PROVE ServedInv'
  BY <1>3, HandleServes
<1>4. ASSUME NEW e \in Execs, Return(e) PROVE ServedInv'
  BY <1>4, ReturnServes
<1>5. ASSUME NEW e \in Execs, NEW with \in {"timeout", "rejected"}, BridgeEnds(e, with)
      PROVE  ServedInv'
  BY <1>5, BridgeEndsServes
<1>6. ASSUME NEW e \in Execs, WorkerStep(e) PROVE ServedInv'
  BY <1>6, WorkerStepServes
<1>7. ASSUME NEW s \in Sessions, CloseSession(s) PROVE ServedInv'
  BY <1>7, CloseSessionServes
<1>8. CASE UNCHANGED vars
  BY <1>8 DEF vars, queueVars, callVars, ServedInv
<1> QED BY <1>1, <1>2, <1>3, <1>4, <1>5, <1>6, <1>7, <1>8 DEF Next

\* An execution without a result whose worker is alive, or whose exit has still to be
\* handled.
Attended(e) == e \in Open(resolved, thread) /\ (thread[e] \in Live \/ Told(outbox, e, "exit"))

\* What an entry of the queue of f waits for: the end of another execution, or a handler
\* that has terminated its worker and goes on with the queue.
Moves(f) ==
  \E d \in Execs : FsOf[d] = f /\ (Attended(d) \/ (d \in resuming /\ thread[d] = "dead"))

NobodyIsLeft ==
  \A e \in Execs : answer[e] = "pending" =>
    /\ promise[e] = "pending" =>
         Attended(e) \/ (InLine(queue[FsOf[e]], e) /\ Moves(FsOf[e]))
    /\ promise[e] = "success" => bridge[e] # "running"

(***************************************************************************)
(* A call that waits for its result is attended to, or it is in a queue    *)
(* that goes on: an execution of the same filesystem is attended to, or a  *)
(* handler resumes.  And whoever has the worker's success has the exit     *)
(* code of the bridge, so the call returns.  No call is left to its timer, *)
(* whatever dies, is terminated or shares a session.                       *)
(***************************************************************************)
THEOREM EveryCallIsServed == Spec => []NobodyIsLeft
<1>1. IInv /\ ServedInv => NobodyIsLeft
  <2> SUFFICES ASSUME IInv, ServedInv, NEW e \in Execs, answer[e] = "pending"
               PROVE  /\ promise[e] = "pending" =>
                           Attended(e) \/ (InLine(queue[FsOf[e]], e) /\ Moves(FsOf[e]))
                      /\ promise[e] = "success" => bridge[e] # "running"
    BY DEF NobodyIsLeft
  <2> DEFINE f == FsOf[e]
  <2>1. f \in Filesystems
    BY PyQueueAssumption
  <2>2. \A d \in Open(resolved, thread) : Attended(d)
    BY TypesNow DEF Attended, ServedInv, Heard, Open
  <2>3. ASSUME promise[e] = "pending", e \notin Open(resolved, thread)
        PROVE  InLine(queue[f], e) /\ Moves(f)
    <3>1. InLine(queue[f], e)
      BY <2>3 DEF ServedInv, Placed
    <3>2. CASE isExecuting[f] = TRUE
      <4>1. PICK d \in Open(resolved, thread) : FsOf[d] = f
        BY <2>1, <3>2 DEF ServedInv, Busy
      <4>2. d \in Execs /\ Attended(d)
        BY <2>2 DEF Open
      <4> QED BY <3>1, <4>1, <4>2 DEF Moves
    <3>3. CASE ~isExecuting[f]
      <4>1. e \notin canceled
        BY <2>3 DEF ServedInv, Timed
      <4>2. PICK d \in resuming : FsOf[d] = f
        BY <2>1, <3>1, <3>3, <4>1 DEF IInv, Awake, InLine
      <4>3. d \in Execs /\ thread[d] = "dead"
        BY TypesNow DEF ServedInv, Ended, IInv, NowCore, Core, Types
      <4> QED BY <3>1, <4>2, <4>3 DEF Moves
    <3>4. isExecuting[f] \in BOOLEAN
      BY <2>1 DEF IInv, NowCore, Core, Types
    <3> QED BY <3>2, <3>3, <3>4
  <2> QED BY <2>2, <2>3 DEF ServedInv, Seen
<1>2. Init => IInv /\ ServedInv
  BY InitInv, InitServed
<1>3. IInv /\ ServedInv /\ [Next]_vars => IInv' /\ ServedInv'
  BY Inductive, ServedStep
<1> QED BY <1>1, <1>2, <1>3, PTL DEF Spec
=============================================================================
