----------------------------- MODULE JsExecQueue -----------------------------
(***************************************************************************)
(* The queue of JavaScript executions of js-exec, shared by every Bash of  *)
(* the process (packages/bash/src/commands/js-exec/js-exec.ts): one worker *)
(* thread runs them one at a time, each call has a timer of its own, and   *)
(* the thread that has run nothing for a while is terminated.  A call with *)
(* --session runs in the worker of its session (SessionManager.ts).        *)
(*                                                                         *)
(* The main thread handles one event at a time, so a handler is one        *)
(* action; between two of them every worker may run, post a message, die   *)
(* or be terminated.  A worker is named after the execution for which it   *)
(* was created.                                                            *)
(*                                                                         *)
(* A definition whose name adds a fault to that of the next one is its     *)
(* mutant: no action uses it.                                              *)
(***************************************************************************)
EXTENDS Naturals, Sequences

CONSTANTS
  Execs,      \* calls of js-exec that reach the queue
  Sessions,   \* values of --session
  SessionOf,  \* the session of each call, or None
  None

ASSUME JsExecAssumption ==
  /\ None \notin Execs \cup Sessions
  /\ SessionOf \in [Execs -> Sessions \cup {None}]
  /\ {"error", "exit"} \cap Execs = {}

Workers == Execs

VARIABLES
  queue,    \* executionQueue
  current,  \* currentExecution
  shared,   \* sharedWorker
  session,  \* the worker of each session id in the SessionManager
  idle,     \* whether the idle timer, workerIdleTimeout, is running
  canceled, \* executions with .canceled
  answer,   \* what each call was told ("pending": its timer is running)
  created,  \* workers that were created
  dead,     \* workers that exited or were terminated
  inbox,    \* executions posted to each worker and not finished by it
  outbox    \* events of each worker that the main thread has not handled

mainVars   == <<queue, current, shared, session, idle, canceled, answer>>
workerVars == <<created, dead, inbox, outbox>>
vars       == <<mainVars, workerVars>>

Up == created \ dead
Executing == {e \in Execs : \E w \in Up : e \in inbox[w]}

Answers == {"uncalled", "pending", "result", "malformed", "crashed", "timeout"}

TypeOK ==
  /\ queue \in Seq(Execs)
  /\ current \in Execs \cup {None}
  /\ shared \in Workers \cup {None}
  /\ session \in [Sessions -> Workers \cup {None}]
  /\ idle \in BOOLEAN
  /\ canceled \subseteq Execs
  /\ answer \in [Execs -> Answers]
  /\ created \subseteq Workers /\ dead \subseteq created
  /\ inbox \in [Workers -> SUBSET Execs]
  /\ outbox \in [Workers -> Seq(Execs \cup {"error", "exit"})]

Init ==
  /\ queue = <<>> /\ current = None /\ shared = None
  /\ session = [s \in Sessions |-> None]
  /\ idle = FALSE /\ canceled = {}
  /\ answer = [e \in Execs |-> "uncalled"]
  /\ created = {} /\ dead = {}
  /\ inbox = [w \in Workers |-> {}]
  /\ outbox = [w \in Workers |-> <<>>]

-----------------------------------------------------------------------------
(***************************************************************************)
(* What the handlers are made of.                                          *)
(***************************************************************************)
\* resolve(): only the first answer counts.
Resolved(S, with) ==
  [e \in Execs |-> IF e \in S /\ answer[e] = "pending" THEN with ELSE answer[e]]

\* getOrCreateWorker, for execution e and the shared worker sh.
WorkerForAlwaysNew(e, sh) == e

WorkerFor(e, sh) ==
  LET known == IF SessionOf[e] = None THEN sh ELSE session[SessionOf[e]]
  IN  IF known = None THEN e ELSE known

\* The first n executions of q are canceled, and the next one, if any, is not.
Skips(q, n) ==
  /\ \A i \in 1..n : q[i] \in canceled'
  /\ n < Len(q) => q[n + 1] \notin canceled'

(***************************************************************************)
(* processNextExecution, called by a handler that has made the queue q,    *)
(* the current execution cur and the shared worker sh.  It posts the next  *)
(* execution to the worker for it.                                         *)
(***************************************************************************)
Idles(q, cur, sh) ==
  /\ queue' = q /\ current' = cur /\ shared' = sh
  /\ UNCHANGED <<session, created, inbox>>

Dispatch(q, sh) ==
  LET e == Head(q)
      w == WorkerFor(e, sh)
  IN  /\ queue' = Tail(q)
      /\ current' = e
      /\ shared' = IF SessionOf[e] = None THEN w ELSE sh
      /\ session' = IF SessionOf[e] = None THEN session
                      ELSE [session EXCEPT ![SessionOf[e]] = w]
      /\ idle' = (idle /\ SessionOf[e] # None)
      /\ created' = created \cup {w}
      /\ inbox' = [inbox EXCEPT ![w] = @ \cup {e}]

ProcessNext(q, cur, sh) ==
  \E n \in 0..Len(q) :
    /\ Skips(q, n)
    /\ LET rest == SubSeq(q, n + 1, Len(q))
       IN  IF cur # None \/ rest = <<>>
             THEN Idles(rest, cur, sh) /\ UNCHANGED idle
             ELSE Dispatch(rest, sh)

\* worker.terminate() of the workers in W; their "exit" comes later.
Terminate(W) ==
  /\ dead' = dead \cup W
  /\ outbox' = [w \in Workers |-> IF w \in W \ dead THEN Append(outbox[w], "exit")
                                                    ELSE outbox[w]]

-----------------------------------------------------------------------------
(***************************************************************************)
(* A call of js-exec starts its timer and joins the queue.                 *)
(***************************************************************************)
Enqueue(e) ==
  /\ answer[e] = "uncalled"
  /\ answer' = [answer EXCEPT ![e] = "pending"]
  /\ UNCHANGED <<canceled, dead, outbox>>
  /\ ProcessNext(Append(queue, e), current, shared)

(***************************************************************************)
(* The timer of a call: a current execution loses the shared worker, a     *)
(* queued one is left in the queue as canceled.                            *)
(***************************************************************************)
TimeoutLeavesWorker(e) ==
  /\ answer[e] = "pending"
  /\ answer' = Resolved({e}, "timeout")
  /\ UNCHANGED <<dead, outbox>>
  /\ IF current = e
       THEN UNCHANGED canceled /\ ProcessNext(queue, None, None)
       ELSE canceled' = canceled \cup {e} /\ ProcessNext(queue, current, shared)

TimeoutForgetsQueue(e) ==
  /\ answer[e] = "pending"
  /\ answer' = Resolved({e}, "timeout")
  /\ UNCHANGED idle
  /\ IF current = e
       THEN /\ Terminate({shared} \ {None})
            /\ UNCHANGED canceled
            /\ Idles(queue, None, None)
       ELSE /\ canceled' = canceled \cup {e}
            /\ UNCHANGED <<dead, outbox>>
            /\ Idles(queue, current, shared)

Timeout(e) ==
  /\ answer[e] = "pending"
  /\ answer' = Resolved({e}, "timeout")
  /\ IF current = e
       THEN /\ Terminate({shared} \ {None})
            /\ UNCHANGED canceled
            /\ ProcessNext(queue, None, None)
       ELSE /\ canceled' = canceled \cup {e}
            /\ UNCHANGED <<dead, outbox>>
            /\ IF current = None
                 THEN ProcessNext(queue, current, shared)
                 ELSE Idles(queue, current, shared) /\ UNCHANGED idle

(***************************************************************************)
(* The timer that scheduleWorkerTermination starts.                        *)
(***************************************************************************)
IdleTimeout ==
  /\ idle
  /\ idle' = FALSE
  /\ IF shared # None /\ current = None /\ queue = <<>>
       THEN shared' = None /\ Terminate({shared})
       ELSE UNCHANGED <<shared, dead, outbox>>
  /\ UNCHANGED <<queue, current, session, canceled, answer, created, inbox>>

\* Bash.closeSession.
CloseSession(s) ==
  /\ session[s] # None
  /\ Terminate({session[s]})
  /\ session' = [session EXCEPT ![s] = None]
  /\ UNCHANGED <<queue, current, shared, idle, canceled, answer, created, inbox>>

-----------------------------------------------------------------------------
(***************************************************************************)
(* The events of worker w.  The handlers ignore a worker that is not the   *)
(* shared one.  A message carries the token of the execution it answers.   *)
(***************************************************************************)
IgnoredNever(w) == FALSE
Ignored(w) == shared # w

Taken(w) == outbox' = [outbox EXCEPT ![w] = Tail(@)]

IgnoreEvent(w) ==
  /\ outbox[w] # <<>>
  /\ Ignored(w)
  /\ Taken(w)
  /\ UNCHANGED <<mainVars, created, dead, inbox>>

OnMessage(w) ==
  /\ outbox[w] # <<>>
  /\ Head(outbox[w]) \in Execs
  /\ ~Ignored(w)
  /\ Taken(w)
  /\ answer' = Resolved({current}, IF Head(outbox[w]) = current THEN "result"
                                                                ELSE "malformed")
  /\ UNCHANGED <<canceled, dead>>
  /\ IF queue # <<>>
       THEN ProcessNext(queue, None, shared)
       ELSE idle' = TRUE /\ Idles(queue, None, shared)

OnErrorDropsQueue(w) ==
  /\ outbox[w] # <<>>
  /\ Head(outbox[w]) = "error"
  /\ ~Ignored(w)
  /\ Taken(w)
  /\ answer' = Resolved({current}, "crashed")
  /\ Idles(<<>>, None, None)
  /\ UNCHANGED <<idle, canceled, dead>>

OnError(w) ==
  /\ outbox[w] # <<>>
  /\ Head(outbox[w]) = "error"
  /\ ~Ignored(w)
  /\ Taken(w)
  /\ answer' = Resolved({current} \cup {queue[i] : i \in 1..Len(queue)}, "crashed")
  /\ Idles(<<>>, None, None)
  /\ UNCHANGED <<idle, canceled, dead>>

OnExit(w) ==
  /\ outbox[w] # <<>>
  /\ Head(outbox[w]) = "exit"
  /\ ~Ignored(w)
  /\ Taken(w)
  /\ answer' = Resolved({current}, "crashed")
  /\ UNCHANGED <<canceled, dead>>
  /\ ProcessNext(queue, None, None)

Deliver(w) == IgnoreEvent(w) \/ OnMessage(w) \/ OnError(w) \/ OnExit(w)

-----------------------------------------------------------------------------
(***************************************************************************)
(* A worker thread answers each input posted to it, or dies: of an         *)
(* uncaught exception ("exit") or of an error that the runtime reports     *)
(* ("error", then "exit").  Its initialization is taken to succeed.        *)
(***************************************************************************)
Finish(w, e) ==
  /\ w \in Up
  /\ e \in inbox[w]
  /\ inbox' = [inbox EXCEPT ![w] = @ \ {e}]
  /\ outbox' = [outbox EXCEPT ![w] = Append(@, e)]
  /\ UNCHANGED <<mainVars, created, dead>>

Die(w, events) ==
  /\ w \in Up
  /\ dead' = dead \cup {w}
  /\ outbox' = [outbox EXCEPT ![w] = @ \o events]
  /\ UNCHANGED <<mainVars, created, inbox>>

WorkerStep(w) ==
  \/ \E e \in Execs : Finish(w, e)
  \/ \E events \in {<<"exit">>, <<"error", "exit">>} : Die(w, events)

Next ==
  \/ \E e \in Execs : Enqueue(e) \/ Timeout(e)
  \/ IdleTimeout
  \/ \E s \in Sessions : CloseSession(s)
  \/ \E w \in Workers : Deliver(w) \/ WorkerStep(w)

Spec == Init /\ [][Next]_vars

(***************************************************************************)
(* The main thread handles every event, the idle timer fires, and a worker *)
(* that was given an execution ends it (the interrupt handler of QuickJS   *)
(* and the deadline of the bridge see to that) or dies.  The timer of a    *)
(* call is assumed to fire only if the call has a session.                 *)
(***************************************************************************)
FairSpec ==
  /\ Spec
  /\ \A w \in Workers :
       /\ WF_vars(Deliver(w))
       /\ WF_vars(inbox[w] # {} /\ WorkerStep(w))
  /\ \A e \in Execs : SessionOf[e] # None => WF_vars(Timeout(e))
  /\ WF_vars(IdleTimeout)

-----------------------------------------------------------------------------
(***************************************************************************)
(* Properties.                                                             *)
(***************************************************************************)

(***************************************************************************)
(* No lost wakeup: whatever handler ran last, nothing that can still run   *)
(* is in the queue while no execution is current (the calls of             *)
(* processNextExecution in every handler).                                 *)
(***************************************************************************)
NoLostWakeup ==
  current = None => \A i \in 1..Len(queue) : queue[i] \in canceled

(***************************************************************************)
(* QuickJS runs one execution at a time, and none whose caller has had its *)
(* answer: what the live workers execute for calls without a session is    *)
(* the current execution or nothing, through timeouts, crashes and late    *)
(* events.                                                                 *)
(***************************************************************************)
Sessionless == {e \in Execs : SessionOf[e] = None}

Serialized == Executing \cap Sessionless \subseteq {current}

(***************************************************************************)
(* No worker thread is lost: a live one is the shared worker or that of a  *)
(* session, so that the idle timer or closeSession() can terminate it.     *)
(***************************************************************************)
NoStrayWorker ==
  Up \subseteq {shared} \cup {session[s] : s \in Sessions}

(***************************************************************************)
(* The events of a worker that was given up never reach the execution that *)
(* came after: no execution is answered with the message of another one.   *)
(***************************************************************************)
NoForeignAnswer == \A e \in Execs : answer[e] # "malformed"

(***************************************************************************)
(* The calls are served in turn: between two handlers the current call is  *)
(* the first of those without an answer, in the order of the calls, and a  *)
(* result or a crash is told to no other, whatever workers were given up,  *)
(* timed out, superseded or lost meanwhile.                                *)
(***************************************************************************)
Before(q, cur, d, e) ==
  \/ d = cur /\ e # cur
  \/ \E i, j \in 1..Len(q) : i < j /\ q[i] = d /\ q[j] = e

\* Who waits before each call.
Line(q, cur, ans) ==
  [e \in Execs |-> {d \in Execs : /\ ans[d] = "pending" /\ ans[e] = "pending"
                                  /\ Before(q, cur, d, e)}]

Turns == INSTANCE CallsInTurn WITH ahead <- Line(queue, current, answer)
ImplementsTurns == Turns!Spec

(***************************************************************************)
(* When the result of the current execution reaches the main thread, its   *)
(* caller gets it: it is not left to wait for its timer.  Found to be      *)
(* violated by the calls with --session.                                   *)
(***************************************************************************)
Delivers(e) ==
  \E w \in Workers : outbox[w] # <<>> /\ Head(outbox[w]) = e /\ Taken(w)

SessionResultReachesCaller ==
  [][\A e \in Execs : Delivers(e) /\ current = e => answer'[e] = "result"]_vars

(***************************************************************************)
(* Every call is answered, even if the timers of the calls without a       *)
(* session never fire: the handlers of a result and of a dead worker leave *)
(* nobody waiting.                                                         *)
(***************************************************************************)
EveryCallAnswered ==
  \A e \in Execs : answer[e] = "pending" ~> answer[e] # "pending"

=============================================================================
