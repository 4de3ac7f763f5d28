------------------------------- MODULE PyQueue -------------------------------
(***************************************************************************)
(* Executions of python3 (packages/bash/src/commands/python3/python3.ts):  *)
(* a queue for each filesystem, a worker thread for each execution, a      *)
(* bridge that serves its system calls and sees its exit code, a timer     *)
(* that counts from the call on, and the reconciliation of what the three  *)
(* report.  CPython ends its thread by itself; the worker of a call with   *)
(* --session is merely remembered for closeSession.                        *)
(*                                                                         *)
(* The main thread handles one event at a time; between two of them every  *)
(* worker may go on, post, die or be terminated.  A worker is named after  *)
(* its execution.                                                          *)
(*                                                                         *)
(* A definition whose name adds a fault to that of the next one (OnExit    *)
(* for the two before it) is its mutant: no action uses it.                *)
(***************************************************************************)
EXTENDS Naturals, Sequences

CONSTANTS
  Execs,        \* calls of python3
  Filesystems, FsOf,
  Sessions, SessionOf, \* the session of each call, or None
  Faults,       \* what may go wrong with each call: its worker cannot be created ("spawn")
                \* or dies, reports a violation while its program
                \* goes on, its bridge fails, or its deadline passes
  None

ASSUME PyQueueAssumption ==
  /\ None \notin Execs \cup Sessions
  /\ FsOf \in [Execs -> Filesystems]
  /\ SessionOf \in [Execs -> Sessions \cup {None}]
  /\ Faults \in [Execs -> SUBSET {"spawn", "death", "violation", "bridge", "deadline"}]

VARIABLES
  unspawnable,         \* calls whose worker cannot be created, once and for all
  queue, isExecuting,  \* QueueState, for each filesystem
  session,             \* the worker of each id in the SessionManager
  canceled, resolved,  \* flags of the entries of the queue
  ref,                 \* executions with a worker in workerRef.current
  terminateOnAttach,
  promise,             \* what workerPromise was resolved with
  answer,              \* what each call returned
  bridge,              \* what bridgeHandler.run returned
  thread,              \* each worker
  outbox,              \* its events that the main thread has not handled
  resuming             \* handlers that wait for terminate()

queueVars == <<unspawnable, queue, isExecuting, session>>
callVars  == <<canceled, resolved, ref, terminateOnAttach, promise, answer>>
vars == <<queueVars, callVars, bridge, thread, outbox, resuming>>

Persistent == {e \in Execs : SessionOf[e] # None}
Live       == {"running", "exited", "posted"}

TypeOK ==
  /\ queue \in [Filesystems -> Seq(Execs)] /\ isExecuting \in [Filesystems -> BOOLEAN]
  /\ session \in [Sessions -> Execs \cup {None}]
  /\ \A S \in {unspawnable, canceled, resolved, ref, terminateOnAttach, resuming} :
       S \subseteq Execs
  /\ promise \in [Execs -> {"pending", "success", "error", "deadline"}]
  /\ answer \in [Execs -> {"uncalled", "pending", "ok", "fail"}]
  /\ bridge \in [Execs -> {"running", "exit0", "exit1", "timeout", "rejected"}]
  /\ thread \in [Execs -> Live \cup {"none", "dead"}]
  /\ outbox \in [Execs -> Seq({"success", "failure", "error", "exit"})]
  /\ \A f \in Filesystems : \A i \in 1..Len(queue[f]) : thread[queue[f][i]] = "none"

Init ==
  /\ unspawnable \in SUBSET {e \in Execs : "spawn" \in Faults[e]}
  /\ queue = [f \in Filesystems |-> <<>>]
  /\ isExecuting = [f \in Filesystems |-> FALSE]
  /\ session = [s \in Sessions |-> None]
  /\ canceled = {} /\ resolved = {} /\ ref = {} /\ terminateOnAttach = {}
  /\ promise = [e \in Execs |-> "pending"]
  /\ answer = [e \in Execs |-> "uncalled"]
  /\ bridge = [e \in Execs |-> "running"]
  /\ thread = [e \in Execs |-> "none"]
  /\ outbox = [e \in Execs |-> <<>>]
  /\ resuming = {}

-----------------------------------------------------------------------------
(***************************************************************************)
(* What the handlers are made of.                                          *)
(***************************************************************************)
\* resolve() of the workerPromise: only the first result counts.
Resolved(p, S, with) ==
  [e \in Execs |-> IF e \in S /\ p[e] = "pending" THEN with ELSE p[e]]

\* worker.terminate() of the workers in W: those alive stop, and exit later.  The events
\* that the main thread takes are the first ones of the workers in T.
Stopped(W) == [e \in Execs |-> IF e \in W /\ thread[e] \in Live THEN "dead" ELSE thread[e]]
Events(T, W) ==
  [e \in Execs |-> (IF e \in T THEN Tail(outbox[e]) ELSE outbox[e])
                   \o (IF e \in W /\ thread[e] \in Live THEN <<"exit">> ELSE <<>>)]

\* Entries that processNextExecution is done with at once: canceled ones, and those
\* whose worker cannot be created or is terminated as soon as it is.
Passed(e) ==
  e \in canceled' \/ e \in unspawnable \/ e \in terminateOnAttach' \ Persistent

\* The first n entries of q are passed over, and the next one, if any, is not.
Passes(q, n) ==
  /\ \A i \in 1..n : Passed(q[i])
  /\ n < Len(q) => ~Passed(q[n + 1])

(***************************************************************************)
(* processNextExecution for filesystem f, called by a handler that took    *)
(* the events of T, set isExecuting to busy, and made the queue q, the     *)
(* promises p and the flags done: it starts the next execution with a      *)
(* worker of its own, and terminates the previous one of its session (of   *)
(* the session of an execution it fails to start, too).                    *)
(***************************************************************************)
Waits(f, q, busy, p, done, T, stale) ==
  /\ queue' = [queue EXCEPT ![f] = q] /\ isExecuting' = [isExecuting EXCEPT ![f] = busy]
  /\ promise' = p /\ resolved' = done
  /\ thread' = Stopped(stale) /\ outbox' = Events(T, stale)
  /\ UNCHANGED <<unspawnable, session, ref>>

Starts(f, q, p, done, T, stale) ==
  LET e == Head(q)
  IN  /\ queue' = [queue EXCEPT ![f] = Tail(q)]
      /\ isExecuting' = [isExecuting EXCEPT ![f] = TRUE]
      /\ promise' = p /\ resolved' = done
      /\ thread' = [Stopped(stale) EXCEPT ![e] = "running"] /\ outbox' = Events(T, stale)
      /\ ref' = ref \cup {e} /\ UNCHANGED unspawnable
      /\ session' = [s \in Sessions |-> IF s = SessionOf[e] THEN e ELSE session[s]]

\* The first n entries of q that are not canceled, and the workers of their sessions.
Tried(q, n) == {q[i] : i \in 1..n} \ canceled'
Stale(S)    == {session[SessionOf[e]] : e \in S \cap Persistent}

ProcessNextAnyway(f, q, busy, p, done, T) ==
  \E n \in 0..Len(q) :
    LET rest == SubSeq(q, n + 1, Len(q))
    IN  /\ Passes(q, n)
        /\ IF rest = <<>> THEN Waits(f, <<>>, FALSE, p, done, T, {})
           ELSE Starts(f, rest, p, done, T, Stale({Head(rest)}))
ProcessNext(f, q, busy, p, done, T) ==
  IF busy THEN Waits(f, q, TRUE, p, done, T, {})
  ELSE \E n \in 0..Len(q) :
    LET rest   == SubSeq(q, n + 1, Len(q))
        passed == Tried(q, n)
        failed == Resolved(p, passed, "error")
        told   == done \cup (passed \ unspawnable)
    IN  /\ Passes(q, n)
        /\ IF rest = <<>> THEN Waits(f, <<>>, FALSE, failed, told, T, Stale(passed))
           ELSE Starts(f, rest, failed, told, T, Stale(passed \cup {Head(rest)}))

\* The result of e is known, and the next execution may start.
GoesOn(e, result) ==
  ProcessNext(FsOf[e], queue[FsOf[e]], FALSE, Resolved(promise, {e}, result),
              resolved \cup {e}, {e})

-----------------------------------------------------------------------------
(***************************************************************************)
(* A call of python3 starts its bridge and its timer and joins the queue.  *)
(***************************************************************************)
ExecutePython(e) ==
  /\ answer[e] = "uncalled"
  /\ answer' = [answer EXCEPT ![e] = "pending"]
  /\ UNCHANGED <<canceled, terminateOnAttach, bridge, resuming>>
  /\ ProcessNext(FsOf[e], Append(queue[FsOf[e]], e), isExecuting[FsOf[e]], promise,
                 resolved, {})

\* The timer: an execution without a worker is canceled.
OnTimeoutKeepsEntry(e) ==
  /\ "deadline" \in Faults[e] /\ answer[e] # "uncalled" /\ promise[e] = "pending"
  /\ promise' = [promise EXCEPT ![e] = "deadline"]
  /\ thread' = Stopped(ref \cap {e}) /\ outbox' = Events({}, ref \cap {e})
  /\ UNCHANGED <<queueVars, canceled, resolved, ref, terminateOnAttach, answer, bridge, resuming>>
OnTimeout(e) ==
  /\ "deadline" \in Faults[e] /\ answer[e] # "uncalled" /\ promise[e] = "pending"
  /\ canceled' = canceled \cup ({e} \ ref)
  /\ promise' = [promise EXCEPT ![e] = "deadline"]
  /\ thread' = Stopped(ref \cap {e}) /\ outbox' = Events({}, ref \cap {e})
  /\ UNCHANGED <<queueVars, resolved, ref, terminateOnAttach, answer, bridge, resuming>>

-----------------------------------------------------------------------------
(***************************************************************************)
(* The events of worker e.                                                 *)
(***************************************************************************)
Event(e, names) == outbox[e] # <<>> /\ Head(outbox[e]) \in names
Taken(e) == outbox' = Events({e}, {})

\* The queue is free as soon as the result is known, but the next execution starts when
\* the worker has been terminated, unless a call starts it before.
Settles(e, result) ==
  /\ UNCHANGED <<unspawnable, queue, session, canceled, ref, terminateOnAttach, answer, bridge>>
  /\ resolved' = resolved \cup {e}
  /\ promise' = Resolved(promise, {e}, result)
  /\ isExecuting' = [isExecuting EXCEPT ![FsOf[e]] = FALSE]
  /\ thread' = Stopped({e}) /\ outbox' = Events({e}, {e})
  /\ resuming' = resuming \cup {e}

Result(m) == IF m = "success" THEN m ELSE "error"
OnMessageForgetsQueue(e) ==
  /\ Event(e, {"success", "failure"}) /\ e \notin resolved
  /\ UNCHANGED <<unspawnable, queue, session, canceled, ref, terminateOnAttach, answer, bridge,
                 resuming, thread>>
  /\ resolved' = resolved \cup {e}
  /\ promise' = Resolved(promise, {e}, Result(Head(outbox[e])))
  /\ isExecuting' = [isExecuting EXCEPT ![FsOf[e]] = FALSE]
  /\ Taken(e)
OnMessage(e) ==
  /\ Event(e, {"success", "failure"}) /\ e \notin resolved
  /\ IF e \in Persistent
     THEN /\ UNCHANGED <<canceled, terminateOnAttach, answer, bridge, resuming>>
          /\ GoesOn(e, Result(Head(outbox[e])))
     ELSE Settles(e, Result(Head(outbox[e])))
OnError(e) == Event(e, {"error"}) /\ e \notin resolved /\ Settles(e, "error")

\* An exit without a result frees the queue.
OnExitIgnored(e) ==
  /\ Event(e, {"exit"}) /\ Taken(e)
  /\ UNCHANGED <<queueVars, callVars, bridge, thread, resuming>>
OnExitOfAny(e) ==
  /\ Event(e, {"exit"})
  /\ UNCHANGED <<canceled, terminateOnAttach, answer, bridge, resuming>>
  /\ GoesOn(e, "error")
OnExit(e) ==
  /\ Event(e, {"exit"})
  /\ UNCHANGED <<canceled, terminateOnAttach, answer, bridge, resuming>>
  /\ IF isExecuting[FsOf[e]] /\ e \notin resolved
     THEN GoesOn(e, "error")
     ELSE UNCHANGED <<queueVars, ref, promise, resolved, thread>> /\ Taken(e)
Ignore(e) ==
  /\ Event(e, {"success", "failure", "error"}) /\ e \in resolved /\ Taken(e)
  /\ UNCHANGED <<queueVars, callVars, bridge, thread, resuming>>

\* processNextExecution behind await w.terminate().
Resume(e) ==
  /\ e \in resuming /\ thread[e] = "dead"
  /\ resuming' = resuming \ {e}
  /\ UNCHANGED <<canceled, terminateOnAttach, answer, bridge>>
  /\ ProcessNext(FsOf[e], queue[FsOf[e]], isExecuting[FsOf[e]], promise, resolved, {})

-----------------------------------------------------------------------------
(***************************************************************************)
(* The call returns: the bridge is believed if the worker succeeded, and   *)
(* against a timer that fired when the program had ended well.             *)
(***************************************************************************)
Over(e) == bridge[e] \in {"exit0", "exit1", "timeout"}
Outcome(e) ==
  IF /\ bridge[e] = "exit0"
     /\ promise[e] = "success" \/ (promise[e] = "deadline" /\ e \notin canceled)
  THEN "ok" ELSE "fail"
\* finally: a worker that is not of a session is terminated now, or when it is created.
TearDownAttached(e) ==
  IF e \in Persistent THEN UNCHANGED <<ref, terminateOnAttach, thread, outbox>>
  ELSE /\ ref' = ref \ {e} /\ thread' = Stopped(ref \cap {e})
       /\ outbox' = Events({}, ref \cap {e})
       /\ UNCHANGED terminateOnAttach
TearDown(e) ==
  IF e \in Persistent THEN UNCHANGED <<ref, terminateOnAttach, thread, outbox>>
  ELSE /\ ref' = ref \ {e} /\ thread' = Stopped(ref \cap {e})
       /\ outbox' = Events({}, ref \cap {e})
       /\ terminateOnAttach' = terminateOnAttach \cup ({e} \ ref)

Return(e) ==
  /\ answer[e] = "pending"
  /\ \/ promise[e] = "success" /\ Over(e)
     \/ promise[e] = "deadline" /\ (Over(e) \/ e \in canceled)
     \/ promise[e] = "error"
     \/ bridge[e] = "rejected"
  /\ answer' = [answer EXCEPT ![e] = Outcome(e)]
  /\ TearDown(e)
  /\ UNCHANGED <<queueVars, canceled, resolved, promise, bridge, resuming>>

BridgeEnds(e, with) ==
  /\ IF with = "rejected" THEN "bridge" \in Faults[e] ELSE "deadline" \in Faults[e]
  /\ answer[e] = "pending" /\ bridge[e] = "running"
  /\ bridge' = [bridge EXCEPT ![e] = with]
  /\ UNCHANGED <<queueVars, callVars, thread, outbox, resuming>>

CloseSession(s) ==
  /\ session[s] # None
  /\ session' = [session EXCEPT ![s] = None]
  /\ thread' = Stopped({session[s]}) /\ outbox' = Events({}, {session[s]})
  /\ UNCHANGED <<unspawnable, queue, isExecuting, callVars, bridge, resuming>>

-----------------------------------------------------------------------------
(***************************************************************************)
(* The worker thread: the program ends by the request EXIT, the worker     *)
(* posts its result and the interpreter ends the thread.  It may instead   *)
(* fail to start, or die.                                                  *)
(***************************************************************************)
Becomes(e, state, events) ==
  /\ thread' = [thread EXCEPT ![e] = state]
  /\ outbox' = [outbox EXCEPT ![e] = @ \o events]
  /\ UNCHANGED <<queueVars, callVars, resuming>>

ProgramExits(e, code) ==
  /\ thread[e] = "running" /\ bridge[e] = "running"
  /\ bridge' = [bridge EXCEPT ![e] = code]
  /\ Becomes(e, "exited", <<>>)
Worker(e) ==
  /\ UNCHANGED bridge
  /\ \/ thread[e] = "exited" /\ Becomes(e, "posted", <<"success">>)
     \/ /\ "violation" \in Faults[e] /\ thread[e] = "running"
        /\ e \notin resolved /\ outbox[e] = <<>>
        /\ Becomes(e, "running", <<"failure">>)
     \/ thread[e] = "posted" /\ Becomes(e, "dead", <<"exit">>)
     \/ /\ "death" \in Faults[e]
        /\ \/ thread[e] = "running" /\ Becomes(e, "posted", <<"failure">>)
           \/ thread[e] \in Live /\ \E last \in {<<"exit">>, <<"error", "exit">>} :
                                      Becomes(e, "dead", last)
WorkerStep(e) == Worker(e) \/ \E code \in {"exit0", "exit1"} : ProgramExits(e, code)

Handle(e) ==
  OnMessage(e) \/ OnError(e) \/ OnExit(e) \/ Ignore(e) \/ Resume(e)

Next ==
  \/ \E e \in Execs :
       \/ ExecutePython(e) \/ OnTimeout(e) \/ Handle(e) \/ Return(e)
       \/ \E with \in {"timeout", "rejected"} : BridgeEnds(e, with)
       \/ WorkerStep(e)
  \/ \E s \in Sessions : CloseSession(s)

Spec == Init /\ [][Next]_vars

(***************************************************************************)
(* The main thread handles every event and returns from calls; a program   *)
(* that can go on ends.  Timers are assumed to fire only for a call whose  *)
(* bridge has seen the same deadline pass, and the other way round.  Every *)
(* call does finitely many things, so one weak fairness serves them all.   *)
(***************************************************************************)
Progress(e) ==
  \/ Handle(e) \/ Return(e)
  \/ WorkerStep(e) /\ bridge[e] # "timeout"
  \/ bridge[e] \in {"timeout", "rejected"} /\ OnTimeout(e)
  \/ promise[e] = "deadline" /\ BridgeEnds(e, "timeout")

FairSpec == Spec /\ WF_vars(\E e \in Execs : Progress(e))

-----------------------------------------------------------------------------
\* One program of a filesystem runs at a time, whatever timers, sessions, exits and
\* calls during a termination do; only a program of a session that has reported a
\* violation may go on beside the next one.
Unreported ==
  {e \in Execs \ (Persistent \cap resolved) : thread[e] \in {"running", "exited"}}
Serialized == \A d, e \in Unreported : FsOf[d] = FsOf[e] => d = e

\* A queue that is not executing has nothing to execute, or a handler is about to
\* go on with it.
NoLostWakeup ==
  \A f \in Filesystems :
    ~isExecuting[f] =>
      \/ \A i \in 1..Len(queue[f]) : queue[f][i] \in canceled
      \/ \E e \in resuming : FsOf[e] = f

\* The worker of a call that has returned is terminated, unless a session holds it.
NoStrayWorker ==
  \A e \in Execs :
    thread[e] \in Live =>
      IF e \in Persistent THEN session[SessionOf[e]] = e ELSE answer[e] = "pending"

\* A call that has been answered is not executed afterwards (a call with --session whose
\* bridge failed is: nothing takes its entry out of the queue).
AnsweredNeverStarts ==
  [][\A e \in Execs : (thread[e] = "none" /\ thread'[e] # "none") =>
       answer'[e] = "pending" \/ (e \in Persistent /\ bridge[e] = "rejected")]_vars

\* Starting an execution terminates none that has still to report, though it terminates
\* the previous worker of its session.
StartKillsNone ==
  [][\A e \in Execs : (thread[e] = "none" /\ thread'[e] = "running") =>
       \A d \in Unreported : d \in Persistent \cap resolved' \/ thread'[d] = thread[d]]_vars

\* Every call returns, even if no deadline is ever reached.
Pending == {e \in Execs : answer[e] = "pending"}
EveryCallReturns == Pending # {} ~> Pending = {}
=============================================================================
