---------------------------- MODULE WorkerBridge ----------------------------
(***************************************************************************)
(* The bridge over which the JavaScript and Python workers use the file    *)
(* system of the main thread (packages/bash/src/commands/worker-bridge).   *)
(* The two threads share one buffer: a status word, one request and one    *)
(* result.  The worker blocks on the status (Atomics.wait), the main       *)
(* thread awaits it (Atomics.waitAsync), and neither waiting nor notifying *)
(* is atomic with the reads and writes of the status around it.  A payload *)
(* larger than the data window travels in chunks, one round trip each.     *)
(*                                                                         *)
(* One file stands for the file system, a sequence for the bytes of a      *)
(* file, and ChunkSize elements for the data window.                       *)
(*                                                                         *)
(* A definition announced as the mutant of the next one is used by no      *)
(* action.                                                                 *)
(***************************************************************************)
EXTENDS Naturals, Sequences

CONSTANTS
  Bytes,
  Payloads,     \* contents of files and of writes: sequences of bytes
  ChunkSize,    \* MAX_CHUNK_SIZE
  MaxTransfer,  \* MAX_TRANSFER_BYTES
  MaxCalls,     \* bound: operations of the program in the worker
  MaxEdits,     \* bound: changes of the file by others
  None

ASSUME BridgeAssumption ==
  /\ Payloads \subseteq Seq(Bytes)
  /\ ChunkSize \in Nat \ {0} /\ MaxTransfer \in Nat
  /\ MaxCalls \in Nat /\ MaxEdits \in Nat

Kinds    == {"read", "write", "append", "exit"}
Statuses == {"PENDING", "READY", "SUCCESS", "ERROR"}
Failed   == [error |-> TRUE]

Bytestrings  == Seq(Bytes)
Operations   == [kind : Kinds, data : Bytestrings]
Requests     == [kind : Kinds, offset : Nat, chunk : Bytestrings,
                 total : Nat, more : BOOLEAN]
Results      == [data : Bytestrings, total : Nat]
Replies      == [status : Statuses, result : Results \cup {None}]
Caches       == [data : Bytestrings]
Accumulators == [kind : Kinds, total : Nat, received : Nat, data : Bytestrings]
Outcomes     == [value : Bytestrings]

ASSUME NoneAssumption ==
  None \notin Operations \cup Requests \cup Results \cup Replies
                \cup Caches \cup Accumulators \cup Outcomes

VARIABLES
  file,    \* the content of the file
  status,  \* the status word
  frame,   \* the request in the buffer, or None
  result,  \* the result in the buffer, [data, total], or None
  wpc,     \* where the worker is
  op,      \* the operation under way, [kind, data], or None
  offset,  \* its local variable offset
  out,     \* the chunks readFile has received
  over,    \* the program has ended, and exit(0) with it
  calls,   \* number of operations called
  last,    \* how the last one ended
  hpc,     \* where the handler (BridgeHandler.run) is
  seen,    \* the status waitUntilReady compares with
  running, \* this.running
  cache,   \* readCache, [data], or None
  acc,     \* writeAccumulator, or None
  reply,   \* the status and the result about to be stored
  expired, \* the deadline of the execution has passed
  edits,   \* number of edits by others
  effect,  \* history: what the operation returns, since it has taken effect
  late     \* history: the notify of one answer has woken the wait for the next

bufferVars  == <<status, frame, result>>
workerVars  == <<wpc, op, offset, out, over, calls, last>>
handlerVars == <<hpc, seen, running, cache, acc, reply>>
worldVars   == <<file, expired, edits>>
vars == <<bufferVars, workerVars, handlerVars, worldVars, effect, late>>

Least(a, b) == IF a < b THEN a ELSE b

Init ==
  /\ file \in Payloads
  /\ status = "PENDING" /\ frame = None /\ result = None
  /\ wpc = "idle" /\ op = None /\ offset = 0 /\ out = <<>>
  /\ over = FALSE /\ calls = 0 /\ last = None
  /\ hpc = "check" /\ seen = "PENDING" /\ running = TRUE
  /\ cache = None /\ acc = None /\ reply = None
  /\ expired = FALSE /\ edits = 0 /\ effect = None
  /\ late = FALSE

-----------------------------------------------------------------------------
(***************************************************************************)
(* The worker: SyncBackend.                                                *)
(***************************************************************************)
\* The program calls readFile, writeFile, appendFile or process.exit, ...
Begin(kind, data) ==
  /\ wpc = "idle" /\ ~over
  /\ wpc' = "send" /\ op' = [kind |-> kind, data |-> data]
  /\ offset' = 0 /\ out' = <<>> /\ last' = None
  /\ UNCHANGED <<bufferVars, handlerVars, worldVars, effect, late>>

Call(kind, data) ==
  /\ calls < MaxCalls /\ calls' = calls + 1
  /\ kind \in {"read", "exit"} => data = <<>>
  /\ Begin(kind, data)
  /\ UNCHANGED over

\* ... and its end sends exit(0), also when the program has caught the
\* exception of an earlier process.exit().
End == Begin("exit", <<>>) /\ over' = TRUE /\ UNCHANGED calls

\* writeChunked: the last byte of this chunk.
ChunkEnd == Least(offset + ChunkSize, Len(op.data))

\* The fields of the request, ...
Request ==
  [kind  |-> op.kind, offset |-> offset,
   chunk |-> SubSeq(op.data, offset + 1, ChunkEnd),
   total |-> Len(op.data),
   more  |-> op.kind # "read" /\ ChunkEnd < Len(op.data)]

\* ... which follow reset(): the status is PENDING meanwhile.
Send ==
  /\ wpc = "send"
  /\ status' = "PENDING" /\ result' = None
  /\ frame' = Request
  /\ wpc' = "ready"
  /\ UNCHANGED <<op, offset, out, over, calls, last,
                 handlerVars, worldVars, effect, late>>

WorkerAt(from, to) ==
  /\ wpc = from /\ wpc' = to
  /\ UNCHANGED <<op, offset, out, over, calls, last>>

Ready ==
  /\ WorkerAt("ready", "notify")
  /\ status' = "READY"
  /\ UNCHANGED <<frame, result, handlerVars, worldVars, effect, late>>

\* Atomics.notify wakes the handler if it is waiting by now.
NotifyHandler ==
  /\ WorkerAt("notify", "wait")
  /\ hpc' = IF hpc = "parked" THEN "check" ELSE hpc
  /\ UNCHANGED <<seen, running, cache, acc, reply, bufferVars, worldVars, effect, late>>

\* Mutant of Wait: waits without comparing.
WaitBlindly ==
  /\ WorkerAt("wait", "parked")
  /\ UNCHANGED <<bufferVars, handlerVars, worldVars, effect, late>>

\* Atomics.wait(status, READY): compares and parks in one step.
Wait ==
  /\ WorkerAt("wait", IF status = "READY" THEN "parked" ELSE "woken")
  /\ UNCHANGED <<bufferVars, handlerVars, worldVars, effect, late>>

Finish(outcome) ==
  /\ wpc' = "idle" /\ op' = None /\ last' = outcome /\ effect' = None
  /\ UNCHANGED <<offset, out>>

Again == wpc' = "send" /\ UNCHANGED <<op, last, effect>>

\* readFile: the chunk is appended; an empty one before the end is an error.
ReadOn ==
  LET got == out \o result.data
  IN IF Len(got) >= result.total
       THEN Finish([value |-> got])
       ELSE IF result.data = <<>> THEN Finish(Failed)
       ELSE Again /\ out' = got /\ offset' = Len(got)

\* writeChunked: the next chunk, until offset has reached the total.
WriteOn ==
  IF ChunkEnd >= Len(op.data)
    THEN Finish([value |-> <<>>])
    ELSE Again /\ offset' = ChunkEnd /\ UNCHANGED out

\* execFrame returns: anything but SUCCESS is a failure, and ends the operation.
Woken ==
  /\ wpc = "woken"
  /\ IF status # "SUCCESS" THEN Finish(Failed)
     ELSE IF op.kind = "read" THEN ReadOn
     ELSE WriteOn
  /\ UNCHANGED <<over, calls, bufferVars, handlerVars, worldVars, late>>

\* The worker is terminated by the timer of the call, or dies.
Die ==
  /\ WorkerAt(wpc, "dead") /\ wpc # "dead"
  /\ UNCHANGED <<bufferVars, handlerVars, worldVars, effect, late>>

-----------------------------------------------------------------------------
(***************************************************************************)
(* The main thread: BridgeHandler.run and ProtocolBuffer.waitUntilReady.   *)
(***************************************************************************)
HandlerAt(from, to) ==
  /\ hpc = from /\ hpc' = to
  /\ UNCHANGED <<workerVars, worldVars, frame, effect, late, running, cache, acc>>

\* A READY status is served even when the deadline has just passed.
Check ==
  \/ /\ status = "READY" /\ HandlerAt("check", "serve")
     /\ UNCHANGED <<status, result, seen, reply>>
  \/ /\ status # "READY" /\ HandlerAt("check", "arm")
     /\ seen' = status
     /\ UNCHANGED <<status, result, reply>>

\* Mutant of Arm: waits without comparing.
ArmBlindly ==
  /\ HandlerAt("arm", "parked")
  /\ UNCHANGED <<status, result, seen, reply>>

\* Atomics.waitAsync(status, seen): compares and registers in one step.
Arm ==
  /\ HandlerAt("arm", IF status = seen THEN "parked" ELSE "check")
  /\ UNCHANGED <<status, result, seen, reply>>

\* The deadline is seen at the head of the loop or by the timed-out wait.
Stop ==
  /\ expired /\ hpc \in {"check", "parked"}
  /\ HandlerAt(hpc, "stopped")
  /\ UNCHANGED <<status, result, seen, reply>>

Serving(kinds) ==
  /\ hpc = "serve" /\ frame.kind \in kinds /\ hpc' = "answer"
  /\ UNCHANGED <<workerVars, bufferVars, seen, expired, edits, late>>

Error == [status |-> "ERROR", result |-> None]

Success(data, total) ==
  [status |-> "SUCCESS", result |-> [data |-> data, total |-> total]]

\* Mutant of Loads: no cache.
LoadsAlways == TRUE

\* A read of the first chunk, or without a cache, loads the file.
Loads == frame.offset = 0 \/ cache = None

ServeRead(content) ==
  LET end == Least(frame.offset + ChunkSize, Len(content))
  IN IF frame.offset > Len(content)
       THEN cache' = None /\ reply' = Error
       ELSE /\ cache' = IF end < Len(content) THEN [data |-> content] ELSE None
            /\ reply' = Success(SubSeq(content, frame.offset + 1, end), Len(content))

HandleReadFile ==
  /\ Serving({"read"})
  /\ ServeRead(IF Loads THEN file ELSE cache.data)
  /\ effect' = IF Loads THEN [value |-> file] ELSE effect
  /\ UNCHANGED <<file, running, acc>>

\* accumulateChunkedPayload: the accumulator at the start of a frame, ...
Restarted ==
  IF frame.offset = 0
    THEN [kind |-> frame.kind, total |-> frame.total, received |-> 0, data |-> <<>>]
    ELSE acc

\* ... with its chunk, ...
Accumulated(a) ==
  [kind |-> a.kind, total |-> a.total,
   received |-> a.received + Len(frame.chunk), data |-> a.data \o frame.chunk]

\* ... and the frames it does not throw at.
Accepts(a) ==
  /\ frame.total <= MaxTransfer
  /\ a # None /\ a.kind = frame.kind /\ a.total = frame.total
  /\ frame.offset = a.received
  /\ frame.offset + Len(frame.chunk) <= frame.total
  /\ ~frame.more => Accumulated(a).received = frame.total

\* Mutant of BufferChunk: the chunk is not kept.
BufferChunkDropped(a) ==
  /\ acc' = a /\ reply' = Success(<<>>, 0)
  /\ UNCHANGED <<file, effect>>

\* Intermediate chunk: nothing is committed.
BufferChunk(a) ==
  /\ acc' = Accumulated(a) /\ reply' = Success(<<>>, 0)
  /\ UNCHANGED <<file, effect>>

\* Final chunk: fs.writeFile or fs.appendFile with the whole payload.
Commit(a) ==
  /\ file' = IF frame.kind = "write" THEN Accumulated(a).data
              ELSE file \o Accumulated(a).data
  /\ effect' = [value |-> <<>>]
  /\ acc' = None /\ reply' = Success(<<>>, 0)

Reject == acc' = None /\ reply' = Error /\ UNCHANGED <<file, effect>>

HandleWriteFile ==
  /\ Serving({"write", "append"})
  /\ IF ~Accepts(Restarted) THEN Reject
     ELSE IF frame.more THEN BufferChunk(Restarted)
     ELSE Commit(Restarted)
  /\ UNCHANGED <<running, cache>>

\* The file system rejects: when a read loads, or a write commits.
FsError ==
  /\ Serving({"read", "write", "append"})
  /\ reply' = Error
  /\ IF frame.kind = "read"
       THEN Loads /\ cache' = None /\ UNCHANGED acc
       ELSE Accepts(Restarted) /\ ~frame.more /\ acc' = None /\ UNCHANGED cache
  /\ UNCHANGED <<file, running, effect>>

HandleExit ==
  /\ Serving({"exit"})
  /\ running' = FALSE /\ reply' = Success(<<>>, 0)
  /\ effect' = [value |-> <<>>]
  /\ UNCHANGED <<file, cache, acc>>

Serve ==
  HandleReadFile \/ HandleWriteFile \/ FsError \/ HandleExit

\* The result, then the status: the worker may see it before it is notified.
Answer ==
  /\ HandlerAt("answer", "notify")
  /\ status' = reply.status /\ result' = reply.result /\ reply' = None
  /\ UNCHANGED seen

\* Atomics.notify wakes the worker if it is waiting by now, be it for the answer
\* stored or, when it has taken that one without parking, for the next.
NotifyWorker ==
  /\ hpc = "notify" /\ hpc' = IF running THEN "check" ELSE "stopped"
  /\ wpc' = IF wpc = "parked" THEN "woken" ELSE wpc
  /\ late' = (late \/ (wpc = "parked" /\ status = "READY"))
  /\ UNCHANGED <<op, offset, out, over, calls, last, bufferVars, seen, running,
                 cache, acc, reply, worldVars, effect>>

-----------------------------------------------------------------------------
\* Another user of the file system; and the deadline of the execution.
Edit(data) ==
  /\ edits < MaxEdits
  /\ file' = data /\ edits' = edits + 1
  /\ UNCHANGED <<expired, bufferVars, workerVars, handlerVars, effect, late>>

Expire ==
  /\ ~expired /\ expired' = TRUE
  /\ UNCHANGED <<file, edits, bufferVars, workerVars, handlerVars, effect, late>>

WorkerStep  == Send \/ Ready \/ NotifyHandler \/ Wait \/ Woken
HandlerStep == Check \/ Arm \/ Serve \/ Answer \/ NotifyWorker

Next ==
  \/ \E k \in Kinds, d \in Payloads \cup {<<>>} : Call(k, d)
  \/ End
  \/ WorkerStep \/ HandlerStep
  \/ Stop \/ Die \/ Expire
  \/ \E d \in Payloads : Edit(d)

Spec == Init /\ [][Next]_vars

\* Both threads run, and the file system settles: nothing else is assumed, not
\* that the deadline passes nor that the program makes another call.
FairSpec == Spec /\ WF_vars(WorkerStep) /\ WF_vars(HandlerStep)

-----------------------------------------------------------------------------
(***************************************************************************)
(* Properties.                                                             *)
(***************************************************************************)
\* The variables have their types; what a thread is about to use is there: the
\* request of an operation, the result of a SUCCESS, the reply to be stored.
TypeOK ==
  /\ file \in Bytestrings /\ status \in Statuses
  /\ frame \in Requests \cup {None} /\ result \in Results \cup {None}
  /\ wpc \in {"idle", "send", "ready", "notify", "wait", "parked", "woken", "dead"}
  /\ op \in Operations \cup {None} /\ offset \in Nat /\ out \in Bytestrings
  /\ over \in BOOLEAN /\ calls \in 0..MaxCalls
  /\ last \in Outcomes \cup {None, Failed}
  /\ hpc \in {"check", "arm", "parked", "serve", "answer", "notify", "stopped"}
  /\ seen \in Statuses /\ running \in BOOLEAN
  /\ cache \in Caches \cup {None} /\ acc \in Accumulators \cup {None}
  /\ reply \in Replies \cup {None}
  /\ expired \in BOOLEAN /\ edits \in 0..MaxEdits
  /\ effect \in Outcomes \cup {None} /\ late \in BOOLEAN
  /\ wpc = "idle" => op = None
  /\ wpc \notin {"idle", "dead"} => op # None
  /\ wpc \notin {"idle", "send", "dead"} => frame # None
  /\ status # "PENDING" \/ hpc \in {"serve", "answer", "notify"} => frame # None
  /\ status = "SUCCESS" => result # None
  /\ hpc = "answer" => reply # None /\ reply.status \in {"SUCCESS", "ERROR"}
  /\ reply # None /\ reply.status = "SUCCESS" => reply.result # None

\* Chunks do not show: every operation is atomic, a read returns one content
\* the file really had, a failed write wrote nothing (readFile, writeChunked
\* with handleReadFile and accumulateChunkedPayload).  So it is until a late
\* notify: the operation that one wakes fails, and is served all the same.
File == INSTANCE AtomicFile WITH call <- op
ImplementsAtomicFile == File!Init /\ [][late' \/ File!Next]_(File!vars)

\* Until a late notify the main thread accepts every frame of the worker whose
\* total is in its limit: no sequence of failed, restarted and empty transfers
\* makes accumulateChunkedPayload throw, nor a read run past its cache.
FramesAccepted ==
  ~late /\ hpc = "serve" =>
    /\ frame # None
    /\ frame.kind \in {"write", "append"} /\ frame.total <= MaxTransfer =>
         Accepts(Restarted)
    /\ frame.kind = "read" => \/ frame.offset = 0
                              \/ cache # None /\ frame.offset < Len(cache.data)

\* A worker that is woken finds an answer: "Notify worker so it wakes up and
\* sees the result" (bridge-handler.ts:153).  A late notify refutes it.
WokenWithAnswer == wpc = "woken" => status \in {"SUCCESS", "ERROR"}

(***************************************************************************)
(* Why it works, as an inductive invariant.  Each thread is where the      *)
(* status lets it be.  An answer is there for the worker to take as soon   *)
(* as its status is stored, so that at "notify" the worker may have gone   *)
(* anywhere, up to waiting for its next request; all of it holds until the *)
(* notify that comes then has woken that wait.                             *)
(***************************************************************************)
Busy     == hpc \in {"serve", "answer"}
Answered == status \in {"SUCCESS", "ERROR"}

Handshake ==
  ~late =>
    /\ Busy => status = "READY"
    /\ wpc \in {"idle", "send"} => ~Busy /\ status # "READY"
    /\ wpc = "ready" => ~Busy /\ status = "PENDING"
    /\ wpc \in {"notify", "wait"} => status = "READY" \/ Answered
    /\ wpc = "parked" => status = "READY" \/ (hpc = "notify" /\ Answered)
    /\ wpc = "woken" => ~Busy /\ Answered

(***************************************************************************)
(* ... and what each side has received is what the other has sent: before  *)
(* a request is served, the accumulator or the cache holds the chunks      *)
(* before offset; after it, the answer brings the next one, and the        *)
(* operation has taken effect if it was the last one of a write or the     *)
(* first one of a read.                                                    *)
(***************************************************************************)
Unserved == status = "READY" /\ hpc # "answer"

Gathered(n) ==
  acc = [kind |-> op.kind, total |-> Len(op.data), received |-> n,
         data |-> SubSeq(op.data, 1, n)]

BeforeRequest ==
  CASE op.kind = "read" ->
         IF offset = 0 THEN out = <<>> /\ effect = None
         ELSE /\ cache # None /\ effect = [value |-> cache.data]
              /\ offset < Len(cache.data) /\ out = SubSeq(cache.data, 1, offset)
    [] op.kind = "exit" -> effect = None
    [] OTHER ->
         /\ effect = None
         /\ offset = 0 \/ (offset < Len(op.data) /\ Gathered(offset))

ReadEnd(v) == Least(offset + ChunkSize, Len(v))

AnswerIs(outcome, res) ==
  CASE outcome = "ERROR" -> effect = None
    [] outcome = "SUCCESS" /\ op.kind = "read" ->
         /\ effect # None /\ offset <= Len(effect.value)
         /\ out = SubSeq(effect.value, 1, offset)
         /\ res = [data  |-> SubSeq(effect.value, offset + 1, ReadEnd(effect.value)),
                   total |-> Len(effect.value)]
         /\ ReadEnd(effect.value) < Len(effect.value) =>
              cache = [data |-> effect.value]
    [] outcome = "SUCCESS" /\ op.kind # "read" ->
         IF ChunkEnd < Len(op.data) THEN effect = None /\ Gathered(ChunkEnd)
         ELSE effect = [value |-> <<>>]

Transfer ==
  ~late =>
    /\ op # None /\ op.kind \in {"read", "exit"} => op.data = <<>>
    /\ wpc = "idle" => effect = None
    /\ wpc \in {"ready", "notify", "wait", "parked"} \/ status = "READY" =>
         op # None /\ frame = Request
    /\ wpc \in {"send", "ready"} \/ Unserved => BeforeRequest
    /\ hpc = "answer" => AnswerIs(reply.status, reply.result)
    /\ wpc \in {"notify", "wait", "parked", "woken"} /\ Answered =>
         AnswerIs(status, result)

\* No wake-up is lost between the two threads: a request is answered, unless
\* the worker dies, or the handler has stopped; late notifies included.
EveryRequestAnswered ==
  wpc \in {"ready", "parked"} ~>
    wpc \in {"idle", "send", "woken", "dead"} \/ hpc = "stopped"
=============================================================================
