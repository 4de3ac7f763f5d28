------------------------- MODULE WorkerBridgeProofs -------------------------
(***************************************************************************)
(* Theorems about WorkerBridge, for every data window, every payload and   *)
(* every number of calls and edits.                                        *)
(***************************************************************************)
EXTENDS WorkerBridge, SequenceTheorems, TLAPS

USE DEF Bytestrings

LEMMA LeastType ==
  ASSUME NEW a \in Nat, NEW b \in Nat
  PROVE  /\ Least(a, b) \in Nat
         /\ Least(a, b) <= a /\ Least(a, b) <= b
         /\ Least(a, b) = a \/ Least(a, b) = b
BY DEF Least

\* The part of a bytestring after its first m bytes, up to its n-th.
LEMMA PieceType ==
  ASSUME NEW s \in Bytestrings, NEW m \in Nat, NEW n \in Nat, n <= Len(s)
  PROVE  /\ SubSeq(s, m + 1, n) \in Bytestrings
         /\ Len(SubSeq(s, m + 1, n)) = IF m < n THEN n - m ELSE 0
<1>1. Len(s) \in Nat /\ \A i \in (m + 1)..n : s[i] \in Bytes
  BY ElementOfSeq, LenProperties
<1>. QED BY <1>1, SubSeqProperties

LEMMA ChunkEndType ==
  ASSUME TypeOK, op # None
  PROVE  /\ ChunkEnd \in Nat /\ ChunkEnd <= Len(op.data) /\ Len(op.data) \in Nat
         /\ ChunkEnd <= offset + ChunkSize
         /\ ChunkEnd = Len(op.data) \/ ChunkEnd = offset + ChunkSize
<1>1. op \in Operations /\ op.data \in Bytestrings /\ offset \in Nat
  BY DEF TypeOK, Operations
<1>2. Len(op.data) \in Nat /\ offset + ChunkSize \in Nat
  BY <1>1, LenProperties, BridgeAssumption
<1>. QED BY <1>2, LeastType DEF ChunkEnd

LEMMA RequestType ==
  ASSUME TypeOK, op # None
  PROVE  Request \in Requests
<1>1. op \in Operations /\ op.data \in Bytestrings /\ offset \in Nat /\ op.kind \in Kinds
  BY DEF TypeOK, Operations
<1>2. SubSeq(op.data, offset + 1, ChunkEnd) \in Bytestrings
  BY <1>1, ChunkEndType, PieceType
<1>. QED BY <1>1, <1>2, ChunkEndType DEF Request, Requests

LEMMA SuccessType ==
  ASSUME NEW data \in Bytestrings, NEW total \in Nat
  PROVE  /\ Success(data, total) \in Replies /\ Success(data, total) # None
         /\ Success(data, total).status = "SUCCESS"
         /\ Success(data, total).result = [data |-> data, total |-> total]
         /\ Success(data, total).result # None
BY NoneAssumption DEF Success, Replies, Results, Statuses

LEMMA ErrorType ==
  /\ Error \in Replies /\ Error # None
  /\ Error.status = "ERROR"
BY NoneAssumption DEF Error, Replies, Statuses

LEMMA AccumulatedType ==
  ASSUME frame \in Requests, NEW a \in Accumulators
  PROVE  /\ Accumulated(a) \in Accumulators
         /\ Accumulated(a).kind = a.kind /\ Accumulated(a).total = a.total
         /\ Accumulated(a).received = a.received + Len(frame.chunk)
         /\ Accumulated(a).data = a.data \o frame.chunk
<1>1. frame.chunk \in Bytestrings /\ a.data \in Bytestrings /\ a.received \in Nat
  BY DEF Requests, Accumulators
<1>2. Len(frame.chunk) \in Nat /\ a.data \o frame.chunk \in Bytestrings
  BY <1>1, LenProperties, ConcatProperties
<1>3. a.kind \in Kinds /\ a.total \in Nat /\ a.received + Len(frame.chunk) \in Nat
  BY <1>1, <1>2 DEF Accumulators
<1>. QED BY <1>2, <1>3 DEF Accumulated, Accumulators

LEMMA InitType == Init => TypeOK
<1>. SUFFICES ASSUME Init PROVE TypeOK
  OBVIOUS
<1>1. file \in Bytestrings /\ <<>> \in Bytestrings
  BY BridgeAssumption, EmptySeq DEF Init
<1>2. 0 \in 0..MaxCalls /\ 0 \in 0..MaxEdits
  BY BridgeAssumption
<1>. QED BY <1>1, <1>2 DEF Init, TypeOK, Statuses

LEMMA NextType == TypeOK /\ [Next]_vars => TypeOK'
<1>. SUFFICES ASSUME TypeOK, [Next]_vars PROVE TypeOK'
  OBVIOUS
<1>1. ASSUME NEW k \in Kinds, NEW d \in Payloads \cup {<<>>}, Call(k, d)
      PROVE  TypeOK'
  <2>1. d \in Bytestrings BY BridgeAssumption, EmptySeq
  <2>2. [kind |-> k, data |-> d] \in Operations BY <2>1 DEF Operations
  <2>3. calls' \in 0..MaxCalls BY <1>1, BridgeAssumption DEF Call, TypeOK
  <2>4. <<>> \in Bytestrings BY EmptySeq
  <2>. QED BY <1>1, <2>2, <2>3, <2>4, NoneAssumption
           DEF Call, Begin, TypeOK, bufferVars, handlerVars, worldVars
<1>2. ASSUME End PROVE TypeOK'
  <2>1. [kind |-> "exit", data |-> <<>>] \in Operations
    BY DEF Operations, Kinds
  <2>. QED BY <1>2, <2>1, NoneAssumption
           DEF End, Begin, TypeOK, bufferVars, handlerVars, worldVars
<1>3. ASSUME Send PROVE TypeOK'
  <2>1. Request \in Requests /\ Request # None
    BY <1>3, RequestType, NoneAssumption DEF Send, TypeOK
  <2>. QED BY <1>3, <2>1 DEF Send, TypeOK, handlerVars, worldVars, Statuses
<1>4. ASSUME Ready PROVE TypeOK'
  BY <1>4 DEF Ready, WorkerAt, TypeOK, handlerVars, worldVars, Statuses
<1>5. ASSUME NotifyHandler PROVE TypeOK'
  BY <1>5 DEF NotifyHandler, WorkerAt, TypeOK, bufferVars, worldVars
<1>6. ASSUME Wait PROVE TypeOK'
  BY <1>6 DEF Wait, WorkerAt, TypeOK, bufferVars, handlerVars, worldVars
<1>7. ASSUME Woken PROVE TypeOK'
  <2>1. op \in Operations /\ offset \in Nat /\ out \in Bytestrings
    BY <1>7 DEF Woken, TypeOK
  <2>2. CASE Finish(Failed)
    BY <1>7, <2>2
    DEF Woken, Finish, TypeOK, bufferVars, handlerVars, worldVars
  <2>3. ASSUME NEW v \in Bytestrings, Finish([value |-> v])
        PROVE  TypeOK'
    <3>1. [value |-> v] \in Outcomes BY DEF Outcomes
    <3>. QED BY <1>7, <2>3, <3>1
             DEF Woken, Finish, TypeOK, bufferVars, handlerVars, worldVars
  <2>4. CASE status = "SUCCESS" /\ op.kind = "read"
    <3>. DEFINE got == out \o result.data
    <3>1. result \in Results /\ result.data \in Bytestrings
      BY <2>4 DEF TypeOK, Results
    <3>2. got \in Bytestrings /\ Len(got) \in Nat
      BY <2>1, <3>1, ConcatProperties, LenProperties
    <3>3. ReadOn BY <1>7, <2>4 DEF Woken
    <3>. HIDE DEF got
    <3>4. CASE Finish([value |-> got]) BY <2>3, <3>2, <3>4
    <3>5. CASE Again /\ out' = got /\ offset' = Len(got)
      BY <1>7, <2>1, <3>2, <3>5
      DEF Woken, Again, TypeOK, bufferVars, handlerVars, worldVars
    <3>. QED BY <2>2, <3>3, <3>4, <3>5 DEF ReadOn, got
  <2>5. CASE status = "SUCCESS" /\ op.kind # "read"
    <3>1. WriteOn BY <1>7, <2>5 DEF Woken
    <3>2. CASE Finish([value |-> <<>>]) BY <2>3, <3>2, EmptySeq
    <3>3. CASE Again /\ offset' = ChunkEnd /\ UNCHANGED out
      <4>1. ChunkEnd \in Nat BY <1>7, ChunkEndType DEF Woken, TypeOK
      <4>. QED BY <1>7, <2>1, <3>3, <4>1
               DEF Woken, Again, TypeOK, bufferVars, handlerVars, worldVars
    <3>. QED BY <3>1, <3>2, <3>3 DEF WriteOn
  <2>. QED BY <1>7, <2>2, <2>4, <2>5 DEF Woken
<1>8. ASSUME Check PROVE TypeOK'
  BY <1>8 DEF Check, HandlerAt, TypeOK, workerVars, worldVars
<1>9. ASSUME Arm PROVE TypeOK'
  BY <1>9 DEF Arm, HandlerAt, TypeOK, workerVars, worldVars
<1>10. ASSUME Stop PROVE TypeOK'
  BY <1>10 DEF Stop, HandlerAt, TypeOK, workerVars, worldVars
<1>11. ASSUME HandleReadFile PROVE TypeOK'
  <2>. DEFINE content == IF Loads THEN file ELSE cache.data
              end == Least(frame.offset + ChunkSize, Len(content))
  <2>1. frame \in Requests /\ frame.offset \in Nat
    BY <1>11 DEF HandleReadFile, Serving, TypeOK, Requests
  <2>2. content \in Bytestrings BY DEF TypeOK, Loads, Caches
  <2>3. Len(content) \in Nat BY <2>2, LenProperties
  <2>4. ServeRead(content) BY <1>11 DEF HandleReadFile
  <2>. HIDE DEF content
  <2>5. end \in Nat /\ end <= Len(content)
    <3>1. frame.offset + ChunkSize \in Nat BY <2>1, BridgeAssumption
    <3>. QED BY <2>3, <3>1, LeastType
  <2>6. SubSeq(content, frame.offset + 1, end) \in Bytestrings
    BY <2>1, <2>2, <2>5, PieceType
  <2>7. [data |-> content] \in Caches /\ [value |-> file] \in Outcomes
    BY <2>2 DEF Caches, Outcomes, TypeOK
  <2>. HIDE DEF end
  <2>8. \/ reply' = Error
        \/ reply' = Success(SubSeq(content, frame.offset + 1, end), Len(content))
    BY <2>4 DEF ServeRead, end
  <2>9. /\ reply' \in Replies /\ reply' # None
        /\ reply'.status \in {"SUCCESS", "ERROR"}
        /\ reply'.status = "SUCCESS" => reply'.result # None
    <3>1. CASE reply' = Error
      BY <3>1, ErrorType
    <3>2. CASE reply' = Success(SubSeq(content, frame.offset + 1, end), Len(content))
      BY <2>3, <2>6, <3>2, SuccessType
    <3>. QED BY <2>8, <3>1, <3>2
  <2>10. cache' \in Caches \cup {None} BY <2>4, <2>7 DEF ServeRead
  <2>11. effect' \in Outcomes \cup {None}
    BY <1>11, <2>7 DEF HandleReadFile, TypeOK
  <2>. QED BY <1>11, <2>9, <2>10, <2>11
           DEF HandleReadFile, Serving, TypeOK, workerVars, bufferVars
<1>12. ASSUME HandleWriteFile PROVE TypeOK'
  <2>1. frame \in Requests /\ frame.chunk \in Bytestrings /\ frame.total \in Nat
        /\ frame.kind \in Kinds
    BY <1>12 DEF HandleWriteFile, Serving, TypeOK, Requests
  <2>2. <<>> \in Bytestrings /\ 0 \in Nat /\ Len(frame.chunk) \in Nat
    BY <2>1, LenProperties
  <2>3. Success(<<>>, 0) \in Replies /\ Success(<<>>, 0) # None
        /\ Success(<<>>, 0).status = "SUCCESS" /\ Success(<<>>, 0).result # None
    BY <2>2, SuccessType
  <2>4. CASE ~Accepts(Restarted)
    BY <1>12, <2>4, ErrorType
    DEF HandleWriteFile, Reject, Serving, TypeOK, workerVars, bufferVars
  <2>5. CASE Accepts(Restarted)
    <3>1. Restarted \in Accumulators
      <4>1. CASE frame.offset = 0
        BY <2>1, <2>2, <4>1 DEF Restarted, Accumulators
      <4>2. CASE frame.offset # 0
        BY <2>5, <4>2 DEF Restarted, Accepts, TypeOK
      <4>. QED BY <4>1, <4>2
    <3>3. Accumulated(Restarted) \in Accumulators
      BY <2>1, <3>1, AccumulatedType
    <3>4. Accumulated(Restarted).data \in Bytestrings
      BY <3>3 DEF Accumulators
    <3>5. file \o Accumulated(Restarted).data \in Bytestrings
      BY <3>4, ConcatProperties DEF TypeOK
    <3>6. [value |-> <<>>] \in Outcomes BY <2>2 DEF Outcomes
    <3>7. CASE frame.more
      BY <1>12, <2>3, <2>5, <3>3, <3>7
      DEF HandleWriteFile, BufferChunk, Serving, TypeOK, workerVars, bufferVars
    <3>8. CASE ~frame.more
      <4>1. Commit(Restarted) BY <1>12, <2>5, <3>8 DEF HandleWriteFile
      <4>2. file' \in Bytestrings BY <3>4, <3>5, <4>1 DEF Commit
      <4>. QED BY <1>12, <2>3, <3>6, <4>1, <4>2
           DEF HandleWriteFile, Commit, Serving, TypeOK, workerVars, bufferVars
    <3>. QED BY <3>7, <3>8
  <2>. QED BY <2>4, <2>5
<1>13. ASSUME FsError PROVE TypeOK'
  BY <1>13, ErrorType DEF FsError, Serving, TypeOK, workerVars, bufferVars
<1>14. ASSUME HandleExit PROVE TypeOK'
  <2>1. <<>> \in Bytestrings /\ 0 \in Nat /\ [value |-> <<>>] \in Outcomes
    BY DEF Outcomes
  <2>2. Success(<<>>, 0) \in Replies /\ Success(<<>>, 0) # None
        /\ Success(<<>>, 0).status = "SUCCESS" /\ Success(<<>>, 0).result # None
    BY <2>1, SuccessType
  <2>3. /\ running' \in BOOLEAN /\ hpc' = "answer" /\ frame # None
        /\ UNCHANGED <<workerVars, bufferVars, seen, expired, edits, late>>
        /\ UNCHANGED <<file, cache, acc>>
    BY <1>14 DEF HandleExit, Serving, TypeOK
  <2>4. /\ reply' \in Replies /\ reply' # None
        /\ reply'.status = "SUCCESS" /\ reply'.result # None
        /\ effect' \in Outcomes
    BY <1>14, <2>1, <2>2 DEF HandleExit
  <2>. QED BY <2>3, <2>4 DEF TypeOK, workerVars, bufferVars
<1>15. ASSUME Answer PROVE TypeOK'
  <2>1. reply \in Replies BY <1>15 DEF Answer, HandlerAt, TypeOK
  <2>2. reply.status \in Statuses /\ reply.result \in Results \cup {None}
    BY <2>1 DEF Replies
  <2>. QED BY <1>15, <2>2 DEF Answer, HandlerAt, TypeOK, workerVars, worldVars
<1>16. ASSUME NotifyWorker PROVE TypeOK'
  BY <1>16 DEF NotifyWorker, TypeOK, bufferVars, worldVars
<1>17. ASSUME Die PROVE TypeOK'
  BY <1>17 DEF Die, WorkerAt, TypeOK, bufferVars, handlerVars, worldVars
<1>18. ASSUME Expire PROVE TypeOK'
  BY <1>18 DEF Expire, TypeOK, bufferVars, workerVars, handlerVars
<1>19. ASSUME NEW d \in Payloads, Edit(d) PROVE TypeOK'
  BY <1>19, BridgeAssumption
  DEF Edit, TypeOK, bufferVars, workerVars, handlerVars
<1>20. ASSUME UNCHANGED vars PROVE TypeOK'
  BY <1>20 DEF vars, bufferVars, workerVars, handlerVars, worldVars, TypeOK
<1>. QED
  BY <1>1, <1>2, <1>3, <1>4, <1>5, <1>6, <1>7, <1>8, <1>9, <1>10, <1>11, <1>12,
     <1>13, <1>14, <1>15, <1>16, <1>17, <1>18, <1>19, <1>20
  DEF Next, WorkerStep, HandlerStep, Serve

(***************************************************************************)
(* The variables have their types, and what a thread is about to use is in *)
(* the buffer, also after a late notify.                                   *)
(***************************************************************************)
THEOREM TypeCorrect == Spec => []TypeOK
BY InitType, NextType, PTL DEF Spec

-----------------------------------------------------------------------------
(***************************************************************************)
(* The handshake.  As soon as an answer is stored the worker may take it   *)
(* and wait for the next, so that the handler at its notify constrains     *)
(* nothing; it is the comparison of the two waits, not the notify, that    *)
(* keeps the threads together until a notify wakes the wrong wait.         *)
(***************************************************************************)
LEMMA InitHandshake == Init => Handshake
BY DEF Init, Handshake, Busy, Answered

LEMMA NextHandshake ==
  TypeOK /\ Handshake /\ [Next]_vars => Handshake'
<1>. SUFFICES ASSUME TypeOK, Handshake, [Next]_vars PROVE Handshake'
  OBVIOUS
<1>. USE DEF Handshake, Busy, Answered
<1>1. ASSUME NEW k \in Kinds, NEW d \in Payloads \cup {<<>>}, Call(k, d)
      PROVE  Handshake'
  BY <1>1 DEF Call, Begin, bufferVars, handlerVars
<1>2. CASE End
  BY <1>2 DEF End, Begin, bufferVars, handlerVars
<1>3. CASE Send
  BY <1>3 DEF Send, handlerVars
<1>4. CASE Ready
  BY <1>4 DEF Ready, WorkerAt, handlerVars
<1>5. CASE NotifyHandler
  BY <1>5 DEF NotifyHandler, WorkerAt, bufferVars
<1>6. CASE Wait
  BY <1>6 DEF Wait, WorkerAt, bufferVars, handlerVars, TypeOK
<1>7. CASE Woken
  <2>1. wpc' \in {"idle", "send"}
    BY <1>7 DEF Woken, ReadOn, WriteOn, Finish, Again
  <2>2. UNCHANGED <<status, hpc, late>>
    BY <1>7 DEF Woken, bufferVars, handlerVars
  <2>. QED BY <1>7, <2>1, <2>2 DEF Woken
<1>8. CASE Check
  BY <1>8 DEF Check, HandlerAt, workerVars
<1>9. CASE Arm
  BY <1>9 DEF Arm, HandlerAt, workerVars
<1>10. CASE Stop
  BY <1>10 DEF Stop, HandlerAt, workerVars
<1>11. CASE Serve
  <2>1. hpc = "serve" /\ hpc' = "answer" /\ UNCHANGED <<wpc, status, late>>
    BY <1>11
    DEF Serve, HandleReadFile, HandleWriteFile, FsError, HandleExit, Serving,
        workerVars, bufferVars
  <2>. QED BY <2>1
<1>12. CASE Answer
  <2>1. status' \in {"SUCCESS", "ERROR"}
    BY <1>12 DEF Answer, HandlerAt, TypeOK
  <2>. QED BY <1>12, <2>1 DEF Answer, HandlerAt, workerVars
<1>13. CASE NotifyWorker
  BY <1>13 DEF NotifyWorker, bufferVars
<1>14. CASE Die
  BY <1>14 DEF Die, WorkerAt, bufferVars, handlerVars
<1>15. CASE Expire
  BY <1>15 DEF Expire, bufferVars, workerVars, handlerVars
<1>16. ASSUME NEW d \in Payloads, Edit(d) PROVE Handshake'
  BY <1>16 DEF Edit, bufferVars, workerVars, handlerVars
<1>17. CASE UNCHANGED vars
  BY <1>17 DEF vars, bufferVars, workerVars, handlerVars
<1>. QED
  BY <1>1, <1>2, <1>3, <1>4, <1>5, <1>6, <1>7, <1>8, <1>9, <1>10, <1>11, <1>12,
     <1>13, <1>14, <1>15, <1>16, <1>17
  DEF Next, WorkerStep, HandlerStep

(***************************************************************************)
(* Until a late notify each thread is where the status lets it be.         *)
(***************************************************************************)
THEOREM ThreadsAgree == Spec => []Handshake
BY InitHandshake, NextHandshake, TypeCorrect, PTL DEF Spec

-----------------------------------------------------------------------------
(***************************************************************************)
(* No wake-up is lost: the safety half of EveryRequestAnswered, after late *)
(* notifies too.  The handler never waits for a change from READY, and     *)
(* while it waits at a READY status the worker has still to notify it.     *)
(***************************************************************************)
Compared ==
  /\ hpc \in {"arm", "parked"} => seen # "READY"
  /\ hpc = "parked" /\ status = "READY" => wpc \in {"notify", "dead"}

\* A worker that waits has sent its request, and the notify of an answer is to come.
Sent ==
  /\ wpc \in {"notify", "wait", "parked"} => status # "PENDING"
  /\ wpc = "parked" => status = "READY" \/ hpc = "notify"

LEMMA InitWakeups == Init => Compared /\ Sent
BY DEF Init, Compared, Sent

LEMMA NextWakeups ==
  TypeOK /\ Compared /\ Sent /\ [Next]_vars => (Compared /\ Sent)'
<1>. SUFFICES ASSUME TypeOK, Compared, Sent, [Next]_vars PROVE (Compared /\ Sent)'
  OBVIOUS
<1>. USE DEF Compared, Sent
<1>1. ASSUME NEW k \in Kinds, NEW d \in Payloads \cup {<<>>}, Call(k, d)
      PROVE  (Compared /\ Sent)'
  BY <1>1 DEF Call, Begin, bufferVars, handlerVars
<1>2. CASE End
  BY <1>2 DEF End, Begin, bufferVars, handlerVars
<1>3. CASE Send
  BY <1>3 DEF Send, handlerVars
<1>4. CASE Ready
  BY <1>4 DEF Ready, WorkerAt, handlerVars
<1>5. CASE NotifyHandler
  BY <1>5 DEF NotifyHandler, WorkerAt, bufferVars
<1>6. CASE Wait
  BY <1>6 DEF Wait, WorkerAt, bufferVars, handlerVars
<1>7. CASE Woken
  <2>1. wpc = "woken" /\ wpc' \in {"idle", "send"} /\ UNCHANGED <<status, hpc, seen>>
    BY <1>7 DEF Woken, ReadOn, WriteOn, Finish, Again, bufferVars, handlerVars
  <2>. QED BY <2>1
<1>8. CASE Check
  BY <1>8 DEF Check, HandlerAt, workerVars
<1>9. CASE Arm
  BY <1>9 DEF Arm, HandlerAt, workerVars
<1>10. CASE Stop
  BY <1>10 DEF Stop, HandlerAt, workerVars
<1>11. CASE Serve
  <2>1. hpc = "serve" /\ hpc' = "answer" /\ UNCHANGED <<wpc, status>>
    BY <1>11
    DEF Serve, HandleReadFile, HandleWriteFile, FsError, HandleExit, Serving,
        workerVars, bufferVars
  <2>. QED BY <2>1
<1>12. CASE Answer
  <2>1. status' \in {"SUCCESS", "ERROR"}
    BY <1>12 DEF Answer, HandlerAt, TypeOK
  <2>. QED BY <1>12, <2>1 DEF Answer, HandlerAt, workerVars
<1>13. CASE NotifyWorker
  BY <1>13 DEF NotifyWorker, bufferVars
<1>14. CASE Die
  BY <1>14 DEF Die, WorkerAt, bufferVars, handlerVars
<1>15. CASE Expire
  BY <1>15 DEF Expire, bufferVars, workerVars, handlerVars
<1>16. ASSUME NEW d \in Payloads, Edit(d) PROVE (Compared /\ Sent)'
  BY <1>16 DEF Edit, bufferVars, workerVars, handlerVars
<1>17. CASE UNCHANGED vars
  BY <1>17 DEF vars, bufferVars, workerVars, handlerVars
<1>. QED
  BY <1>1, <1>2, <1>3, <1>4, <1>5, <1>6, <1>7, <1>8, <1>9, <1>10, <1>11, <1>12,
     <1>13, <1>14, <1>15, <1>16, <1>17
  DEF Next, WorkerStep, HandlerStep

\* What a worker that waits, or is about to, waits for: its own comparison fails, or the
\* handler serves its request, will see it at the comparison of its wait, or has stored
\* the answer and notifies.
NobodySleeps ==
  wpc \in {"wait", "parked"} =>
    \/ wpc = "wait" /\ Answered
    \/ hpc \in {"notify", "stopped"}
    \/ /\ status = "READY"
       /\ hpc \in {"check", "serve", "answer"} \/ (hpc = "arm" /\ seen # status)

(***************************************************************************)
(* While a worker waits for an answer the handler never sleeps: wherever   *)
(* the comparisons, stores and notifies of the two threads interleave, one *)
(* of them can go on, until the deadline has stopped the handler.          *)
(***************************************************************************)
THEOREM NoWakeUpIsLost == Spec => []NobodySleeps
<1>1. TypeOK /\ Compared /\ Sent => NobodySleeps
  BY DEF TypeOK, Statuses, Compared, Sent, Answered, NobodySleeps
<1>2. TypeOK /\ Compared /\ Sent /\ [Next]_vars => (Compared /\ Sent)'
  BY NextWakeups
<1>. QED BY <1>1, <1>2, TypeCorrect, InitWakeups, PTL DEF Spec

-----------------------------------------------------------------------------
(***************************************************************************)
(* The transfers: what each thread holds is what the other has sent, the   *)
(* main thread accepts every frame, and the operations of the worker are   *)
(* those of AtomicFile.                                                    *)
(***************************************************************************)
LEMMA AdjacentPieces ==
  ASSUME NEW s \in Bytestrings, NEW m \in Nat, NEW n \in Nat, m <= n, n <= Len(s)
  PROVE  SubSeq(s, 1, m) \o SubSeq(s, m + 1, n) = SubSeq(s, 1, n)
<1>1. Len(s) \in Nat BY LenProperties
<1>2. 1 \in 1..(Len(s) + 1) /\ m \in (1 - 1)..Len(s) /\ n \in m..Len(s)
  BY <1>1
<1>. QED BY <1>2, ConcatAdjacentSubSeq

LEMMA NoPiece ==
  ASSUME NEW s
  PROVE  SubSeq(s, 1, 0) = <<>>
BY SubSeqEmpty

LEMMA WholePiece ==
  ASSUME NEW s \in Bytestrings
  PROVE  SubSeq(s, 1, Len(s)) = s
BY SubSeqFull

\* Where a read ends that starts within the content.
LEMMA ReadEndType ==
  ASSUME TypeOK, NEW v \in Bytestrings, offset <= Len(v)
  PROVE  /\ ReadEnd(v) \in Nat /\ Len(v) \in Nat
         /\ offset <= ReadEnd(v) /\ ReadEnd(v) <= Len(v)
         /\ ReadEnd(v) < Len(v) => ReadEnd(v) = offset + ChunkSize /\ ReadEnd(v) > offset
<1>1. offset \in Nat /\ Len(v) \in Nat
  BY LenProperties DEF TypeOK
<1>2. offset + ChunkSize \in Nat /\ offset < offset + ChunkSize
  BY <1>1, BridgeAssumption
<1>3. /\ ReadEnd(v) \in Nat
      /\ ReadEnd(v) <= offset + ChunkSize /\ ReadEnd(v) <= Len(v)
      /\ ReadEnd(v) = offset + ChunkSize \/ ReadEnd(v) = Len(v)
  BY <1>1, <1>2, LeastType DEF ReadEnd
<1>. QED BY <1>1, <1>2, <1>3

-----------------------------------------------------------------------------
(***************************************************************************)
(* The main thread serves a request.                                       *)
(***************************************************************************)
\* What the handler may rely on when it serves.
LEMMA Requested ==
  ASSUME TypeOK, Handshake, Transfer, ~late, hpc = "serve"
  PROVE  /\ op \in Operations /\ frame = Request /\ frame \in Requests
         /\ BeforeRequest
         /\ offset \in Nat /\ op.data \in Bytestrings /\ op.kind \in Kinds
         /\ op.kind \in {"read", "exit"} => op.data = <<>>
         /\ wpc \notin {"idle", "send", "ready", "woken"}
<1>1. status = "READY" /\ wpc \notin {"idle", "send", "ready", "woken"}
  BY DEF Handshake, Busy
<1>2. op # None /\ frame = Request /\ BeforeRequest
  BY <1>1 DEF Transfer, Unserved
<1>3. op \in Operations /\ offset \in Nat BY <1>2 DEF TypeOK
<1>4. op.data \in Bytestrings /\ op.kind \in Kinds BY <1>3 DEF Operations
<1>5. frame \in Requests BY <1>2, RequestType
<1>6. op.kind \in {"read", "exit"} => op.data = <<>> BY <1>2 DEF Transfer
<1>. QED BY <1>1, <1>2, <1>3, <1>4, <1>5, <1>6

\* A request of the worker continues the accumulator, with its chunk appended.
LEMMA Continues ==
  ASSUME TypeOK, Handshake, Transfer, ~late, hpc = "serve",
         op.kind \in {"write", "append"}
  PROVE  /\ Accepts(Restarted) <=> frame.total <= MaxTransfer
         /\ Accumulated(Restarted) =
              [kind |-> op.kind, total |-> Len(op.data), received |-> ChunkEnd,
               data |-> SubSeq(op.data, 1, ChunkEnd)]
         /\ effect = None
         /\ frame.more <=> ChunkEnd < Len(op.data)
         /\ frame.kind = op.kind
<1>. DEFINE chunk == SubSeq(op.data, offset + 1, ChunkEnd)
<1>1. op \in Operations /\ frame = Request /\ BeforeRequest /\ offset \in Nat
      /\ op.data \in Bytestrings
  BY Requested
<1>2. op # None BY <1>1, NoneAssumption
<1>3. /\ ChunkEnd \in Nat /\ ChunkEnd <= Len(op.data) /\ Len(op.data) \in Nat
      /\ ChunkEnd = Len(op.data) \/ ChunkEnd = offset + ChunkSize
  BY <1>2, ChunkEndType
<1>4. /\ frame.kind = op.kind /\ frame.offset = offset /\ frame.chunk = chunk
      /\ frame.total = Len(op.data)
      /\ frame.more <=> ChunkEnd < Len(op.data)
  BY <1>1 DEF Request
<1>5. effect = None /\ (offset = 0 \/ (offset < Len(op.data) /\ Gathered(offset)))
  BY <1>1 DEF BeforeRequest
<1>6. offset <= ChunkEnd
  BY <1>1, <1>3, <1>5, BridgeAssumption
<1>7. Restarted = [kind |-> op.kind, total |-> Len(op.data), received |-> offset,
                   data |-> SubSeq(op.data, 1, offset)]
  <2>1. CASE offset = 0
    BY <1>4, <2>1, NoPiece DEF Restarted
  <2>2. CASE offset # 0
    BY <1>4, <1>5, <2>2 DEF Restarted, Gathered
  <2>. QED BY <2>1, <2>2
<1>8. Len(chunk) = ChunkEnd - offset
  <2>1. Len(chunk) = IF offset < ChunkEnd THEN ChunkEnd - offset ELSE 0
    BY <1>1, <1>3, PieceType
  <2>. QED BY <1>1, <1>3, <1>6, <2>1
<1>9. SubSeq(op.data, 1, offset) \o chunk = SubSeq(op.data, 1, ChunkEnd)
  BY <1>1, <1>3, <1>6, AdjacentPieces
<1>10. offset + Len(chunk) = ChunkEnd
  BY <1>1, <1>3, <1>8
<1>. HIDE DEF chunk
<1>11. Accumulated(Restarted) =
        [kind |-> op.kind, total |-> Len(op.data), received |-> ChunkEnd,
         data |-> SubSeq(op.data, 1, ChunkEnd)]
  BY <1>4, <1>7, <1>9, <1>10 DEF Accumulated
<1>12. Restarted # None
  <2>1. SubSeq(op.data, 1, offset) \in Bytestrings
    BY <1>1, <1>3, <1>6, PieceType
  <2>2. Restarted \in Accumulators
    BY <1>1, <1>3, <1>7, <2>1, Requested DEF Accumulators
  <2>. QED BY <2>2, NoneAssumption
<1>13. Accepts(Restarted) <=> frame.total <= MaxTransfer
  BY <1>3, <1>4, <1>7, <1>10, <1>11, <1>12 DEF Accepts
<1>. QED BY <1>4, <1>5, <1>11, <1>13

\* A read serves the file as the first request found it.
LEMMA ReadsOn ==
  ASSUME TypeOK, Handshake, Transfer, ~late, HandleReadFile
  PROVE  \E v \in Bytestrings :
           /\ op.kind = "read"
           /\ effect' = [value |-> v] /\ offset <= Len(v) /\ out = SubSeq(v, 1, offset)
           /\ ServeRead(v) /\ frame.offset = offset
           /\ effect = None => v = file
           /\ effect # None => effect' = effect
<1>1. hpc = "serve" /\ frame.kind = "read" BY DEF HandleReadFile, Serving
<1>2. frame = Request /\ BeforeRequest /\ offset \in Nat
  BY <1>1, Requested
<1>3. op.kind = "read" /\ frame.offset = offset BY <1>1, <1>2 DEF Request
<1>4. CASE offset = 0
  <2>1. Loads BY <1>3, <1>4 DEF Loads
  <2>2. file \in Bytestrings /\ effect' = [value |-> file] /\ ServeRead(file)
    BY <2>1 DEF HandleReadFile, TypeOK
  <2>3. out = SubSeq(file, 1, offset) /\ offset <= Len(file) /\ effect = None
    BY <1>2, <1>3, <1>4, <2>2, NoPiece, LenProperties DEF BeforeRequest
  <2>. QED BY <1>3, <2>2, <2>3
<1>5. CASE offset # 0
  <2>1. /\ cache # None /\ effect = [value |-> cache.data]
        /\ offset < Len(cache.data) /\ out = SubSeq(cache.data, 1, offset)
    BY <1>2, <1>3, <1>5 DEF BeforeRequest
  <2>2. cache.data \in Bytestrings /\ Len(cache.data) \in Nat
    BY <2>1, LenProperties DEF TypeOK, Caches
  <2>3. effect' = effect /\ ServeRead(cache.data)
    BY <1>3, <1>5, <2>1 DEF HandleReadFile, Loads
  <2>4. effect # None
    <3>1. effect \in Outcomes BY <2>1, <2>2 DEF Outcomes
    <3>. QED BY <3>1, NoneAssumption
  <2>5. offset <= Len(cache.data) BY <1>2, <2>1, <2>2
  <2>6. effect' = [value |-> cache.data] BY <2>1, <2>3
  <2>. QED BY <1>3, <2>1, <2>2, <2>3, <2>4, <2>5, <2>6, Zenon
<1>. QED BY <1>4, <1>5

\* The answer to the request under way, when the request is served.
LEMMA ServeAnswers ==
  ASSUME TypeOK, Handshake, Transfer, ~late, Serve
  PROVE  AnswerIs(reply.status, reply.result)'
<1>1. /\ hpc = "serve" /\ UNCHANGED <<op, offset, out>>
      /\ frame.kind \in Kinds
  BY DEF Serve, HandleReadFile, HandleWriteFile, FsError, HandleExit, Serving,
         workerVars, Kinds
<1>2. /\ op \in Operations /\ frame = Request /\ BeforeRequest
      /\ offset \in Nat /\ op.data \in Bytestrings
  BY <1>1, Requested
<1>3. frame.kind = op.kind /\ frame.offset = offset
  BY <1>2 DEF Request
<1>4. ASSUME reply' = Error, effect' = None
      PROVE  AnswerIs(reply.status, reply.result)'
  BY <1>4, ErrorType DEF AnswerIs
<1>5. ASSUME HandleReadFile
      PROVE  AnswerIs(reply.status, reply.result)'
  <2>1. PICK v \in Bytestrings :
           /\ op.kind = "read"
           /\ effect' = [value |-> v] /\ offset <= Len(v) /\ out = SubSeq(v, 1, offset)
           /\ ServeRead(v) /\ frame.offset = offset
    BY <1>5, ReadsOn
  <2>. DEFINE piece == SubSeq(v, offset + 1, ReadEnd(v))
  <2>2. ReadEnd(v) \in Nat /\ Len(v) \in Nat /\ ReadEnd(v) <= Len(v)
    BY <2>1, ReadEndType
  <2>3. piece \in Bytestrings
    BY <1>2, <2>2, PieceType
  <2>4. /\ cache' = IF ReadEnd(v) < Len(v) THEN [data |-> v] ELSE None
        /\ reply' = Success(piece, Len(v))
    BY <1>2, <2>1, <2>2 DEF ServeRead, ReadEnd
  <2>. HIDE DEF piece
  <2>5. reply'.status = "SUCCESS" /\ reply'.result = [data |-> piece, total |-> Len(v)]
    BY <2>2, <2>3, <2>4, SuccessType
  <2>6. effect' # None /\ effect'.value = v
    <3>1. [value |-> v] \in Outcomes BY DEF Outcomes
    <3>. QED BY <2>1, <3>1, NoneAssumption
  <2>7. ReadEnd(v)' = ReadEnd(v)
    BY <1>1 DEF ReadEnd
  <2>8. ReadEnd(effect.value)' = ReadEnd(v)
    BY <1>1, <2>6 DEF ReadEnd
  <2>. QED BY <1>1, <2>1, <2>4, <2>5, <2>6, <2>8 DEF AnswerIs, piece
<1>6. ASSUME HandleWriteFile
      PROVE  AnswerIs(reply.status, reply.result)'
  <2>1. op.kind \in {"write", "append"}
    BY <1>3, <1>6 DEF HandleWriteFile, Serving
  <2>2. /\ effect = None
        /\ Accumulated(Restarted) =
              [kind |-> op.kind, total |-> Len(op.data), received |-> ChunkEnd,
               data |-> SubSeq(op.data, 1, ChunkEnd)]
        /\ frame.more <=> ChunkEnd < Len(op.data)
    BY <1>1, <2>1, Continues
  <2>3. Success(<<>>, 0).status = "SUCCESS"
    BY EmptySeq, SuccessType
  <2>4. ChunkEnd' = ChunkEnd
    BY <1>1 DEF ChunkEnd
  <2>7. CASE ~Accepts(Restarted)
    BY <1>4, <1>6, <2>2, <2>7 DEF HandleWriteFile, Reject
  <2>5. CASE Accepts(Restarted) /\ frame.more
    <3>1. acc' = Accumulated(Restarted) /\ effect' = None /\ reply'.status = "SUCCESS"
      BY <1>6, <2>2, <2>3, <2>5 DEF HandleWriteFile, BufferChunk
    <3>2. Gathered(ChunkEnd)'
      BY <1>1, <2>2, <2>4, <3>1 DEF Gathered
    <3>. QED BY <1>1, <2>1, <2>2, <2>4, <2>5, <3>1, <3>2 DEF AnswerIs
  <2>6. CASE Accepts(Restarted) /\ ~frame.more
    <3>1. effect' = [value |-> <<>>] /\ reply'.status = "SUCCESS"
      BY <1>6, <2>2, <2>3, <2>6 DEF HandleWriteFile, Commit
    <3>. QED BY <1>1, <2>1, <2>2, <2>4, <2>6, <3>1 DEF AnswerIs
  <2>. QED BY <2>5, <2>6, <2>7
<1>7. ASSUME FsError
      PROVE  AnswerIs(reply.status, reply.result)'
  <2>1. reply' = Error /\ effect' = effect BY <1>7 DEF FsError
  <2>2. effect = None
    <3>1. CASE op.kind = "read"
      BY <1>2, <1>3, <1>7, <3>1 DEF FsError, Loads, BeforeRequest
    <3>2. CASE op.kind \in {"write", "append"}
      BY <1>2, <3>2 DEF BeforeRequest
    <3>. QED BY <1>3, <1>7, <3>1, <3>2 DEF FsError, Serving
  <2>. QED BY <1>4, <2>1, <2>2
<1>8. ASSUME HandleExit
      PROVE  AnswerIs(reply.status, reply.result)'
  <2>1. op.kind = "exit" BY <1>3, <1>8 DEF HandleExit, Serving
  <2>2. Len(op.data) = 0 BY <1>1, <2>1, Requested, EmptySeq
  <2>3. effect' = [value |-> <<>>] /\ reply'.status = "SUCCESS"
    BY <1>8, EmptySeq, SuccessType DEF HandleExit
  <2>4. ~(ChunkEnd < Len(op.data))'
    <3>1. ChunkEnd \in Nat BY <1>2, ChunkEndType, NoneAssumption
    <3>2. ChunkEnd' = ChunkEnd BY <1>1 DEF ChunkEnd
    <3>. QED BY <1>1, <2>2, <3>1, <3>2
  <2>. QED BY <1>1, <2>1, <2>3, <2>4 DEF AnswerIs
<1>. QED BY <1>5, <1>6, <1>7, <1>8 DEF Serve

-----------------------------------------------------------------------------
(***************************************************************************)
(* The worker takes an answer.                                             *)
(***************************************************************************)
\* It fails when nothing has taken effect, returns what has, or goes on.
LEMMA WokenEnds ==
  ASSUME TypeOK, Handshake, Transfer, ~late, Woken
  PROVE  \/ Finish(Failed) /\ effect = None
         \/ Finish(effect) /\ effect # None
         \/ Again /\ BeforeRequest'
<1>1. /\ wpc = "woken" /\ op # None /\ op \in Operations /\ offset \in Nat
      /\ out \in Bytestrings /\ op.data \in Bytestrings
  BY DEF Woken, TypeOK, Operations
<1>2. status \in {"SUCCESS", "ERROR"} /\ AnswerIs(status, result)
  BY <1>1 DEF Handshake, Transfer, Answered
<1>3. UNCHANGED <<cache, acc>>
  BY DEF Woken, handlerVars
<1>4. CASE status = "ERROR"
  BY <1>2, <1>4 DEF Woken, AnswerIs
<1>5. CASE status = "SUCCESS" /\ op.kind = "read"
  <2>. DEFINE v == effect.value
              piece == SubSeq(v, offset + 1, ReadEnd(v))
  <2>1. /\ effect # None /\ offset <= Len(v) /\ out = SubSeq(v, 1, offset)
        /\ result = [data |-> piece, total |-> Len(v)]
        /\ ReadEnd(v) < Len(v) => cache = [data |-> v]
    BY <1>2, <1>5 DEF AnswerIs
  <2>2. effect = [value |-> v] /\ v \in Bytestrings
    BY <2>1 DEF TypeOK, Outcomes
  <2>. HIDE DEF v
  <2>3. /\ ReadEnd(v) \in Nat /\ Len(v) \in Nat
        /\ offset <= ReadEnd(v) /\ ReadEnd(v) <= Len(v)
        /\ ReadEnd(v) < Len(v) => ReadEnd(v) > offset
    BY <2>1, <2>2, ReadEndType
  <2>4. out \o piece = SubSeq(v, 1, ReadEnd(v))
    BY <1>1, <2>1, <2>2, <2>3, AdjacentPieces
  <2>5. /\ SubSeq(v, 1, ReadEnd(v)) \in Bytestrings
        /\ Len(SubSeq(v, 1, ReadEnd(v))) = ReadEnd(v)
    <3>1. /\ SubSeq(v, 0 + 1, ReadEnd(v)) \in Bytestrings
          /\ Len(SubSeq(v, 0 + 1, ReadEnd(v))) =
               IF 0 < ReadEnd(v) THEN ReadEnd(v) - 0 ELSE 0
      BY <2>2, <2>3, PieceType
    <3>. QED BY <2>3, <3>1
  <2>6. result.data = piece /\ result.total = Len(v) BY <2>1
  <2>. HIDE DEF piece
  <2>7. ReadOn BY <1>5 DEF Woken
  <2>8. CASE ReadEnd(v) = Len(v)
    <3>1. out \o result.data = v /\ Len(v) >= result.total
      BY <2>2, <2>3, <2>4, <2>6, <2>8, WholePiece
    <3>2. Finish([value |-> v])
      BY <2>7, <3>1 DEF ReadOn
    <3>. QED BY <2>1, <2>2, <3>2
  <2>9. CASE ReadEnd(v) < Len(v)
    <3>1. result.data # <<>>
      <4>1. Len(piece) = ReadEnd(v) - offset
        <5>1. Len(piece) = IF offset < ReadEnd(v) THEN ReadEnd(v) - offset ELSE 0
          BY <1>1, <2>2, <2>3, PieceType DEF piece
        <5>. QED BY <1>1, <2>3, <5>1
      <4>2. Len(piece) # 0 BY <1>1, <2>3, <2>9, <4>1
      <4>. QED BY <2>6, <4>2, EmptySeq
    <3>2. /\ Again /\ out' = SubSeq(v, 1, ReadEnd(v)) /\ offset' = ReadEnd(v)
      <4>1. out \o result.data = SubSeq(v, 1, ReadEnd(v))
        BY <2>4, <2>6
      <4>2. Len(out \o result.data) = ReadEnd(v) /\ ~(ReadEnd(v) >= result.total)
        BY <2>3, <2>5, <2>6, <2>9, <4>1
      <4>. QED BY <2>7, <3>1, <4>1, <4>2 DEF ReadOn
    <3>3. cache' = [data |-> v] /\ cache' # None
      <4>1. [data |-> v] \in Caches BY <2>2 DEF Caches
      <4>. QED BY <1>3, <2>1, <2>9, <4>1, NoneAssumption
    <3>4. op' = op /\ effect' = effect BY <3>2 DEF Again
    <3>5. offset' # 0 BY <1>1, <2>3, <2>9, <3>2
    <3>6. BeforeRequest'
      BY <1>5, <2>2, <2>9, <3>2, <3>3, <3>4, <3>5 DEF BeforeRequest
    <3>. QED BY <3>2, <3>6
  <2>. QED BY <2>3, <2>8, <2>9
<1>6. CASE status = "SUCCESS" /\ op.kind # "read"
  <2>1. WriteOn BY <1>6 DEF Woken
  <2>2. ChunkEnd \in Nat /\ Len(op.data) \in Nat /\ ChunkEnd <= Len(op.data)
    BY <1>1, ChunkEndType
  <2>3. CASE ChunkEnd < Len(op.data)
    <3>1. effect = None /\ Gathered(ChunkEnd)
      BY <1>2, <1>6, <2>3 DEF AnswerIs
    <3>2. Again /\ offset' = ChunkEnd
      BY <2>1, <2>2, <2>3 DEF WriteOn
    <3>3. op' = op /\ effect' = effect BY <3>2 DEF Again
    <3>4. op.kind # "exit"
      BY <1>1, <2>3, <2>2, EmptySeq DEF Transfer
    <3>5. Gathered(offset)'
      BY <1>3, <3>1, <3>2, <3>3 DEF Gathered
    <3>6. BeforeRequest'
      BY <1>6, <2>3, <3>1, <3>2, <3>3, <3>4, <3>5 DEF BeforeRequest
    <3>. QED BY <3>2, <3>6
  <2>4. CASE ~(ChunkEnd < Len(op.data))
    <3>1. effect = [value |-> <<>>]
      BY <1>2, <1>6, <2>4 DEF AnswerIs
    <3>2. Finish([value |-> <<>>])
      BY <2>1, <2>2, <2>4 DEF WriteOn
    <3>3. [value |-> <<>>] \in Outcomes
      BY EmptySeq DEF Outcomes
    <3>. QED BY <3>1, <3>2, <3>3, NoneAssumption
  <2>. QED BY <2>3, <2>4
<1>. QED BY <1>2, <1>4, <1>5, <1>6

-----------------------------------------------------------------------------
(***************************************************************************)
(* Every step keeps Transfer.                                              *)
(***************************************************************************)
transfer == <<op, offset, out, effect, cache, acc>>

LEMMA Kept ==
  ASSUME UNCHANGED transfer
  PROVE  /\ BeforeRequest' <=> BeforeRequest
         /\ Request' = Request
         /\ UNCHANGED <<status, result>> =>
              (AnswerIs(status, result)' <=> AnswerIs(status, result))
         /\ UNCHANGED reply =>
              (AnswerIs(reply.status, reply.result)' <=>
                 AnswerIs(reply.status, reply.result))
         /\ status' = reply.status /\ result' = reply.result =>
              (AnswerIs(status, result)' <=> AnswerIs(reply.status, reply.result))
<1>1. ChunkEnd' = ChunkEnd /\ (\A n : Gathered(n)' <=> Gathered(n))
  BY DEF transfer, ChunkEnd, Gathered
<1>2. BeforeRequest' <=> BeforeRequest
  BY DEF transfer, BeforeRequest, Gathered
<1>3. Request' = Request
  BY <1>1 DEF transfer, Request
<1>4. Gathered(ChunkEnd)' <=> Gathered(ChunkEnd)
  BY <1>1 DEF transfer, Gathered
<1>5. ReadEnd(effect.value)' = ReadEnd(effect.value)
  BY DEF transfer, ReadEnd
<1>6. ASSUME UNCHANGED <<status, result>>
      PROVE  AnswerIs(status, result)' <=> AnswerIs(status, result)
  BY <1>1, <1>4, <1>5, <1>6 DEF transfer, AnswerIs
<1>7. ASSUME UNCHANGED reply
      PROVE  AnswerIs(reply.status, reply.result)' <=>
               AnswerIs(reply.status, reply.result)
  BY <1>1, <1>4, <1>5, <1>7 DEF transfer, AnswerIs
<1>8. ASSUME status' = reply.status, result' = reply.result
      PROVE  AnswerIs(status, result)' <=> AnswerIs(reply.status, reply.result)
  BY <1>1, <1>4, <1>5, <1>8 DEF transfer, AnswerIs
<1>. QED BY <1>2, <1>3, <1>6, <1>7, <1>8

LEMMA InitTransfer == Init => Transfer
BY DEF Init, Transfer, Unserved, Answered

\* A late notify is not undone.
LEMMA LateStays ==
  ASSUME [Next]_vars, late
  PROVE  late'
<1>1. CASE NotifyWorker
  BY <1>1 DEF NotifyWorker
<1>2. CASE Serve
  BY <1>2 DEF Serve, HandleReadFile, HandleWriteFile, FsError, HandleExit, Serving
<1>3. CASE UNCHANGED vars
  BY <1>3 DEF vars
<1>. QED
  BY <1>1, <1>2, <1>3
  DEF Next, WorkerStep, HandlerStep, Call, End, Begin, Send, Ready, NotifyHandler, Wait,
      WorkerAt, Woken, Die, Check, Arm, Stop, Answer, HandlerAt, Edit, Expire

LEMMA NextTransfer ==
  TypeOK /\ Handshake /\ Transfer /\ [Next]_vars => Transfer'
<1>. SUFFICES ASSUME TypeOK, Handshake, Transfer, [Next]_vars, ~late'
              PROVE  Transfer'
  BY DEF Transfer
<1>0. ~late
  BY LateStays
<1>. USE <1>0
<1>. USE DEF Unserved, Answered
<1>1. ASSUME NEW k \in Kinds, NEW d, Begin(k, d), k \in {"read", "exit"} => d = <<>>
      PROVE  Transfer'
  <2>1. /\ wpc = "idle" /\ wpc' = "send" /\ op' = [kind |-> k, data |-> d]
        /\ offset' = 0 /\ out' = <<>>
        /\ UNCHANGED <<status, hpc, effect>>
    BY <1>1 DEF Begin, bufferVars, handlerVars
  <2>2. effect' = None /\ status' # "READY" /\ hpc' # "answer"
    BY <2>1 DEF Transfer, Handshake, Busy
  <2>3. BeforeRequest'
    BY <2>1, <2>2 DEF BeforeRequest
  <2>. QED BY <1>1, <2>1, <2>2, <2>3 DEF Transfer
<1>2. ASSUME NEW k \in Kinds, NEW d \in Payloads \cup {<<>>}, Call(k, d)
      PROVE  Transfer'
  BY <1>1, <1>2 DEF Call
<1>3. CASE End
  BY <1>1, <1>3 DEF End, Kinds
<1>4. CASE Send
  <2>1. UNCHANGED transfer /\ UNCHANGED reply
    BY <1>4 DEF Send, transfer, handlerVars
  <2>2. hpc' # "answer" /\ op' # None
    BY <1>4 DEF Send, Handshake, Busy, handlerVars, TypeOK
  <2>. QED BY <1>4, <2>1, <2>2, Kept DEF Send, Transfer, transfer
<1>5. CASE Ready
  <2>1. UNCHANGED transfer /\ hpc' # "answer"
    BY <1>5 DEF Ready, WorkerAt, Handshake, Busy, transfer, handlerVars
  <2>. QED BY <1>5, <2>1, Kept DEF Ready, WorkerAt, Transfer, transfer, handlerVars
<1>6. CASE NotifyHandler
  <2>1. UNCHANGED transfer /\ UNCHANGED <<status, result, frame, reply>>
    BY <1>6 DEF NotifyHandler, WorkerAt, transfer, bufferVars
  <2>. QED BY <1>6, <2>1, Kept DEF NotifyHandler, WorkerAt, Transfer, transfer
<1>7. CASE Wait
  <2>1. UNCHANGED transfer /\ UNCHANGED <<status, result, frame, reply, hpc>>
    BY <1>7 DEF Wait, WorkerAt, transfer, bufferVars, handlerVars
  <2>. QED BY <1>7, <2>1, Kept DEF Wait, WorkerAt, Transfer, transfer
<1>8. CASE Woken
  <2>1. UNCHANGED <<status, result, frame, reply, hpc>>
    BY <1>8 DEF Woken, bufferVars, handlerVars
  <2>2. status' # "READY" /\ hpc' # "answer"
    BY <1>8, <2>1 DEF Woken, Handshake, Busy
  <2>3. ASSUME NEW o, Finish(o)
        PROVE  Transfer'
    BY <2>2, <2>3 DEF Finish, Transfer
  <2>4. CASE Again /\ BeforeRequest'
    BY <2>2, <2>4 DEF Again, Transfer
  <2>. QED BY <1>8, <2>3, <2>4, WokenEnds
<1>9. CASE Check
  <2>1. UNCHANGED transfer /\ UNCHANGED <<status, result, frame, reply, wpc>>
    BY <1>9 DEF Check, HandlerAt, transfer, workerVars
  <2>2. hpc = "check" /\ hpc' \in {"serve", "arm"}
    BY <1>9 DEF Check, HandlerAt
  <2>. QED BY <2>1, <2>2, Kept DEF Transfer, transfer
<1>10. CASE Arm
  <2>1. UNCHANGED transfer /\ UNCHANGED <<status, result, frame, reply, wpc>>
    BY <1>10 DEF Arm, HandlerAt, transfer, workerVars
  <2>2. hpc = "arm" /\ hpc' \in {"parked", "check"}
    BY <1>10 DEF Arm, HandlerAt
  <2>. QED BY <2>1, <2>2, Kept DEF Transfer, transfer
<1>11. CASE Stop
  <2>1. UNCHANGED transfer /\ UNCHANGED <<status, result, frame, reply, wpc>>
    BY <1>11 DEF Stop, HandlerAt, transfer, workerVars
  <2>2. hpc \in {"check", "parked"} /\ hpc' = "stopped"
    BY <1>11 DEF Stop, HandlerAt
  <2>. QED BY <2>1, <2>2, Kept DEF Transfer, transfer
<1>12. CASE Serve
  <2>1. /\ hpc = "serve" /\ hpc' = "answer"
        /\ UNCHANGED <<op, offset, out, wpc, status, result, frame>>
    BY <1>12
    DEF Serve, HandleReadFile, HandleWriteFile, FsError, HandleExit, Serving,
        workerVars, bufferVars
  <2>2. status = "READY" /\ wpc \notin {"idle", "send", "ready"}
    BY <2>1 DEF Handshake, Busy
  <2>3. AnswerIs(reply.status, reply.result)'
    BY <1>12, ServeAnswers
  <2>4. Request' = Request
    BY <2>1 DEF Request, ChunkEnd
  <2>. QED BY <2>1, <2>2, <2>3, <2>4 DEF Transfer
<1>13. CASE Answer
  <2>1. /\ UNCHANGED transfer /\ UNCHANGED <<frame, wpc>>
        /\ hpc = "answer" /\ hpc' = "notify"
        /\ status' = reply.status /\ result' = reply.result
    BY <1>13 DEF Answer, HandlerAt, transfer, workerVars
  <2>2. status = "READY" /\ wpc \notin {"idle", "send", "ready"}
    BY <2>1 DEF Handshake, Busy
  <2>3. reply.status # "READY"
    BY <2>1 DEF TypeOK
  <2>. QED BY <2>1, <2>2, <2>3, Kept DEF Transfer, transfer
<1>14. CASE NotifyWorker
  <2>1. UNCHANGED transfer /\ UNCHANGED <<status, result, frame, reply>>
    BY <1>14 DEF NotifyWorker, transfer, bufferVars
  <2>2. /\ hpc = "notify" /\ hpc' \in {"check", "stopped"}
        /\ wpc' = IF wpc = "parked" THEN "woken" ELSE wpc
    BY <1>14 DEF NotifyWorker
  <2>. QED BY <2>1, <2>2, Kept DEF Transfer, transfer
<1>15. CASE Die
  <2>1. UNCHANGED transfer /\ UNCHANGED <<status, result, frame, reply, hpc>>
    BY <1>15 DEF Die, WorkerAt, transfer, bufferVars, handlerVars
  <2>. QED BY <1>15, <2>1, Kept DEF Die, WorkerAt, Transfer, transfer
<1>16. ASSUME UNCHANGED <<bufferVars, workerVars, handlerVars, effect>>
      PROVE  Transfer'
  <2>1. UNCHANGED transfer /\ UNCHANGED <<status, result, frame, reply, hpc, wpc>>
    BY <1>16 DEF transfer, bufferVars, workerVars, handlerVars
  <2>. QED BY <2>1, Kept DEF Transfer, transfer
<1>17. CASE Expire
  BY <1>16, <1>17 DEF Expire
<1>18. ASSUME NEW d \in Payloads, Edit(d) PROVE Transfer'
  BY <1>16, <1>18 DEF Edit
<1>19. CASE UNCHANGED vars
  BY <1>16, <1>19 DEF vars
<1>. QED
  BY <1>2, <1>3, <1>4, <1>5, <1>6, <1>7, <1>8, <1>9, <1>10, <1>11, <1>12, <1>13,
     <1>14, <1>15, <1>17, <1>18, <1>19
  DEF Next, WorkerStep, HandlerStep

(***************************************************************************)
(* Until a late notify, what each side has received is what the other has  *)
(* sent.                                                                   *)
(***************************************************************************)
THEOREM TransfersAgree == Spec => []Transfer
BY InitTransfer, NextTransfer, ThreadsAgree, TypeCorrect, PTL DEF Spec

(***************************************************************************)
(* Until a late notify, the main thread accepts every frame of the worker  *)
(* whose total is in the limit of a transfer.                              *)
(***************************************************************************)
THEOREM EveryFrameAccepted == Spec => []FramesAccepted
<1>1. TypeOK /\ Handshake /\ Transfer => FramesAccepted
  <2>. SUFFICES ASSUME TypeOK, Handshake, Transfer, ~late, hpc = "serve"
                PROVE  /\ frame # None
                       /\ frame.kind \in {"write", "append"}
                          /\ frame.total <= MaxTransfer => Accepts(Restarted)
                       /\ frame.kind = "read" =>
                            \/ frame.offset = 0
                            \/ cache # None /\ frame.offset < Len(cache.data)
    BY DEF FramesAccepted
  <2>1. frame = Request /\ frame # None /\ BeforeRequest
    BY Requested, NoneAssumption
  <2>2. frame.kind = op.kind /\ frame.offset = offset
    BY <2>1 DEF Request
  <2>. QED BY <2>1, <2>2, Continues DEF BeforeRequest
<1>. QED BY <1>1, ThreadsAgree, TransfersAgree, TypeCorrect, PTL

-----------------------------------------------------------------------------
(***************************************************************************)
(* The bridge implements AtomicFile.                                       *)
(***************************************************************************)
LEMMA InitFile == Init => File!Init
BY DEF Init, File!Init

\* A request takes effect when the main thread serves it: the first one of a
\* read, the last one of a write.
LEMMA ServeFile ==
  ASSUME TypeOK, Handshake, Transfer, ~late, Serve
  PROVE  File!TakeEffect \/ UNCHANGED File!vars
<1>1. /\ hpc = "serve" /\ UNCHANGED <<op, last>>
  BY DEF Serve, HandleReadFile, HandleWriteFile, FsError, HandleExit, Serving,
         workerVars
<1>2. op # None /\ op \in Operations /\ frame.kind = op.kind /\ BeforeRequest
      /\ op.data \in Bytestrings
  BY <1>1, Requested, NoneAssumption DEF Request
<1>3. CASE HandleReadFile
  <2>1. PICK v \in Bytestrings :
           /\ op.kind = "read" /\ effect' = [value |-> v]
           /\ effect = None => v = file
           /\ effect # None => effect' = effect
    BY <1>3, ReadsOn
  <2>2. file' = file BY <1>3 DEF HandleReadFile
  <2>. QED BY <1>1, <1>2, <2>1, <2>2 DEF File!TakeEffect, File!vars
<1>4. CASE HandleWriteFile
  <2>1. op.kind \in {"write", "append"}
    BY <1>2, <1>4 DEF HandleWriteFile, Serving
  <2>2. /\ effect = None
        /\ Accumulated(Restarted).data = SubSeq(op.data, 1, ChunkEnd)
        /\ frame.more <=> ChunkEnd < Len(op.data)
    BY <1>1, <2>1, Continues
  <2>5. CASE ~Accepts(Restarted)
    BY <1>1, <1>4, <2>5 DEF HandleWriteFile, Reject, File!vars
  <2>3. CASE Accepts(Restarted) /\ frame.more
    BY <1>1, <1>4, <2>2, <2>3 DEF HandleWriteFile, BufferChunk, File!vars
  <2>4. CASE Accepts(Restarted) /\ ~frame.more
    <3>1. ChunkEnd = Len(op.data)
      BY <1>2, <2>2, <2>4, ChunkEndType
    <3>2. Accumulated(Restarted).data = op.data
      BY <1>2, <2>2, <3>1, WholePiece
    <3>3. /\ file' = IF op.kind = "write" THEN op.data ELSE file \o op.data
          /\ effect' = [value |-> <<>>]
      BY <1>2, <1>4, <2>2, <2>4, <3>2 DEF HandleWriteFile, Commit
    <3>. QED BY <1>1, <1>2, <2>1, <2>2, <3>3 DEF File!TakeEffect
  <2>. QED BY <2>3, <2>4, <2>5
<1>5. CASE FsError
  BY <1>1, <1>5 DEF FsError, File!vars
<1>6. CASE HandleExit
  <2>1. op.kind = "exit" BY <1>2, <1>6 DEF HandleExit, Serving
  <2>2. effect = None BY <1>2, <2>1 DEF BeforeRequest
  <2>. QED BY <1>1, <1>2, <1>6, <2>1, <2>2 DEF HandleExit, File!TakeEffect
<1>. QED BY <1>3, <1>4, <1>5, <1>6 DEF Serve

LEMMA NextFile ==
  TypeOK /\ Handshake /\ Transfer /\ [Next]_vars =>
    [late' \/ File!Next]_(File!vars)
<1>. SUFFICES ASSUME TypeOK, Handshake, Transfer, [Next]_vars, ~late'
              PROVE  File!Next \/ UNCHANGED File!vars
  OBVIOUS
<1>0. ~late
  BY LateStays
<1>. USE <1>0
<1>1. ASSUME NEW k \in Kinds, NEW d \in Payloads \cup {<<>>}, Begin(k, d)
      PROVE  File!Next
  <2>1. File!Invoke(k, d)
    BY <1>1 DEF Begin, File!Invoke, TypeOK, worldVars
  <2>. QED BY <2>1 DEF File!Next, File!Kinds, Kinds
<1>2. CASE Woken
  <2>1. op # None /\ file' = file BY <1>2 DEF Woken, TypeOK, worldVars
  <2>2. CASE Finish(Failed) /\ effect = None
    <3>1. File!Fail
      BY <2>1, <2>2 DEF Finish, File!Fail, Failed, File!Failed
    <3>. QED BY <3>1 DEF File!Next
  <2>3. CASE Finish(effect) /\ effect # None
    <3>1. File!Return
      BY <2>1, <2>3 DEF Finish, File!Return
    <3>. QED BY <3>1 DEF File!Next
  <2>4. CASE Again /\ BeforeRequest'
    BY <2>1, <2>4 DEF Again, File!vars
  <2>. QED BY <1>2, <2>2, <2>3, <2>4, WokenEnds
<1>3. CASE Serve
  BY <1>3, ServeFile DEF File!Next
<1>4. ASSUME NEW d \in Payloads, Edit(d)
      PROVE  File!Next
  <2>1. File!Edit(d)
    BY <1>4 DEF Edit, File!Edit, workerVars
  <2>. QED BY <2>1 DEF File!Next
<1>5. ASSUME UNCHANGED <<file, op, effect, last>>
      PROVE  UNCHANGED File!vars
  BY <1>5 DEF File!vars
<1>6. CASE Send
  BY <1>5, <1>6 DEF Send, worldVars
<1>7. CASE Ready \/ NotifyHandler \/ Wait \/ Die
  BY <1>5, <1>7 DEF Ready, NotifyHandler, Wait, Die, WorkerAt, worldVars
<1>8. CASE Check \/ Arm \/ Stop \/ Answer
  BY <1>5, <1>8 DEF Check, Arm, Stop, Answer, HandlerAt, workerVars, worldVars
<1>9. CASE NotifyWorker \/ Expire \/ UNCHANGED vars
  BY <1>5, <1>9 DEF NotifyWorker, Expire, vars, workerVars, worldVars
<1>10. CASE \E k \in Kinds, d \in Payloads \cup {<<>>} : Call(k, d)
  BY <1>1, <1>10 DEF Call
<1>11. CASE End
  BY <1>1, <1>11 DEF End, Kinds
<1>. QED
  BY <1>2, <1>3, <1>4, <1>6, <1>7, <1>8, <1>9, <1>10, <1>11
  DEF Next, WorkerStep, HandlerStep

(***************************************************************************)
(* Until a late notify, every operation of the worker is atomic: a read    *)
(* returns one content the file had during the call, a write or an append  *)
(* changes the file at one moment and to the whole of its payload, and a   *)
(* failed one never did.                                                   *)
(***************************************************************************)
THEOREM BridgeImplementsAtomicFile == Spec => ImplementsAtomicFile
BY InitFile, NextFile, ThreadsAgree, TransfersAgree, TypeCorrect, PTL
DEF Spec, ImplementsAtomicFile
=============================================================================
