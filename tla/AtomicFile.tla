----------------------------- MODULE AtomicFile -----------------------------
(***************************************************************************)
(* What the worker bridge promises the program that runs in a worker: a    *)
(* file operation takes effect at once, at one moment between its call and *)
(* its return, however many chunks its payload needs; one that fails has   *)
(* no effect.  Other users of the file system may change the file between  *)
(* any two steps.                                                          *)
(***************************************************************************)
EXTENDS Sequences

CONSTANTS Payloads, None

VARIABLES
  file,   \* the content of the file
  call,   \* the operation under way, [kind, data], or None
  effect, \* once the operation has taken effect: [value |-> what it returns]
  last    \* the outcome of the last operation: None, Failed or [value]

vars == <<file, call, effect, last>>

Failed == [error |-> TRUE]

Kinds == {"read", "write", "append", "exit"}

Init ==
  /\ file \in Payloads
  /\ call = None /\ effect = None /\ last = None

Invoke(k, d) ==
  /\ call = None
  /\ call' = [kind |-> k, data |-> d]
  /\ last' = None
  /\ UNCHANGED <<file, effect>>

TakeEffect ==
  /\ call # None /\ effect = None
  /\ file' = CASE call.kind = "write"  -> call.data
               [] call.kind = "append" -> file \o call.data
               [] OTHER                -> file
  /\ effect' = [value |-> IF call.kind = "read" THEN file ELSE <<>>]
  /\ UNCHANGED <<call, last>>

Return ==
  /\ call # None /\ effect # None
  /\ last' = effect /\ call' = None /\ effect' = None
  /\ UNCHANGED file

Fail ==
  /\ call # None /\ effect = None
  /\ last' = Failed /\ call' = None
  /\ UNCHANGED <<file, effect>>

\* Somebody else writes the file.
Edit(d) == file' = d /\ UNCHANGED <<call, effect, last>>

Next ==
  \/ \E k \in Kinds, d \in Payloads \cup {<<>>} : Invoke(k, d)
  \/ TakeEffect \/ Return \/ Fail
  \/ \E d \in Payloads : Edit(d)

Spec == Init /\ [][Next]_vars
=============================================================================
