---------------------------- MODULE CallsInTurn ----------------------------
(***************************************************************************)
(* What the queue of js-exec promises its callers: they wait in one line,  *)
(* in the order they have called.  Whoever is first is being served, and   *)
(* nobody else gets a result or is told of a crash, but that a crash may   *)
(* be told to the whole line; anyone may give up.                          *)
(***************************************************************************)
CONSTANTS Execs, None

VARIABLES
  answer,  \* what each call was told; "pending" while it waits
  ahead,   \* who waits before each call
  current  \* who is being served, or None

vars == <<answer, ahead, current>>

Pending == {e \in Execs : answer[e] = "pending"}

Init ==
  /\ answer = [e \in Execs |-> "uncalled"]
  /\ ahead = [e \in Execs |-> {}]
  /\ current = None

\* The line has a first, who is served next, or is empty.
ServesFirst ==
  \/ Pending' = {} /\ current' = None
  \/ current' \in Pending' /\ ahead'[current'] = {}

Call(e) ==
  /\ answer[e] = "uncalled"
  /\ answer' = [answer EXCEPT ![e] = "pending"]
  /\ ahead' = [ahead EXCEPT ![e] = Pending]
  /\ ServesFirst

\* Those who are told something leave the line; the others keep their order.
Without(line, S) == [e \in Execs |-> IF e \in S THEN {} ELSE line[e] \ S]

Told(S, with) ==
  /\ answer' = [e \in Execs |-> IF e \in S THEN with ELSE answer[e]]
  /\ ahead' = Without(ahead, S)
  /\ ServesFirst

Serve == current # None /\ \E with \in {"result", "crashed"} : Told({current}, with)
Crash == Pending # {} /\ Told(Pending, "crashed")
GiveUp(e) == e \in Pending /\ Told({e}, "timeout")

Next == Serve \/ Crash \/ \E e \in Execs : Call(e) \/ GiveUp(e)

Spec == Init /\ [][Next]_vars
=============================================================================
