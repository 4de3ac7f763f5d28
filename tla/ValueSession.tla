---------------------------- MODULE ValueSession ----------------------------
(***************************************************************************)
(* What exec(), snapshot(), restore() and fork() promise for the part of   *)
(* the state exec() copies: everything is a value.  An exec works on a     *)
(* private copy of its instance's state, which replaces that state as a    *)
(* whole when the exec ends or is dropped as a whole; a snapshot is a      *)
(* value taken once; instances never see one another.  ShellSession, where *)
(* these are references to mutable objects, implements it.                 *)
(***************************************************************************)
CONSTANTS
  Shells,    \* Bash instances
  Execs,     \* exec() calls
  Captures,  \* snapshots, those a fork takes included
  Fields,    \* the copied fields of the state
  None       \* the instance of an exec not started

VARIABLES
  sess,      \* the value of each field in each instance
  priv,      \* the value of each field for each running exec
  snap,      \* the value of each field in each snapshot
  home,      \* the instance an exec was started on
  run,       \* the running execs
  captured   \* the snapshots taken

vars == <<sess, priv, snap, home, run, captured>>

\* A state is, for each field, the set of execs whose writes it shows.
State == [Fields -> SUBSET Execs]
Blank == [f \in Fields |-> {}]

TypeOK ==
  /\ sess \in [Shells -> State]
  /\ priv \in [Execs -> State]
  /\ snap \in [Captures -> State]
  /\ home \in [Execs -> Shells \cup {None}]
  /\ run \subseteq Execs
  /\ captured \subseteq Captures

Init ==
  /\ sess = [i \in Shells |-> Blank]
  /\ priv = [e \in Execs |-> Blank]
  /\ snap = [x \in Captures |-> Blank]
  /\ home = [e \in Execs |-> None]
  /\ run = {}
  /\ captured = {}

\* e starts on instance i from the instance's state.
Begin(e, i) ==
  /\ home[e] = None
  /\ home' = [home EXCEPT ![e] = i]
  /\ run' = run \cup {e}
  /\ priv' = [priv EXCEPT ![e] = sess[i]]
  /\ UNCHANGED <<sess, snap, captured>>

\* c starts inside the running exec p, which passes it its directory and,
\* maybe, its environment.
BeginNested(c, p) ==
  /\ home[c] = None
  /\ p \in run
  /\ home' = [home EXCEPT ![c] = home[p]]
  /\ run' = run \cup {c}
  /\ \E env \in {sess[home[p]]["env"], priv[p]["env"],
                 sess[home[p]]["env"] \cup priv[p]["env"]} :
       priv' = [priv EXCEPT ![c] = [sess[home[p]] EXCEPT !["env"] = env,
                                                         !["cwd"] = priv[p]["cwd"]]]
  /\ UNCHANGED <<sess, snap, captured>>

\* e changes its own copy of field f, and nothing else.
Change(e, f) ==
  /\ e \in run
  /\ \E v \in {{e}, priv[e][f] \cup {e}} : priv' = [priv EXCEPT ![e][f] = v]
  /\ UNCHANGED <<sess, snap, home, run, captured>>

\* e ends: all its changes become the instance's state, or none does.
End(e) ==
  /\ e \in run
  /\ run' = run \ {e}
  /\ priv' = [priv EXCEPT ![e] = Blank]
  /\ \/ sess' = [sess EXCEPT ![home[e]] = priv[e]]
     \/ UNCHANGED sess
  /\ UNCHANGED <<snap, home, captured>>

Capture(x, i) ==
  /\ x \notin captured
  /\ captured' = captured \cup {x}
  /\ snap' = [snap EXCEPT ![x] = sess[i]]
  /\ UNCHANGED <<sess, priv, home, run>>

Reset(i, x) ==
  /\ x \in captured
  /\ sess' = [sess EXCEPT ![i] = snap[x]]
  /\ UNCHANGED <<priv, snap, home, run, captured>>

Next ==
  \/ \E e \in Execs, i \in Shells : Begin(e, i)
  \/ \E c, p \in Execs : BeginNested(c, p)
  \/ \E e \in Execs, f \in Fields : Change(e, f)
  \/ \E e \in Execs : End(e)
  \/ \E x \in Captures, i \in Shells : Capture(x, i) \/ Reset(i, x)

Spec == Init /\ [][Next]_vars

=============================================================================
