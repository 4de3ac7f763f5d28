---------------------------- MODULE ShellSession ----------------------------
(***************************************************************************)
(* The state of Bash instances (packages/bash/src/Bash.ts): what exec(),   *)
(* its nested calls, the persist stage, snapshot(), restore() and fork()   *)
(* do to the interpreter state and to the base filesystem.                 *)
(*                                                                         *)
(* The state of an instance is a record of references to mutable objects   *)
(* (Maps, Sets and plain records), so the model keeps references: session  *)
(* and view map each field to an object, and cell gives the contents of    *)
(* every object.  An object is named by the call that created it, so an    *)
(* allocation is never confused with an alias.  The contents of an object  *)
(* are abstracted to the set of execs whose writes are visible in it.      *)
(*                                                                         *)
(* A definition whose name adds a fault to that of the next one is its     *)
(* mutant: no action uses it, and PROJECT.json says which property fails   *)
(* when it takes the place of the definition.                              *)
(***************************************************************************)
EXTENDS FiniteSets

CONSTANTS
  Shells,              \* Bash instances, Root being the first one
  Root,
  Execs,               \* exec() calls, top level and nested
  Snaps,               \* snapshots taken by snapshot() or saveSnapshot()
  Restores,            \* calls of restore() or restoreSnapshot()
  Fields,              \* the fields of InterpreterState in the model, and "fs"
  DefaultPersistState, \* BashOptions.persistState, inherited by the forks
  CustomFs,            \* BashOptions.fs was given: the forks are built on it
  None                 \* no caller

\* How the code treats each field: what exec() copies, and how the persist
\* stage commits it.  exportedVars and readonlyVars are neither.
ExecCopies   == Fields \cap {"cwd", "env", "functions", "options"}
CommitByRef  == Fields \cap {"cwd", "env", "functions", "hashTable"}
CommitSpreadNothing == {}
CommitSpread == Fields \cap {"shoptOptions", "options"}
StateFields  == Fields \ {"fs"}

\* What cloneState copies: every mutable field.
CloneWithoutEnv == StateFields \ {"env"}
CloneCopies == StateFields

Calls == Execs \cup Snaps \cup Restores \cup Shells

ASSUME SessionAssumption ==
  /\ Root \in Shells
  /\ Fields \subseteq {"cwd", "env", "functions", "options", "shoptOptions",
                       "exportedVars", "readonlyVars", "hashTable", "fs"}
  /\ {DefaultPersistState, CustomFs} \subseteq BOOLEAN
  /\ None \notin Execs \cup Shells
  /\ Execs \cap Snaps = {} /\ Execs \cap Restores = {} /\ Execs \cap Shells = {}
  /\ Snaps \cap Restores = {} /\ Snaps \cap Shells = {}
  /\ Restores \cap Shells = {}

\* The object a call created for field f, when it began or when it committed.
Obj(call, at, f) == <<call, at, f>>
Objs == Calls \X {"begin", "commit"} \X Fields

VARIABLES
  cell,     \* contents of every object: the execs whose writes it shows
  session,  \* this.state and this.fs of each instance
  view,     \* the execState (and fs) each exec interprets with
  pc,       \* where each exec is
  at,       \* the instance each exec or restore was called on
  caller,   \* the exec that called ctx.exec, for a nested exec
  persist,  \* whether the persist stage of this exec may commit
  stage,    \* "unborn", "forking" (snapshot awaited) or "live"
  taken,    \* snapshots that exist
  restored, \* restores that have happened
  aborted   \* execs whose AbortSignal fired: a timeout gave up on them

vars == <<cell, session, view, pc, at, caller, persist, stage, taken, restored, aborted>>

Active   == {"running", "waiting"}
Live     == {i \in Shells : stage[i] = "live"}
Running  == {e \in Execs : pc[e] \in Active}
Children(p) == {c \in Execs : caller[c] = p}

\* The execs p called, those they called, and so on.
Below(p) == {e \in Execs : \A S \in SUBSET Execs :
               (Children(p) \subseteq S /\ \A x \in S : Children(x) \subseteq S)
                 => e \in S}

TypeOK ==
  /\ cell \in [Objs -> SUBSET Execs]
  /\ session \in [Shells -> [Fields -> Objs]]
  /\ view \in [Execs -> [Fields -> Objs]]
  /\ pc \in [Execs -> {"idle", "running", "waiting", "ok", "failed"}]
  /\ at \in [Execs \cup Restores -> Shells]
  /\ caller \in [Execs -> Execs \cup {None}]
  /\ persist \in [Execs -> BOOLEAN]
  /\ stage \in [Shells -> {"unborn", "forking", "live"}]
  /\ taken \subseteq Snaps
  /\ restored \subseteq Restores
  /\ aborted \subseteq Execs

Init ==
  /\ cell = [o \in Objs |-> {}]
  /\ session = [i \in Shells |-> [f \in Fields |-> Obj(i, "commit", f)]]
  /\ view = [e \in Execs |-> [f \in Fields |-> Obj(e, "begin", f)]]
  /\ pc = [e \in Execs |-> "idle"]
  /\ at = [x \in Execs \cup Restores |-> Root]
  /\ caller = [e \in Execs |-> None]
  /\ persist = [e \in Execs |-> FALSE]
  /\ stage = [i \in Shells |-> IF i = Root THEN "live" ELSE "unborn"]
  /\ taken = {}
  /\ restored = {}
  /\ aborted = {}

-----------------------------------------------------------------------------
(***************************************************************************)
(* cell once dst[f] has become a copy of src[f], for every f in F.         *)
(***************************************************************************)
Copied(F, src, dst) ==
  [o \in Objs |-> IF o[3] \in F /\ o = dst[o[3]] THEN cell[src[o[3]]]
                                                 ELSE cell[o]]

\* cloneState, and the objects it puts in place of the fields of a record.
Fresh(call, when) == [f \in Fields |-> Obj(call, when, f)]

(***************************************************************************)
(* The execState literal in exec(): fresh copies of the fields it copies,  *)
(* the references of this.state for all the others.                        *)
(***************************************************************************)
ExecStateSharesEnv(e, i) ==
  [f \in Fields |-> IF f \in ExecCopies \ {"env"} THEN Obj(e, "begin", f)
                                                  ELSE session[i][f]]

ExecState(e, i) ==
  [f \in Fields |-> IF f \in ExecCopies THEN Obj(e, "begin", f)
                                        ELSE session[i][f]]

(***************************************************************************)
(* A top-level call of exec(): the state is read and copied with no await  *)
(* in between (the realpath of options.cwd comes before).  The caller may  *)
(* override persistState.                                                  *)
(***************************************************************************)
Exec(e, i, p) ==
  /\ pc[e] = "idle"
  /\ stage[i] = "live"
  /\ pc' = [pc EXCEPT ![e] = "running"]
  /\ at' = [at EXCEPT ![e] = i]
  /\ persist' = [persist EXCEPT ![e] = p]
  /\ view' = [view EXCEPT ![e] = ExecState(e, i)]
  /\ cell' = Copied(ExecCopies, session[i], Fresh(e, "begin"))
  /\ UNCHANGED <<session, caller, stage, taken, restored, aborted>>

(***************************************************************************)
(* A command of exec p calls ctx.exec, which is exec() of the same         *)
(* instance: the child copies this.state, not the state of p.  Only the    *)
(* environment and the directory the command passes come from p:           *)
(*   "session"  xargs, find -exec, timeout: options.cwd alone              *)
(*   "merge"    bash -c, time: options.env on top of the instance's        *)
(*   "replace"  env: options.env alone (replaceEnv)                        *)
(* No command sets options.persistState, so the default of the instance    *)
(* holds for the child.  A child given an AbortSignal that has fired stops *)
(* at its first statement.                                                 *)
(***************************************************************************)
NestedEnv(p, env) ==
  CASE env = "session" -> cell[session[at[p]]["env"]]
    [] env = "merge"   -> cell[session[at[p]]["env"]] \cup cell[view[p]["env"]]
    [] env = "replace" -> cell[view[p]["env"]]

NestedCell(c, p, env) ==
  LET copied == Copied(ExecCopies, session[at[p]], Fresh(c, "begin"))
  IN  [o \in Objs |-> CASE o = Obj(c, "begin", "env") -> NestedEnv(p, env)
                       [] o = Obj(c, "begin", "cwd") -> cell[view[p]["cwd"]]
                       [] OTHER                      -> copied[o]]

Nest(c, p, env) ==
  /\ pc[c] = "idle"
  /\ pc[p] \in Active
  /\ p \notin aborted
  /\ pc' = [pc EXCEPT ![c] = "running", ![p] = "waiting"]
  /\ at' = [at EXCEPT ![c] = at[p]]
  /\ caller' = [caller EXCEPT ![c] = p]
  /\ persist' = [persist EXCEPT ![c] = DefaultPersistState]
  /\ view' = [view EXCEPT ![c] = ExecState(c, at[p])]
  /\ cell' = NestedCell(c, p, env)
  /\ UNCHANGED <<session, stage, taken, restored, aborted>>

(***************************************************************************)
(* The command gets the result of its nested execs and p goes on, or the   *)
(* timer of the timeout command wins the race: p goes on at once, and what *)
(* it called is told to stop.  The interpreter looks at the signal when it *)
(* begins a statement only: until then an abandoned exec goes on (Write,   *)
(* Succeed), and sleep answers at once with status 0.                      *)
(***************************************************************************)
NestedReturns(p) ==
  /\ pc[p] = "waiting"
  /\ \A c \in Children(p) : pc[c] \notin Active
  /\ pc' = [pc EXCEPT ![p] = "running"]
  /\ UNCHANGED <<cell, session, view, at, caller, persist, stage, taken, restored, aborted>>

TimeoutAbandons(p) ==
  /\ pc[p] = "waiting"
  /\ \E c \in Children(p) : pc[c] \in Active
  /\ pc' = [pc EXCEPT ![p] = "running"]
  /\ aborted' = aborted \cup (Below(p) \cap Running)
  /\ UNCHANGED <<cell, session, view, at, caller, persist, stage, taken, restored>>

(***************************************************************************)
(* The interpreter assigns to field f of its state, in place: a variable,  *)
(* function, option or file of e joins the others; a directory replaces    *)
(* the one before.                                                         *)
(***************************************************************************)
Write(e, f) ==
  /\ pc[e] = "running"
  /\ cell' = [cell EXCEPT ![view[e][f]] =
                IF f = "cwd" THEN {e} ELSE @ \cup {e}]
  /\ UNCHANGED <<session, view, pc, at, caller, persist, stage, taken, restored, aborted>>

(***************************************************************************)
(* The persist stage: with persistState and exit status 0 the execState is *)
(* committed to this.state, whatever this.state has become meanwhile.      *)
(***************************************************************************)
CommitsAlways(e) == TRUE
Commits(e) == persist[e]

CommittedSessionKeepsCwd(e) ==
  [f \in Fields |-> CASE f \in CommitByRef \ {"cwd"} -> view[e][f]
                      [] f \in CommitSpread          -> Obj(e, "commit", f)
                      [] OTHER                       -> session[at[e]][f]]

CommittedSession(e) ==
  [f \in Fields |-> CASE f \in CommitByRef  -> view[e][f]
                      [] f \in CommitSpread -> Obj(e, "commit", f)
                      [] OTHER              -> session[at[e]][f]]

Succeed(e) ==
  /\ pc[e] = "running"
  /\ pc' = [pc EXCEPT ![e] = "ok"]
  /\ IF Commits(e)
       THEN /\ session' = [session EXCEPT ![at[e]] = CommittedSession(e)]
            /\ cell' = Copied(CommitSpread, view[e], Fresh(e, "commit"))
       ELSE UNCHANGED <<session, cell>>
  /\ UNCHANGED <<view, at, caller, persist, stage, taken, restored, aborted>>

(***************************************************************************)
(* A non-zero exit status, an error turned into a result or thrown again,  *)
(* a parse error or a command the destructive stage blocks: no commit.     *)
(***************************************************************************)
Fail(e) ==
  /\ pc[e] = "running"
  /\ pc' = [pc EXCEPT ![e] = "failed"]
  /\ UNCHANGED <<cell, session, view, at, caller, persist, stage, taken, restored, aborted>>

-----------------------------------------------------------------------------
(***************************************************************************)
(* snapshot(): cloneState and the snapshot of an in-memory filesystem are  *)
(* made in the same turn of the event loop.                                *)
(***************************************************************************)
Snapshot(i, s) ==
  /\ stage[i] = "live"
  /\ s \notin taken
  /\ taken' = taken \cup {s}
  /\ cell' = Copied(Fields, session[i], Fresh(s, "begin"))
  /\ UNCHANGED <<session, view, pc, at, caller, persist, stage, restored, aborted>>

\* this.state becomes a clone of the state in the snapshot (src); the
\* filesystem object stays, and its contents are replaced.
RestoredSessionAdoptsFs(src, call, when, i) ==
  [f \in Fields |-> IF f \in CloneCopies THEN Obj(call, when, f) ELSE src[f]]
RestoredSession(src, call, when, i) ==
  [f \in Fields |-> CASE f = "fs"            -> session[i][f]
                      [] f \in CloneCopies   -> Obj(call, when, f)
                      [] OTHER               -> src[f]]

Restore(i, s, r) ==
  /\ stage[i] = "live"
  /\ s \in taken
  /\ r \notin restored
  /\ restored' = restored \cup {r}
  /\ at' = [at EXCEPT ![r] = i]
  /\ LET src == Fresh(s, "begin")
         new == RestoredSession(src, r, "begin", i)
     IN  /\ session' = [session EXCEPT ![i] = new]
         /\ cell' = Copied(Fields, src, new)
  /\ UNCHANGED <<view, pc, caller, persist, stage, taken, aborted>>

(***************************************************************************)
(* fork(): new Bash(this.options), whose filesystem is the caller's when   *)
(* options.fs was given, and a snapshot of the parent.  The branch is      *)
(* restored from that snapshot in a later turn (ForkRestore).              *)
(***************************************************************************)
ForkOnSameFs(i, j) ==
  /\ stage[i] = "live"
  /\ stage[j] = "unborn"
  /\ stage' = [stage EXCEPT ![j] = "forking"]
  /\ session' = [session EXCEPT ![j]["fs"] = session[i]["fs"]]
  /\ cell' = Copied(Fields, session[i], Fresh(j, "begin"))
  /\ UNCHANGED <<view, pc, at, caller, persist, taken, restored, aborted>>

Fork(i, j) ==
  /\ stage[i] = "live"
  /\ stage[j] = "unborn"
  /\ stage' = [stage EXCEPT ![j] = "forking"]
  /\ session' = IF CustomFs /\ "fs" \in Fields
                  THEN [session EXCEPT ![j]["fs"] = session[i]["fs"]]
                  ELSE session
  /\ cell' = Copied(Fields, session[i], Fresh(j, "begin"))
  /\ UNCHANGED <<view, pc, at, caller, persist, taken, restored, aborted>>

ForkRestore(j) ==
  /\ stage[j] = "forking"
  /\ stage' = [stage EXCEPT ![j] = "live"]
  /\ LET src == Fresh(j, "begin")
         new == RestoredSession(src, j, "commit", j)
     IN  /\ session' = [session EXCEPT ![j] = new]
         /\ cell' = Copied(Fields, src, new)
  /\ UNCHANGED <<view, pc, at, caller, persist, taken, restored, aborted>>

-----------------------------------------------------------------------------
Next ==
  \/ \E e \in Execs, i \in Shells, p \in BOOLEAN : Exec(e, i, p)
  \/ \E c, p \in Execs, env \in {"session", "merge", "replace"} : Nest(c, p, env)
  \/ \E p \in Execs : NestedReturns(p) \/ TimeoutAbandons(p)
  \/ \E e \in Execs, f \in Fields : Write(e, f)
  \/ \E e \in Execs : Succeed(e) \/ Fail(e)
  \/ \E i \in Shells, s \in Snaps : Snapshot(i, s)
  \/ \E i \in Shells, s \in Snaps, r \in Restores : Restore(i, s, r)
  \/ \E i, j \in Shells : Fork(i, j)
  \/ \E j \in Shells : ForkRestore(j)

Spec == Init /\ [][Next]_vars

-----------------------------------------------------------------------------
(***************************************************************************)
(* Properties.                                                             *)
(***************************************************************************)
Committed == {e \in Execs : pc[e] = "ok" /\ persist[e]}

\* The execs whose nested calls led to e, and e itself.
Ancestry(e) == {x \in Execs : x = e \/ e \in Below(x)}

(***************************************************************************)
(* What exec() copies is the exec's own: while it runs, no instance, no    *)
(* other exec and no snapshot holds one of the objects it writes to        *)
(* (the execState literal of exec(), and the references the persist stage  *)
(* commits).                                                               *)
(***************************************************************************)
PrivateExecState ==
  \A e \in Running, f \in ExecCopies :
    /\ \A i \in Shells : session[i][f] # view[e][f]
    /\ \A d \in Running \ {e} : view[d][f] # view[e][f]
    /\ \A s \in Snaps \cup Shells : Obj(s, "begin", f) # view[e][f]

(***************************************************************************)
(* Instances share nothing mutable: no object is reachable from two of     *)
(* them, through this.state, this.fs or the state of a running exec, after *)
(* any mix of forks and of restores of one snapshot into several instances *)
(* (fork() and cloneState()).                                              *)
(***************************************************************************)
Reach(i) == {session[i][f] : f \in Fields}
              \cup {view[e][f] : e \in {x \in Running : at[x] = i}, f \in Fields}

InstancesDisjoint ==
  \A i, j \in Live : i # j => Reach(i) \cap Reach(j) = {}

(***************************************************************************)
(* A snapshot never changes once taken, whatever later runs in the         *)
(* instances it was taken from or restored into (the clones made by both   *)
(* snapshot() and restore()).                                              *)
(***************************************************************************)
SnapshotFrozen ==
  [][\A s \in taken, f \in Fields :
       cell'[Obj(s, "begin", f)] = cell[Obj(s, "begin", f)]]_vars

(***************************************************************************)
(* Of the fields exec() copies, a running exec sees only what was          *)
(* committed, its own writes, and those its callers passed down: never a   *)
(* write of an exec that is still running, failed or does not persist.     *)
(***************************************************************************)
NoDirtyRead ==
  /\ \A e \in Running, f \in ExecCopies :
       cell[view[e][f]] \subseteq Committed \cup Ancestry(e)
  /\ \A i \in Live, f \in ExecCopies : cell[session[i][f]] \subseteq Committed

(***************************************************************************)
(* Why the references are disjoint, as an inductive invariant: an object   *)
(* held by instance i was created with i, by a restore of i or by an exec  *)
(* on i that has committed; a running exec holds its own copies and, for   *)
(* what exec() shares, objects of the instance it runs on.                 *)
(***************************************************************************)
CreatedFor(i, f) ==
  IF f = "fs"
    THEN {Obj(j, "commit", f) : j \in {k \in Shells : k = i \/ CustomFs}}
    ELSE {Obj(i, "commit", f)}
           \cup {Obj(r, "begin", f) : r \in {x \in restored : at[x] = i}}
           \cup {Obj(e, "begin", f) : e \in {x \in Execs : pc[x] = "ok" /\ at[x] = i}}
           \cup {Obj(e, "commit", f) : e \in {x \in Execs : pc[x] = "ok" /\ at[x] = i}}

Ownership ==
  /\ \A i \in Shells, f \in Fields : session[i][f] \in CreatedFor(i, f)
  /\ \A e \in Execs, f \in Fields :
       IF f \in ExecCopies \/ pc[e] = "idle"
         THEN view[e][f] = Obj(e, "begin", f)
         ELSE \A i \in Shells : at[e] = i => view[e][f] \in CreatedFor(i, f)

(***************************************************************************)
(* The references implement values: with the objects replaced by their     *)
(* contents, every behaviour is one of ValueSession (the copies made by    *)
(* exec(), the persist stage and cloneState()).                            *)
(***************************************************************************)
Value == INSTANCE ValueSession WITH
  Fields   <- ExecCopies,
  Captures <- Snaps \cup Shells,
  sess     <- [i \in Shells |-> [f \in ExecCopies |-> cell[session[i][f]]]],
  priv     <- [e \in Execs |-> [f \in ExecCopies |->
                  IF e \in Running THEN cell[view[e][f]] ELSE {}]],
  snap     <- [s \in Snaps \cup Shells |-> [f \in ExecCopies |->
                  cell[Obj(s, "begin", f)]]],
  home     <- [e \in Execs |-> IF pc[e] = "idle" THEN None ELSE at[e]],
  run      <- Running,
  captured <- taken \cup {j \in Shells \ {Root} : stage[j] # "unborn"}

ImplementsValues == Value!Spec

=============================================================================
