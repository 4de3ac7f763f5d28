------------------------- MODULE ShellSessionProofs -------------------------
(***************************************************************************)
(* Theorems about ShellSession, for every set of instances, execs,         *)
(* snapshots and restores and every choice of fields.                      *)
(***************************************************************************)
EXTENDS ShellSession, TLAPS

(***************************************************************************)
(* Copying between records of references leaves a heap a heap.             *)
(***************************************************************************)
LEMMA CopiedType ==
  ASSUME cell \in [Objs -> SUBSET Execs],
         NEW F \in SUBSET Fields,
         NEW src, \A f \in F : src[f] \in Objs,
         NEW dst
  PROVE  Copied(F, src, dst) \in [Objs -> SUBSET Execs]
BY DEF Copied

LEMMA SessionCopiedType ==
  ASSUME TypeOK, NEW F \in SUBSET Fields, NEW i \in Shells, NEW dst
  PROVE  Copied(F, session[i], dst) \in [Objs -> SUBSET Execs]
<1>1. \A f \in F : session[i][f] \in Objs BY DEF TypeOK
<1>2. cell \in [Objs -> SUBSET Execs] BY DEF TypeOK
<1>. QED BY <1>1, <1>2, CopiedType

LEMMA ViewCopiedType ==
  ASSUME TypeOK, NEW F \in SUBSET Fields, NEW e \in Execs, NEW dst
  PROVE  Copied(F, view[e], dst) \in [Objs -> SUBSET Execs]
<1>1. \A f \in F : view[e][f] \in Objs BY DEF TypeOK
<1>2. cell \in [Objs -> SUBSET Execs] BY DEF TypeOK
<1>. QED BY <1>1, <1>2, CopiedType

LEMMA ObjType ==
  ASSUME NEW x \in Calls, NEW at_ \in {"begin", "commit"}, NEW f \in Fields
  PROVE  Obj(x, at_, f) \in Objs
BY DEF Obj, Objs

LEMMA FreshType ==
  ASSUME NEW x \in Calls, NEW when \in {"begin", "commit"}
  PROVE  Fresh(x, when) \in [Fields -> Objs]
BY ObjType DEF Fresh

LEMMA RestoredSessionType ==
  ASSUME TypeOK, NEW src \in [Fields -> Objs], NEW x \in Calls,
         NEW when \in {"begin", "commit"}, NEW i \in Shells
  PROVE  RestoredSession(src, x, when, i) \in [Fields -> Objs]
<1>1. ASSUME NEW f \in Fields
      PROVE  RestoredSession(src, x, when, i)[f] \in Objs
  <2>1. CASE f = "fs"
    BY <2>1 DEF RestoredSession, CloneCopies, StateFields, TypeOK
  <2>2. CASE f # "fs" /\ f \in CloneCopies
    BY <2>2, ObjType DEF RestoredSession
  <2>3. CASE f # "fs" /\ f \notin CloneCopies
    BY <2>3 DEF CloneCopies, StateFields
  <2>. QED BY <2>1, <2>2, <2>3
<1>. QED BY <1>1 DEF RestoredSession

LEMMA ExecStateType ==
  ASSUME TypeOK, NEW e \in Execs, NEW i \in Shells
  PROVE  ExecState(e, i) \in [Fields -> Objs]
BY ObjType DEF ExecState, TypeOK, Calls

LEMMA CommittedSessionType ==
  ASSUME TypeOK, NEW e \in Execs
  PROVE  CommittedSession(e) \in [Fields -> Objs]
<1>1. ASSUME NEW f \in Fields
      PROVE  CommittedSession(e)[f] \in Objs
  <2>1. CASE f \in CommitByRef
    BY <2>1 DEF CommittedSession, CommitByRef, CommitSpread, TypeOK
  <2>2. CASE f \notin CommitByRef /\ f \in CommitSpread
    BY <2>2, ObjType DEF CommittedSession, CommitSpread, Calls
  <2>3. CASE f \notin CommitByRef /\ f \notin CommitSpread
    BY <2>3 DEF CommittedSession, TypeOK
  <2>. QED BY <2>1, <2>2, <2>3
<1>. QED BY <1>1 DEF CommittedSession

LEMMA NestedCellType ==
  ASSUME TypeOK, NEW c \in Execs, NEW p \in Execs,
         NEW env \in {"session", "merge", "replace"}
  PROVE  NestedCell(c, p, env) \in [Objs -> SUBSET Execs]
<1>1. Copied(ExecCopies, session[at[p]], Fresh(c, "begin")) \in [Objs -> SUBSET Execs]
  BY SessionCopiedType DEF TypeOK, ExecCopies
<1>2. ASSUME "env" \in Fields PROVE NestedEnv(p, env) \in SUBSET Execs
  <2>1. cell[session[at[p]]["env"]] \in SUBSET Execs /\ cell[view[p]["env"]] \in SUBSET Execs
    BY <1>2 DEF TypeOK
  <2>2. CASE env = "session" BY <2>1, <2>2 DEF NestedEnv
  <2>3. CASE env = "merge" BY <2>1, <2>3 DEF NestedEnv
  <2>4. CASE env = "replace" BY <2>1, <2>4 DEF NestedEnv
  <2>. QED BY <2>2, <2>3, <2>4
<1>3. ASSUME "cwd" \in Fields PROVE cell[view[p]["cwd"]] \in SUBSET Execs
  BY <1>3 DEF TypeOK
<1>4. ASSUME NEW o \in Objs PROVE NestedCell(c, p, env)[o] \in SUBSET Execs
  <2>1. CASE o = Obj(c, "begin", "env")
    <3>1. "env" \in Fields BY <2>1 DEF Obj, Objs
    <3>. QED BY <2>1, <3>1, <1>2 DEF NestedCell, Obj
  <2>2. CASE o # Obj(c, "begin", "env") /\ o = Obj(c, "begin", "cwd")
    <3>1. "cwd" \in Fields BY <2>2 DEF Obj, Objs
    <3>. QED BY <2>2, <3>1, <1>3 DEF NestedCell, Obj
  <2>3. CASE o # Obj(c, "begin", "env") /\ o # Obj(c, "begin", "cwd")
    BY <2>3, <1>1 DEF NestedCell
  <2>. QED BY <2>1, <2>2, <2>3
<1>. QED BY <1>4 DEF NestedCell

-----------------------------------------------------------------------------
LEMMA InitType == Init => TypeOK
BY SessionAssumption, ObjType DEF Init, TypeOK, Calls

LEMMA NextType == TypeOK /\ [Next]_vars => TypeOK'
<1>. SUFFICES ASSUME TypeOK, [Next]_vars PROVE TypeOK'
  OBVIOUS
<1>1. ASSUME NEW e \in Execs, NEW i \in Shells, NEW p \in BOOLEAN, Exec(e, i, p)
      PROVE  TypeOK'
  <2>1. cell' \in [Objs -> SUBSET Execs]
    BY <1>1, SessionCopiedType DEF Exec, ExecCopies
  <2>2. view' \in [Execs -> [Fields -> Objs]]
    BY <1>1, ExecStateType DEF Exec, TypeOK
  <2>. QED BY <1>1, <2>1, <2>2 DEF Exec, TypeOK
<1>2. ASSUME NEW c \in Execs, NEW p \in Execs,
             NEW env \in {"session", "merge", "replace"}, Nest(c, p, env)
      PROVE  TypeOK'
  <2>1. cell' \in [Objs -> SUBSET Execs]
    BY <1>2, NestedCellType DEF Nest
  <2>2. view' \in [Execs -> [Fields -> Objs]]
    BY <1>2, ExecStateType DEF Nest, TypeOK
  <2>. QED BY <1>2, <2>1, <2>2, SessionAssumption DEF Nest, TypeOK
<1>3. ASSUME NEW p \in Execs, NestedReturns(p) \/ TimeoutAbandons(p)
      PROVE  TypeOK'
  BY <1>3 DEF NestedReturns, TimeoutAbandons, Running, TypeOK
<1>4. ASSUME NEW e \in Execs, NEW f \in Fields, Write(e, f)
      PROVE  TypeOK'
  BY <1>4 DEF Write, TypeOK
<1>5. ASSUME NEW e \in Execs, Succeed(e)
      PROVE  TypeOK'
  <2>1. cell' \in [Objs -> SUBSET Execs]
    <3>1. Copied(CommitSpread, view[e], Fresh(e, "commit")) \in [Objs -> SUBSET Execs]
      BY ViewCopiedType DEF CommitSpread
    <3>2. cell \in [Objs -> SUBSET Execs] BY DEF TypeOK
    <3>. QED BY <1>5, <3>1, <3>2 DEF Succeed
  <2>2. session' \in [Shells -> [Fields -> Objs]]
    BY <1>5, CommittedSessionType DEF Succeed, TypeOK
  <2>. QED BY <1>5, <2>1, <2>2 DEF Succeed, TypeOK
<1>6. ASSUME NEW e \in Execs, Fail(e)
      PROVE  TypeOK'
  BY <1>6 DEF Fail, TypeOK
<1>7. ASSUME NEW i \in Shells, NEW s \in Snaps, Snapshot(i, s)
      PROVE  TypeOK'
  BY <1>7, SessionCopiedType DEF Snapshot, TypeOK
<1>8. ASSUME NEW i \in Shells, NEW s \in Snaps, NEW r \in Restores, Restore(i, s, r)
      PROVE  TypeOK'
  <2>. DEFINE src == Fresh(s, "begin")
              new == RestoredSession(src, r, "begin", i)
  <2>1. src \in [Fields -> Objs] BY FreshType DEF Calls
  <2>2. new \in [Fields -> Objs] BY <2>1, RestoredSessionType DEF Calls
  <2>. HIDE DEF src, new
  <2>3. cell' \in [Objs -> SUBSET Execs]
    BY <1>8, <2>1, CopiedType DEF Restore, TypeOK, src, new
  <2>4. session' \in [Shells -> [Fields -> Objs]]
    BY <1>8, <2>2 DEF Restore, TypeOK, src, new
  <2>. QED BY <1>8, <2>3, <2>4 DEF Restore, TypeOK
<1>9. ASSUME NEW i \in Shells, NEW j \in Shells, Fork(i, j)
      PROVE  TypeOK'
  <2>1. cell' \in [Objs -> SUBSET Execs]
    BY <1>9, SessionCopiedType DEF Fork, TypeOK
  <2>2. session' \in [Shells -> [Fields -> Objs]]
    BY <1>9 DEF Fork, TypeOK
  <2>. QED BY <1>9, <2>1, <2>2 DEF Fork, TypeOK
<1>10. ASSUME NEW j \in Shells, ForkRestore(j)
       PROVE  TypeOK'
  <2>. DEFINE src == Fresh(j, "begin")
              new == RestoredSession(src, j, "commit", j)
  <2>1. src \in [Fields -> Objs] BY FreshType DEF Calls
  <2>2. new \in [Fields -> Objs] BY <2>1, RestoredSessionType DEF Calls
  <2>. HIDE DEF src, new
  <2>3. cell' \in [Objs -> SUBSET Execs]
    BY <1>10, <2>1, CopiedType DEF ForkRestore, TypeOK, src, new
  <2>4. session' \in [Shells -> [Fields -> Objs]]
    BY <1>10, <2>2 DEF ForkRestore, TypeOK, src, new
  <2>. QED BY <1>10, <2>3, <2>4 DEF ForkRestore, TypeOK
<1>11. ASSUME UNCHANGED vars PROVE TypeOK'
  BY <1>11 DEF vars, TypeOK
<1>. QED
  BY <1>1, <1>2, <1>3, <1>4, <1>5, <1>6, <1>7, <1>8, <1>9, <1>10, <1>11 DEF Next

(***************************************************************************)
(* The references and the heap keep their types.                           *)
(***************************************************************************)
THEOREM TypeCorrect == Spec => []TypeOK
BY InitType, NextType, PTL DEF Spec

-----------------------------------------------------------------------------
(***************************************************************************)
(* Ownership of the objects.  A step never disowns an object: the restores *)
(* and commits that created it stay in the history, on the same instance.  *)
(***************************************************************************)
Settled ==
  /\ restored \subseteq restored'
  /\ \A r \in restored : at'[r] = at[r]
  /\ \A e \in Execs : pc[e] = "ok" => pc'[e] = "ok" /\ at'[e] = at[e]

LEMMA StepSettled == TypeOK /\ [Next]_vars => Settled
<1>. SUFFICES ASSUME TypeOK, [Next]_vars PROVE Settled
  OBVIOUS
<1>. USE SessionAssumption DEF TypeOK, Settled
<1>1. ASSUME NEW e \in Execs, NEW i \in Shells, NEW p \in BOOLEAN, Exec(e, i, p)
      PROVE  Settled
  BY <1>1 DEF Exec
<1>2. ASSUME NEW c \in Execs, NEW p \in Execs,
             NEW env \in {"session", "merge", "replace"}, Nest(c, p, env)
      PROVE  Settled
  BY <1>2 DEF Nest, Active
<1>3. ASSUME NEW p \in Execs, NestedReturns(p) \/ TimeoutAbandons(p)
      PROVE  Settled
  BY <1>3 DEF NestedReturns, TimeoutAbandons
<1>4. ASSUME NEW e \in Execs, Succeed(e) \/ Fail(e)
      PROVE  Settled
  BY <1>4 DEF Succeed, Fail
<1>5. ASSUME NEW i \in Shells, NEW s \in Snaps, NEW r \in Restores, Restore(i, s, r)
      PROVE  Settled
  BY <1>5 DEF Restore
<1>6. ASSUME UNCHANGED <<pc, at, restored>>
      PROVE  Settled
  BY <1>6
<1>7. ASSUME NEW e \in Execs, NEW f \in Fields, Write(e, f)
      PROVE  Settled
  BY <1>6, <1>7 DEF Write
<1>8. ASSUME NEW i \in Shells, NEW s \in Snaps, Snapshot(i, s)
      PROVE  Settled
  BY <1>6, <1>8 DEF Snapshot
<1>9. ASSUME NEW i \in Shells, NEW j \in Shells, Fork(i, j) \/ ForkRestore(j)
      PROVE  Settled
  BY <1>6, <1>9 DEF Fork, ForkRestore
<1>10. ASSUME UNCHANGED vars PROVE Settled
  BY <1>6, <1>10 DEF vars
<1>. QED
  BY <1>1, <1>2, <1>3, <1>4, <1>5, <1>7, <1>8, <1>9, <1>10 DEF Next

LEMMA StaysCreatedFor ==
  ASSUME Settled, TypeOK, NEW i \in Shells, NEW f \in Fields
  PROVE  CreatedFor(i, f) \subseteq CreatedFor(i, f)'
<1>1. \A r \in restored : at[r] = i => r \in restored' /\ at'[r] = i
  BY DEF Settled
<1>2. \A e \in Execs : pc[e] = "ok" /\ at[e] = i => pc'[e] = "ok" /\ at'[e] = i
  BY DEF Settled
<1>3. CASE f = "fs" BY <1>3 DEF CreatedFor
<1>4. CASE f # "fs" BY <1>1, <1>2, <1>4 DEF CreatedFor
<1>. QED BY <1>3, <1>4

LEMMA InitOwnership == Init => Ownership
BY SessionAssumption DEF Init, Ownership, CreatedFor

\* A step that gives no instance and no exec a new reference.
LEMMA SameReferences ==
  ASSUME TypeOK, Ownership, Settled, UNCHANGED <<session, view, pc>>,
         \A e \in Execs : at'[e] = at[e]
  PROVE  Ownership'
<1>1. ASSUME NEW i \in Shells, NEW f \in Fields
      PROVE  (session[i][f] \in CreatedFor(i, f))'
  BY StaysCreatedFor DEF Ownership
<1>2. ASSUME NEW e \in Execs, NEW f \in Fields, NEW i \in Shells,
             ~(f \in ExecCopies \/ pc[e] = "idle"), at[e] = i
      PROVE  (view[e][f] \in CreatedFor(i, f))'
  BY <1>2, StaysCreatedFor DEF Ownership
<1>. QED BY <1>1, <1>2 DEF Ownership

LEMMA NextOwnership == TypeOK /\ Ownership /\ [Next]_vars => Ownership'
<1>. SUFFICES ASSUME TypeOK, Ownership, [Next]_vars PROVE Ownership'
  OBVIOUS
<1>0. Settled BY StepSettled
<1>a. \A i \in Shells, f \in Fields : CreatedFor(i, f) \subseteq CreatedFor(i, f)'
  BY <1>0, StaysCreatedFor
<1>1. ASSUME NEW e \in Execs, NEW i \in Shells, NEW p \in BOOLEAN, Exec(e, i, p)
      PROVE  Ownership'
  <2>1. ASSUME NEW k \in Shells, NEW f \in Fields
        PROVE  (session[k][f] \in CreatedFor(k, f))'
    BY <1>1, <1>a DEF Ownership, Exec
  <2>2. ASSUME NEW x \in Execs, NEW f \in Fields
        PROVE  (IF f \in ExecCopies \/ pc[x] = "idle"
                  THEN view[x][f] = Obj(x, "begin", f)
                  ELSE \A k \in Shells : at[x] = k => view[x][f] \in CreatedFor(k, f))'
    <3>1. CASE x = e
      <4>1. view'[e][f] = ExecState(e, i)[f] /\ at'[e] = i /\ pc'[e] = "running"
        BY <1>1 DEF Exec, TypeOK
      <4>. QED BY <3>1, <4>1, <1>a DEF Ownership, ExecState
    <3>2. CASE x # e
      <4>1. view'[x] = view[x] /\ at'[x] = at[x] /\ pc'[x] = pc[x]
        BY <1>1, <3>2, SessionAssumption DEF Exec, TypeOK
      <4>. QED BY <4>1, <1>a DEF Ownership
    <3>. QED BY <3>1, <3>2
  <2>. QED BY <2>1, <2>2 DEF Ownership
<1>2. ASSUME NEW c \in Execs, NEW p \in Execs,
             NEW env \in {"session", "merge", "replace"}, Nest(c, p, env)
      PROVE  Ownership'
  <2>1. ASSUME NEW k \in Shells, NEW f \in Fields
        PROVE  (session[k][f] \in CreatedFor(k, f))'
    BY <1>2, <1>a DEF Ownership, Nest
  <2>2. ASSUME NEW x \in Execs, NEW f \in Fields
        PROVE  (IF f \in ExecCopies \/ pc[x] = "idle"
                  THEN view[x][f] = Obj(x, "begin", f)
                  ELSE \A k \in Shells : at[x] = k => view[x][f] \in CreatedFor(k, f))'
    <3>. DEFINE i == at[p]
    <3>0. i \in Shells /\ c # p BY <1>2 DEF TypeOK, Nest, Active
    <3>1. CASE x = c
      <4>1. view'[c][f] = ExecState(c, i)[f] /\ at'[c] = i /\ pc'[c] = "running"
        BY <1>2, <3>0 DEF Nest, TypeOK
      <4>2. CASE f \in ExecCopies
        BY <3>1, <4>1, <4>2 DEF ExecState
      <4>3. CASE f \notin ExecCopies
        <5>1. view'[c][f] = session[i][f] BY <4>1, <4>3 DEF ExecState
        <5>2. session[i][f] \in CreatedFor(i, f) BY <3>0 DEF Ownership
        <5>. HIDE DEF i
        <5>. QED BY <3>0, <3>1, <4>1, <4>3, <5>1, <5>2, <1>a
      <4>. QED BY <4>2, <4>3
    <3>2. CASE x # c
      <4>1. view'[x] = view[x] /\ at'[x] = at[x]
        BY <1>2, <3>2, SessionAssumption DEF Nest, TypeOK
      <4>2. pc'[x] = "idle" <=> pc[x] = "idle"
        BY <1>2, <3>0, <3>2 DEF Nest, TypeOK, Active
      <4>. QED BY <4>1, <4>2, <1>a DEF Ownership
    <3>. QED BY <3>1, <3>2
  <2>. QED BY <2>1, <2>2 DEF Ownership
<1>3. ASSUME NEW p \in Execs, NestedReturns(p) \/ TimeoutAbandons(p) \/ Fail(p)
      PROVE  Ownership'
  <2>1. UNCHANGED <<session, view, at>>
    BY <1>3 DEF NestedReturns, TimeoutAbandons, Fail
  <2>2. \A x \in Execs : pc'[x] = "idle" <=> pc[x] = "idle"
    BY <1>3 DEF NestedReturns, TimeoutAbandons, Fail, TypeOK
  <2>3. ASSUME NEW k \in Shells, NEW f \in Fields
        PROVE  (session[k][f] \in CreatedFor(k, f))'
    BY <2>1, <1>a DEF Ownership
  <2>4. ASSUME NEW x \in Execs, NEW f \in Fields
        PROVE  (IF f \in ExecCopies \/ pc[x] = "idle"
                  THEN view[x][f] = Obj(x, "begin", f)
                  ELSE \A k \in Shells : at[x] = k => view[x][f] \in CreatedFor(k, f))'
    BY <2>1, <2>2, <1>a DEF Ownership
  <2>. QED BY <2>3, <2>4 DEF Ownership
<1>4. ASSUME NEW e \in Execs, NEW f \in Fields, Write(e, f)
      PROVE  Ownership'
  BY <1>4, <1>0, SameReferences DEF Write
<1>5. ASSUME NEW e \in Execs, Succeed(e)
      PROVE  Ownership'
  <2>0. /\ at[e] \in Shells /\ pc[e] = "running" /\ pc'[e] = "ok"
        /\ \A x \in Execs : x # e => pc'[x] = pc[x]
        /\ UNCHANGED <<view, at>>
    BY <1>5 DEF Succeed, TypeOK
  <2>1. ASSUME NEW k \in Shells, NEW f \in Fields
        PROVE  (session[k][f] \in CreatedFor(k, f))'
    <3>1. CASE session'[k][f] = session[k][f]
      BY <3>1, <1>a DEF Ownership
    <3>2. CASE session'[k][f] # session[k][f]
      <4>1. k = at[e] /\ session'[k][f] = CommittedSession(e)[f]
        BY <1>5, <3>2 DEF Succeed, TypeOK
      <4>2. CASE f \in CommitByRef /\ f \in ExecCopies
        <5>1. session'[k][f] = Obj(e, "begin", f)
          BY <2>0, <4>1, <4>2 DEF CommittedSession, CommitByRef, CommitSpread, Ownership
        <5>2. f # "fs" BY <4>2 DEF CommitByRef
        <5>. QED BY <2>0, <4>1, <5>1, <5>2 DEF CreatedFor
      <4>3. CASE f \in CommitByRef /\ f \notin ExecCopies
        <5>1. session'[k][f] = view[e][f]
          BY <4>1, <4>3 DEF CommittedSession, CommitByRef, CommitSpread
        <5>2. view[e][f] \in CreatedFor(k, f)
          BY <2>0, <4>1, <4>3 DEF Ownership
        <5>. QED BY <5>1, <5>2, <1>a
      <4>4. CASE f \in CommitSpread
        <5>1. session'[k][f] = Obj(e, "commit", f)
          BY <4>1, <4>4 DEF CommittedSession, CommitByRef, CommitSpread
        <5>2. f # "fs" BY <4>4 DEF CommitSpread
        <5>. QED BY <2>0, <4>1, <5>1, <5>2 DEF CreatedFor
      <4>5. CASE f \notin CommitByRef /\ f \notin CommitSpread
        BY <3>2, <4>1, <4>5 DEF CommittedSession
      <4>. QED BY <4>2, <4>3, <4>4, <4>5
    <3>. QED BY <3>1, <3>2
  <2>2. ASSUME NEW x \in Execs, NEW f \in Fields
        PROVE  (IF f \in ExecCopies \/ pc[x] = "idle"
                  THEN view[x][f] = Obj(x, "begin", f)
                  ELSE \A k \in Shells : at[x] = k => view[x][f] \in CreatedFor(k, f))'
    BY <2>0, <1>a DEF Ownership
  <2>. QED BY <2>1, <2>2 DEF Ownership
<1>6. ASSUME NEW i \in Shells, NEW s \in Snaps, Snapshot(i, s)
      PROVE  Ownership'
  BY <1>6, <1>0, SameReferences DEF Snapshot
<1>7. ASSUME NEW i \in Shells, NEW s \in Snaps, NEW r \in Restores, Restore(i, s, r)
      PROVE  Ownership'
  <2>0. UNCHANGED <<view, pc>> /\ \A x \in Execs : at'[x] = at[x]
    BY <1>7, SessionAssumption DEF Restore, TypeOK
  <2>1. ASSUME NEW k \in Shells, NEW f \in Fields
        PROVE  (session[k][f] \in CreatedFor(k, f))'
    <3>1. CASE k = i /\ f # "fs"
      <4>1. session'[k][f] = Obj(r, "begin", f)
        BY <1>7, <3>1 DEF Restore, TypeOK, RestoredSession, CloneCopies, StateFields
      <4>2. r \in restored' /\ at'[r] = i
        BY <1>7 DEF Restore, TypeOK
      <4>. QED BY <3>1, <4>1, <4>2 DEF CreatedFor
    <3>2. CASE ~(k = i /\ f # "fs")
      <4>1. session'[k][f] = session[k][f]
        BY <1>7, <3>2 DEF Restore, TypeOK, RestoredSession, CloneCopies, StateFields
      <4>. QED BY <4>1, <1>a DEF Ownership
    <3>. QED BY <3>1, <3>2
  <2>2. ASSUME NEW x \in Execs, NEW f \in Fields
        PROVE  (IF f \in ExecCopies \/ pc[x] = "idle"
                  THEN view[x][f] = Obj(x, "begin", f)
                  ELSE \A k \in Shells : at[x] = k => view[x][f] \in CreatedFor(k, f))'
    BY <2>0, <1>a DEF Ownership
  <2>. QED BY <2>1, <2>2 DEF Ownership
<1>8. ASSUME NEW i \in Shells, NEW j \in Shells, Fork(i, j)
      PROVE  Ownership'
  <2>0. UNCHANGED <<view, pc, at, restored>>
    BY <1>8 DEF Fork
  <2>1. ASSUME NEW k \in Shells, NEW f \in Fields
        PROVE  (session[k][f] \in CreatedFor(k, f))'
    <3>1. CASE session'[k][f] = session[k][f]
      BY <3>1, <1>a DEF Ownership
    <3>2. CASE session'[k][f] # session[k][f]
      <4>1. CustomFs /\ f = "fs" /\ session'[k][f] = session[i][f]
        BY <1>8, <3>2 DEF Fork, TypeOK
      <4>2. session[i]["fs"] \in CreatedFor(i, "fs")
        BY <4>1 DEF Ownership
      <4>. QED BY <4>1, <4>2 DEF CreatedFor
    <3>. QED BY <3>1, <3>2
  <2>2. ASSUME NEW x \in Execs, NEW f \in Fields
        PROVE  (IF f \in ExecCopies \/ pc[x] = "idle"
                  THEN view[x][f] = Obj(x, "begin", f)
                  ELSE \A k \in Shells : at[x] = k => view[x][f] \in CreatedFor(k, f))'
    BY <2>0, <1>a DEF Ownership
  <2>. QED BY <2>1, <2>2 DEF Ownership
<1>9. ASSUME NEW j \in Shells, ForkRestore(j)
      PROVE  Ownership'
  <2>0. UNCHANGED <<view, pc, at, restored>>
    BY <1>9 DEF ForkRestore
  <2>1. ASSUME NEW k \in Shells, NEW f \in Fields
        PROVE  (session[k][f] \in CreatedFor(k, f))'
    <3>1. CASE k = j /\ f # "fs"
      <4>1. session'[k][f] = Obj(j, "commit", f)
        BY <1>9, <3>1 DEF ForkRestore, TypeOK, RestoredSession, CloneCopies, StateFields
      <4>. QED BY <3>1, <4>1 DEF CreatedFor
    <3>2. CASE ~(k = j /\ f # "fs")
      <4>1. session'[k][f] = session[k][f]
        BY <1>9, <3>2 DEF ForkRestore, TypeOK, RestoredSession, CloneCopies, StateFields
      <4>. QED BY <4>1, <1>a DEF Ownership
    <3>. QED BY <3>1, <3>2
  <2>2. ASSUME NEW x \in Execs, NEW f \in Fields
        PROVE  (IF f \in ExecCopies \/ pc[x] = "idle"
                  THEN view[x][f] = Obj(x, "begin", f)
                  ELSE \A k \in Shells : at[x] = k => view[x][f] \in CreatedFor(k, f))'
    BY <2>0, <1>a DEF Ownership
  <2>. QED BY <2>1, <2>2 DEF Ownership
<1>10. ASSUME UNCHANGED vars PROVE Ownership'
  BY <1>10, <1>0, SameReferences DEF vars
<1>. QED
  BY <1>1, <1>2, <1>3, <1>4, <1>5, <1>6, <1>7, <1>8, <1>9, <1>10 DEF Next

(***************************************************************************)
(* Every reference an instance or an exec holds was created for it.        *)
(***************************************************************************)
THEOREM OwnershipHolds == Spec => []Ownership
BY InitType, InitOwnership, NextType, NextOwnership, PTL DEF Spec

-----------------------------------------------------------------------------
(***************************************************************************)
(* What exec() copied is reachable from nothing else while it runs.        *)
(***************************************************************************)
LEMMA OwnershipMakesPrivate == TypeOK /\ Ownership => PrivateExecState
<1>. SUFFICES ASSUME TypeOK, Ownership, NEW e \in Running, NEW f \in ExecCopies
              PROVE  /\ \A i \in Shells : session[i][f] # view[e][f]
                     /\ \A d \in Running \ {e} : view[d][f] # view[e][f]
                     /\ \A s \in Snaps \cup Shells : Obj(s, "begin", f) # view[e][f]
  BY DEF PrivateExecState
<1>1. /\ f \in Fields /\ f # "fs" /\ e \in Execs /\ pc[e] \in Active
      /\ view[e][f] = Obj(e, "begin", f)
  BY DEF ExecCopies, Running, Ownership
<1>2. ASSUME NEW i \in Shells PROVE session[i][f] # view[e][f]
  <2>1. session[i][f] \in CreatedFor(i, f) BY <1>1 DEF Ownership
  <2>. QED BY <1>1, <2>1, SessionAssumption DEF CreatedFor, Obj, Active, TypeOK
<1>3. ASSUME NEW d \in Running \ {e} PROVE view[d][f] # view[e][f]
  <2>1. d \in Execs /\ view[d][f] = Obj(d, "begin", f)
    BY DEF Running, Ownership, ExecCopies
  <2>. QED BY <1>1, <2>1 DEF Obj
<1>4. ASSUME NEW s \in Snaps \cup Shells PROVE Obj(s, "begin", f) # view[e][f]
  BY <1>1, SessionAssumption DEF Obj
<1>. QED BY <1>2, <1>3, <1>4

THEOREM ExecStateIsPrivate == Spec => []PrivateExecState
BY TypeCorrect, OwnershipHolds, OwnershipMakesPrivate, PTL

(***************************************************************************)
(* Without BashOptions.fs, instances reach disjoint sets of objects.       *)
(***************************************************************************)
LEMMA CreatedForOne ==
  ASSUME TypeOK, ~CustomFs, NEW i \in Shells, NEW j \in Shells, i # j,
         NEW f \in Fields, NEW g \in Fields
  PROVE  CreatedFor(i, f) \cap CreatedFor(j, g) = {}
<1>1. CASE f # g BY <1>1 DEF CreatedFor, Obj
<1>2. CASE f = g /\ f = "fs" BY <1>2 DEF CreatedFor, Obj
<1>3. CASE f = g /\ f # "fs"
  BY <1>3, SessionAssumption DEF CreatedFor, Obj, TypeOK
<1>. QED BY <1>1, <1>2, <1>3

LEMMA ReachIsOwned ==
  ASSUME TypeOK, Ownership, NEW i \in Shells, NEW o \in Reach(i)
  PROVE  \E f \in Fields :
           \/ o \in CreatedFor(i, f)
           \/ \E e \in Running : at[e] = i /\ o = Obj(e, "begin", f)
<1>1. CASE \E f \in Fields : o = session[i][f]
  BY <1>1 DEF Ownership
<1>2. CASE \E f \in Fields, e \in Running : at[e] = i /\ o = view[e][f]
  <2>1. PICK f \in Fields, e \in Running : at[e] = i /\ o = view[e][f]
    BY <1>2
  <2>2. e \in Execs /\ pc[e] # "idle" BY DEF Running, Active
  <2>3. CASE f \in ExecCopies BY <2>1, <2>2, <2>3 DEF Ownership
  <2>4. CASE f \notin ExecCopies
    <3>1. o \in CreatedFor(i, f) BY <2>1, <2>2, <2>4 DEF Ownership
    <3>. QED BY <3>1
  <2>. QED BY <2>3, <2>4
<1>. QED BY <1>1, <1>2 DEF Reach, Running

LEMMA RunningNotCreated ==
  ASSUME TypeOK, NEW j \in Shells, NEW e \in Running, NEW f \in Fields, NEW g \in Fields
  PROVE  Obj(e, "begin", f) \notin CreatedFor(j, g)
<1>1. e \in Execs /\ pc[e] # "ok" BY DEF Running, Active
<1>2. CASE g = "fs" BY <1>2 DEF CreatedFor, Obj
<1>3. CASE g # "fs" BY <1>1, <1>3, SessionAssumption DEF CreatedFor, Obj, TypeOK
<1>. QED BY <1>2, <1>3

LEMMA OwnershipMakesDisjoint ==
  ~CustomFs /\ TypeOK /\ Ownership => InstancesDisjoint
<1>. SUFFICES ASSUME ~CustomFs, TypeOK, Ownership,
                     NEW i \in Live, NEW j \in Live, i # j,
                     NEW o, o \in Reach(i), o \in Reach(j)
              PROVE  FALSE
  BY DEF InstancesDisjoint
<1>1. i \in Shells /\ j \in Shells BY DEF Live
<1>2. PICK f \in Fields : \/ o \in CreatedFor(i, f)
                          \/ \E e \in Running : at[e] = i /\ o = Obj(e, "begin", f)
  BY <1>1, ReachIsOwned
<1>3. PICK g \in Fields : \/ o \in CreatedFor(j, g)
                          \/ \E e \in Running : at[e] = j /\ o = Obj(e, "begin", g)
  BY <1>1, ReachIsOwned
<1>4. CASE o \in CreatedFor(i, f) /\ o \in CreatedFor(j, g)
  BY <1>1, <1>4, CreatedForOne
<1>5. CASE \E e \in Running : at[e] = i /\ o = Obj(e, "begin", f)
  BY <1>1, <1>3, <1>5, RunningNotCreated DEF Obj
<1>6. CASE \E e \in Running : at[e] = j /\ o = Obj(e, "begin", g)
  BY <1>1, <1>2, <1>6, RunningNotCreated DEF Obj
<1>. QED BY <1>2, <1>3, <1>4, <1>5, <1>6

THEOREM InstancesAreDisjoint == ~CustomFs /\ Spec => []InstancesDisjoint
<1>1. ASSUME ~CustomFs PROVE Spec => []InstancesDisjoint
  BY <1>1, TypeCorrect, OwnershipHolds, OwnershipMakesDisjoint, PTL
<1>. QED BY <1>1

-----------------------------------------------------------------------------
(***************************************************************************)
(* No step writes to the objects of a snapshot that has been taken: an     *)
(* exec writes to what it owns, and every copy goes to fresh objects or to *)
(* the filesystem of an instance.                                          *)
(***************************************************************************)
SnapshotKept ==
  \A s \in taken, f \in Fields :
    cell'[Obj(s, "begin", f)] = cell[Obj(s, "begin", f)]

LEMMA CopiedElsewhere ==
  ASSUME NEW F, NEW src, NEW dst, NEW o \in Objs, o[3] \in F => dst[o[3]] # o
  PROVE  Copied(F, src, dst)[o] = cell[o]
BY DEF Copied

LEMMA NextKeepsSnapshots == TypeOK /\ Ownership /\ [Next]_vars => [SnapshotKept]_vars
<1>. SUFFICES ASSUME TypeOK, Ownership, Next, NEW s \in taken, NEW f \in Fields
              PROVE  cell'[Obj(s, "begin", f)] = cell[Obj(s, "begin", f)]
  BY DEF SnapshotKept
<1>. DEFINE o == Obj(s, "begin", f)
<1>0. /\ s \in Snaps /\ o \in Objs /\ o[3] = f
      /\ s \notin Execs /\ s \notin Shells /\ s \notin Restores
  BY SessionAssumption DEF TypeOK, Objs, Obj, Calls
<1>a. \A i \in Shells, g \in Fields : session[i][g] # o
  <2>1. ASSUME NEW i \in Shells, NEW g \in Fields
        PROVE  o \notin CreatedFor(i, g)
    <3>1. CASE g = "fs" BY <1>0, <3>1 DEF CreatedFor, Obj
    <3>2. CASE g # "fs" BY <1>0, <3>2 DEF CreatedFor, Obj, TypeOK
    <3>. QED BY <3>1, <3>2
  <2>. QED BY <2>1 DEF Ownership
<1>b. \A e \in Execs, g \in Fields : view[e][g] # o
  <2>1. ASSUME NEW i \in Shells, NEW g \in Fields
        PROVE  o \notin CreatedFor(i, g)
    <3>1. CASE g = "fs" BY <1>0, <3>1 DEF CreatedFor, Obj
    <3>2. CASE g # "fs" BY <1>0, <3>2 DEF CreatedFor, Obj, TypeOK
    <3>. QED BY <3>1, <3>2
  <2>2. ASSUME NEW e \in Execs, NEW g \in Fields
        PROVE  view[e][g] # o
    <3>1. CASE view[e][g] = Obj(e, "begin", g) BY <1>0, <3>1 DEF Obj
    <3>2. CASE view[e][g] # Obj(e, "begin", g)
      <4>1. at[e] \in Shells BY DEF TypeOK
      <4>2. view[e][g] \in CreatedFor(at[e], g) BY <3>2, <4>1 DEF Ownership
      <4>. QED BY <2>1, <4>1, <4>2
    <3>. QED BY <3>1, <3>2
  <2>. QED BY <2>2
<1>c. \A x \in Calls \ {s}, when \in {"begin", "commit"} : Fresh(x, when)[f] # o
  BY DEF Fresh, Obj
<1>. HIDE DEF o
<1>1. ASSUME NEW e \in Execs, NEW i \in Shells, NEW p \in BOOLEAN, Exec(e, i, p)
      PROVE  cell'[o] = cell[o]
  BY <1>0, <1>1, <1>c, CopiedElsewhere DEF Exec, Calls
<1>2. ASSUME NEW c \in Execs, NEW p \in Execs,
             NEW env \in {"session", "merge", "replace"}, Nest(c, p, env)
      PROVE  cell'[o] = cell[o]
  <2>1. Copied(ExecCopies, session[at[p]], Fresh(c, "begin"))[o] = cell[o]
    BY <1>0, <1>c, CopiedElsewhere DEF Calls
  <2>2. \A g : Obj(c, "begin", g) # o BY <1>0 DEF Obj, o
  <2>. QED BY <1>0, <1>2, <2>1, <2>2 DEF Nest, NestedCell
<1>3. ASSUME NEW e \in Execs, NEW g \in Fields, Write(e, g)
      PROVE  cell'[o] = cell[o]
  BY <1>0, <1>3, <1>b DEF Write, TypeOK
<1>4. ASSUME NEW e \in Execs, Succeed(e)
      PROVE  cell'[o] = cell[o]
  <2>1. Copied(CommitSpread, view[e], Fresh(e, "commit"))[o] = cell[o]
    BY <1>0, <1>c, CopiedElsewhere DEF Calls
  <2>. QED BY <1>4, <2>1 DEF Succeed
<1>5. ASSUME NEW i \in Shells, NEW x \in Snaps, Snapshot(i, x)
      PROVE  cell'[o] = cell[o]
  <2>1. x # s BY <1>5 DEF Snapshot
  <2>. QED BY <1>0, <1>5, <2>1, <1>c, CopiedElsewhere DEF Snapshot, Calls
<1>6. ASSUME NEW x \in Restores \cup Shells, NEW when \in {"begin", "commit"},
             NEW i \in Shells, NEW src,
             cell' = Copied(Fields, src, RestoredSession(src, x, when, i))
      PROVE  cell'[o] = cell[o]
  <2>1. CASE f = "fs"
    <3>1. RestoredSession(src, x, when, i)[f] = session[i][f]
      BY <2>1 DEF RestoredSession, CloneCopies, StateFields
    <3>. QED BY <1>0, <1>6, <1>a, <3>1, CopiedElsewhere
  <2>2. CASE f # "fs"
    <3>1. RestoredSession(src, x, when, i)[f] = Obj(x, when, f)
      BY <2>2 DEF RestoredSession, CloneCopies, StateFields
    <3>2. Obj(x, when, f) # o BY <1>0 DEF Obj, o
    <3>. QED BY <1>0, <1>6, <3>1, <3>2, CopiedElsewhere
  <2>. QED BY <2>1, <2>2
<1>7. ASSUME NEW i \in Shells, NEW x \in Snaps, NEW r \in Restores, Restore(i, x, r)
      PROVE  cell'[o] = cell[o]
  BY <1>6, <1>7 DEF Restore
<1>8. ASSUME NEW j \in Shells, ForkRestore(j)
      PROVE  cell'[o] = cell[o]
  BY <1>6, <1>8 DEF ForkRestore
<1>9. ASSUME NEW i \in Shells, NEW j \in Shells, Fork(i, j)
      PROVE  cell'[o] = cell[o]
  BY <1>0, <1>9, <1>c, CopiedElsewhere DEF Fork, Calls
<1>10. ASSUME NEW p \in Execs, NestedReturns(p) \/ TimeoutAbandons(p) \/ Fail(p)
       PROVE  cell'[o] = cell[o]
  BY <1>10 DEF NestedReturns, TimeoutAbandons, Fail
<1>11. cell'[o] = cell[o]
  BY <1>1, <1>2, <1>3, <1>4, <1>5, <1>7, <1>8, <1>9, <1>10 DEF Next
<1>. QED BY <1>11 DEF o

THEOREM SnapshotsAreFrozen == Spec => SnapshotFrozen
<1>1. [SnapshotKept]_vars <=> [\A s \in taken, f \in Fields :
         cell'[Obj(s, "begin", f)] = cell[Obj(s, "begin", f)]]_vars
  BY DEF SnapshotKept
<1>. QED BY <1>1, TypeCorrect, OwnershipHolds, NextKeepsSnapshots, PTL
         DEF Spec, SnapshotFrozen

-----------------------------------------------------------------------------
(***************************************************************************)
(* The values behind the references.  What an instance holds was created   *)
(* by a call that is over, so whatever a call creates is seen by its       *)
(* creator alone until the creator ends.                                   *)
(***************************************************************************)
LEMMA SessionCreators ==
  ASSUME TypeOK, Ownership, NEW i \in Shells, NEW f \in ExecCopies
  PROVE  \/ session[i][f] = Obj(i, "commit", f)
         \/ \E r \in restored : at[r] = i /\ session[i][f] = Obj(r, "begin", f)
         \/ \E e \in Execs, when \in {"begin", "commit"} :
              pc[e] = "ok" /\ at[e] = i /\ session[i][f] = Obj(e, when, f)
<1>1. f \in Fields /\ f # "fs" BY SessionAssumption DEF ExecCopies
<1>2. session[i][f] \in CreatedFor(i, f) BY <1>1 DEF Ownership
<1>. QED BY <1>1, <1>2 DEF CreatedFor

LEMMA ExecView ==
  ASSUME TypeOK, Ownership, NEW e \in Execs, NEW f \in ExecCopies
  PROVE  view[e][f] = Obj(e, "begin", f)
BY DEF Ownership, ExecCopies

\* No instance holds what an exec, a restore or a snapshot has yet to give it.
LEMMA NotInSession ==
  ASSUME TypeOK, Ownership, NEW i \in Shells, NEW f \in ExecCopies, NEW g
  PROVE  /\ \A e \in Execs : \A when : pc[e] # "ok" => session[i][f] # Obj(e, when, g)
         /\ \A r \in Restores : \A when : r \notin restored => session[i][f] # Obj(r, when, g)
         /\ \A s \in Snaps \cup Shells : session[i][f] # Obj(s, "begin", g)
         /\ \A j \in Shells : \A when : j # i => session[i][f] # Obj(j, when, g)
BY SessionCreators, SessionAssumption DEF Obj, TypeOK

LEMMA SessionField ==
  ASSUME TypeOK, Ownership, NEW i \in Shells, NEW f \in ExecCopies
  PROVE  session[i][f] \in Objs /\ session[i][f][3] = f
<1>1. session[i][f] \in Objs BY DEF TypeOK, ExecCopies
<1>. QED BY <1>1, SessionCreators DEF Obj

(***************************************************************************)
(* A copy is of its source, and a call that changes its own objects leaves *)
(* the values of everybody else alone.                                     *)
(***************************************************************************)
LEMMA CopiedAt ==
  ASSUME NEW F, NEW src, NEW dst, NEW x \in Calls, NEW when \in {"begin", "commit"},
         NEW f \in Fields, f \in F, dst[f] = Obj(x, when, f)
  PROVE  Copied(F, src, dst)[Obj(x, when, f)] = cell[src[f]]
<1>1. Obj(x, when, f) \in Objs /\ Obj(x, when, f)[3] = f
  BY ObjType DEF Obj
<1>. QED BY <1>1 DEF Copied

Touches(x, when) ==
  \A o \in Objs : o[3] \in ExecCopies /\ o # Obj(x, when, o[3]) => cell'[o] = cell[o]

LEMMA CopiedTouches ==
  ASSUME NEW F, NEW src, NEW dst, NEW x, NEW when, cell' = Copied(F, src, dst),
         \A f \in F \cap ExecCopies : dst[f] = Obj(x, when, f)
  PROVE  Touches(x, when)
BY DEF Touches, Copied

LEMMA Elsewhere ==
  ASSUME TypeOK, Ownership, NEW x, NEW when, Touches(x, when), NEW f \in ExecCopies
  PROVE  /\ \A i \in Shells : session[i][f] # Obj(x, when, f)
              => cell'[session[i][f]] = cell[session[i][f]]
         /\ \A e \in Execs : Obj(e, "begin", f) # Obj(x, when, f)
              => cell'[view[e][f]] = cell[view[e][f]]
         /\ \A s \in Snaps \cup Shells : Obj(s, "begin", f) # Obj(x, when, f)
              => cell'[Obj(s, "begin", f)] = cell[Obj(s, "begin", f)]
<1>1. \A i \in Shells : session[i][f] \in Objs /\ session[i][f][3] = f BY SessionField
<1>2. \A e \in Execs : view[e][f] \in Objs /\ view[e][f] = Obj(e, "begin", f)
  BY ExecView DEF TypeOK, ExecCopies
<1>3. \A s \in Snaps \cup Shells : Obj(s, "begin", f) \in Objs
  BY ObjType DEF Calls, ExecCopies
<1>4. \A s, w : Obj(s, w, f)[3] = f BY DEF Obj
<1>. QED BY <1>1, <1>2, <1>3, <1>4 DEF Touches

-----------------------------------------------------------------------------
(***************************************************************************)
(* What ValueSession sees, and how every step changes it.                  *)
(***************************************************************************)
Sess == [i \in Shells |-> [f \in ExecCopies |-> cell[session[i][f]]]]
Priv == [e \in Execs |-> [f \in ExecCopies |-> IF e \in Running THEN cell[view[e][f]] ELSE {}]]
Snap == [s \in Snaps \cup Shells |-> [f \in ExecCopies |-> cell[Obj(s, "begin", f)]]]
Home == [e \in Execs |-> IF pc[e] = "idle" THEN None ELSE at[e]]
Captured == taken \cup {j \in Shells \ {Root} : stage[j] # "unborn"}

\* The calls of an exec: nobody else has its objects before it has ended.
LEMMA ExecTouches ==
  ASSUME TypeOK, Ownership, NEW e \in Execs, NEW when \in {"begin", "commit"}, pc[e] # "ok",
         Touches(e, when)
  PROVE  /\ \A i \in Shells, f \in ExecCopies : cell'[session[i][f]] = cell[session[i][f]]
         /\ \A d \in Execs \ {e}, f \in ExecCopies : cell'[view[d][f]] = cell[view[d][f]]
         /\ Snap' = Snap
<1>1. ASSUME NEW f \in ExecCopies
      PROVE  /\ \A i \in Shells : session[i][f] # Obj(e, when, f)
             /\ \A d \in Execs \ {e} : Obj(d, "begin", f) # Obj(e, when, f)
             /\ \A s \in Snaps \cup Shells : Obj(s, "begin", f) # Obj(e, when, f)
  BY NotInSession, SessionAssumption DEF Obj
<1>2. \A s \in Snaps \cup Shells, f \in ExecCopies :
        cell'[Obj(s, "begin", f)] = cell[Obj(s, "begin", f)]
  BY <1>1, Elsewhere
<1>3. Snap' = Snap BY <1>2 DEF Snap
<1>. QED BY <1>1, <1>3, Elsewhere

LEMMA ExecBegins ==
  ASSUME TypeOK, Ownership, NEW e \in Execs, NEW i \in Shells, NEW p \in BOOLEAN, Exec(e, i, p)
  PROVE  /\ Value!Begin(e, i)
         /\ Sess' = Sess /\ Snap' = Snap /\ Priv' = [Priv EXCEPT ![e] = Sess[i]]
<1>0. \A f \in Fields \cap ExecCopies : Fresh(e, "begin")[f] = Obj(e, "begin", f)
  BY DEF Fresh
<1>1. Touches(e, "begin") BY <1>0, CopiedTouches DEF Exec, ExecCopies
<1>2. Sess' = Sess /\ Snap' = Snap
  BY <1>1, ExecTouches DEF Exec, Sess
<1>4. Running' = Running \cup {e} /\ e \notin Running /\ pc[e] = "idle"
  BY DEF Exec, Running, Active, TypeOK
<1>5. Priv' = [Priv EXCEPT ![e] = Sess[i]]
  <2>1. ASSUME NEW f \in ExecCopies
        PROVE  Priv'[e][f] = Sess[i][f]
    <3>1. view'[e][f] = Obj(e, "begin", f)
      BY DEF Exec, ExecState, TypeOK, ExecCopies
    <3>2. cell'[Obj(e, "begin", f)] = cell[session[i][f]]
      BY <1>0, CopiedAt DEF Exec, Calls, ExecCopies
    <3>. QED BY <3>1, <3>2, <1>4 DEF Priv, Sess
  <2>2. ASSUME NEW d \in Execs \ {e}
        PROVE  Priv'[d] = Priv[d]
    <3>1. view'[d] = view[d] BY DEF Exec, TypeOK
    <3>2. \A f \in ExecCopies : cell'[view[d][f]] = cell[view[d][f]]
      BY <1>1, <1>4, ExecTouches
    <3>. QED BY <3>1, <3>2, <1>4 DEF Priv
  <2>3. Priv'[e] = Sess[i] BY <2>1 DEF Priv, Sess
  <2>. QED BY <2>2, <2>3 DEF Priv
<1>6. Home[e] = None /\ Home' = [Home EXCEPT ![e] = i]
  BY <1>4 DEF Exec, Home, TypeOK
<1>7. Captured' = Captured BY DEF Exec, Captured
<1>8. Value!Begin(e, i)
  BY <1>2, <1>4, <1>5, <1>6, <1>7 DEF Value!Begin, Sess, Priv, Snap, Home, Captured
<1>. QED BY <1>2, <1>5, <1>8

LEMMA NestBegins ==
  ASSUME TypeOK, Ownership, NEW c \in Execs, NEW p \in Execs,
         NEW env \in {"session", "merge", "replace"}, Nest(c, p, env)
  PROVE  /\ Value!BeginNested(c, p)
         /\ Sess' = Sess /\ Snap' = Snap
         /\ \E v \in {Sess[at[p]]["env"], Priv[p]["env"], Sess[at[p]]["env"] \cup Priv[p]["env"]} :
              Priv' = [Priv EXCEPT ![c] = [Sess[at[p]] EXCEPT !["env"] = v,
                                                              !["cwd"] = Priv[p]["cwd"]]]
<1>. DEFINE i == at[p]
<1>0. /\ c # p /\ p \in Running /\ c \notin Running /\ pc[c] = "idle"
      /\ Running' = Running \cup {c} /\ i \in Shells /\ pc[p] # "idle"
  BY DEF Nest, Running, Active, TypeOK
<1>1. Touches(c, "begin")
  <2>1. ASSUME NEW o \in Objs, o[3] \in ExecCopies, o # Obj(c, "begin", o[3])
        PROVE  cell'[o] = cell[o]
    <3>1. o # Obj(c, "begin", "env") /\ o # Obj(c, "begin", "cwd")
      BY <2>1 DEF Obj
    <3>2. cell'[o] = Copied(ExecCopies, session[at[p]], Fresh(c, "begin"))[o]
      BY <3>1 DEF Nest, NestedCell
    <3>3. Fresh(c, "begin")[o[3]] # o
      BY <2>1 DEF Fresh, ExecCopies
    <3>. QED BY <3>2, <3>3, CopiedElsewhere
  <2>. QED BY <2>1 DEF Touches
<1>2. Sess' = Sess /\ Snap' = Snap
  BY <1>0, <1>1, ExecTouches DEF Nest, Sess
<1>. DEFINE passed == NestedEnv(p, env)
            value  == [f \in ExecCopies |-> CASE f = "env" -> passed
                                              [] f = "cwd" -> cell[view[p]["cwd"]]
                                              [] OTHER     -> cell[session[i][f]]]
<1>3. Priv' = [Priv EXCEPT ![c] = value]
  <2>1. ASSUME NEW f \in ExecCopies
        PROVE  Priv'[c][f] = value[f]
    <3>0. f \in Fields /\ Obj(c, "begin", f) \in Objs
      BY ObjType DEF ExecCopies, Calls
    <3>1. view'[c][f] = Obj(c, "begin", f)
      BY <3>0, <1>0 DEF Nest, ExecState, TypeOK
    <3>2. Copied(ExecCopies, session[i], Fresh(c, "begin"))[Obj(c, "begin", f)]
            = cell[session[i][f]]
      BY <3>0, CopiedAt DEF Calls, Fresh
    <3>3. cell'[Obj(c, "begin", f)] = value[f]
      <4>1. CASE f = "env"
        <5>0. Obj(c, "begin", "env") \in Objs BY <3>0, <4>1
        <5>1. NestedCell(c, p, env)[Obj(c, "begin", "env")] = NestedEnv(p, env)
          BY <5>0 DEF NestedCell, Obj
        <5>2. value[f] = NestedEnv(p, env) BY <4>1
        <5>. QED BY <4>1, <5>1, <5>2 DEF Nest
      <4>2. CASE f = "cwd" BY <4>2, <3>0 DEF Nest, NestedCell, Obj
      <4>3. CASE f # "env" /\ f # "cwd" BY <4>3, <3>0, <3>2 DEF Nest, NestedCell, Obj
      <4>. QED BY <4>1, <4>2, <4>3
    <3>. QED BY <3>1, <3>3, <1>0 DEF Priv
  <2>2. ASSUME NEW d \in Execs \ {c}
        PROVE  Priv'[d] = Priv[d]
    <3>1. view'[d] = view[d] BY DEF Nest, TypeOK
    <3>2. \A f \in ExecCopies : cell'[view[d][f]] = cell[view[d][f]]
      BY <1>1, <1>0, ExecTouches
    <3>. QED BY <3>1, <3>2, <1>0 DEF Priv
  <2>3. Priv'[c] = value BY <2>1 DEF Priv
  <2>. QED BY <2>2, <2>3 DEF Priv
<1>4. /\ "env" \in ExecCopies => /\ Sess[i]["env"] = cell[session[i]["env"]]
                                 /\ Priv[p]["env"] = cell[view[p]["env"]]
      /\ "cwd" \in ExecCopies => Priv[p]["cwd"] = cell[view[p]["cwd"]]
  BY <1>0 DEF Sess, Priv
<1>5. \E v \in {Sess[i]["env"], Priv[p]["env"], Sess[i]["env"] \cup Priv[p]["env"]} :
        value = [Sess[i] EXCEPT !["env"] = v, !["cwd"] = Priv[p]["cwd"]]
  <2>. DEFINE v == CASE env = "session" -> Sess[i]["env"]
                     [] env = "merge"   -> Sess[i]["env"] \cup Priv[p]["env"]
                     [] env = "replace" -> Priv[p]["env"]
  <2>1. v \in {Sess[i]["env"], Priv[p]["env"], Sess[i]["env"] \cup Priv[p]["env"]}
    OBVIOUS
  <2>2. "env" \in ExecCopies => passed = v
    BY <1>4 DEF NestedEnv
  <2>3. Sess[i] = [f \in ExecCopies |-> cell[session[i][f]]] BY <1>0 DEF Sess
  <2>4. value = [Sess[i] EXCEPT !["env"] = v, !["cwd"] = Priv[p]["cwd"]]
    <3>. HIDE DEF v
    <3>1. [Sess[i] EXCEPT !["env"] = v, !["cwd"] = Priv[p]["cwd"]] =
            [f \in ExecCopies |-> CASE f = "env" -> v
                                    [] f = "cwd" -> Priv[p]["cwd"]
                                    [] OTHER     -> Sess[i][f]]
      BY <2>3
    <3>2. ASSUME NEW f \in ExecCopies
          PROVE  value[f] = CASE f = "env" -> v
                              [] f = "cwd" -> Priv[p]["cwd"]
                              [] OTHER     -> Sess[i][f]
      <4>1. CASE f = "env" BY <4>1, <2>2
      <4>2. CASE f = "cwd" BY <4>2, <1>4
      <4>3. CASE f # "env" /\ f # "cwd" BY <4>3, <2>3
      <4>. QED BY <4>1, <4>2, <4>3
    <3>. QED BY <3>1, <3>2
  <2>. QED BY <2>1, <2>4
<1>6. Home[p] = i /\ Home[c] = None /\ Home' = [Home EXCEPT ![c] = i]
  <2>1. pc[c] = "idle" /\ pc[p] \in Active /\ at' = [at EXCEPT ![c] = at[p]]
        /\ pc' = [pc EXCEPT ![c] = "running", ![p] = "waiting"]
    BY DEF Nest
  <2>2. pc[p] # "idle" /\ c # p BY <2>1 DEF Active
  <2>3. Home[p] = i /\ Home[c] = None BY <1>0, <2>1, <2>2 DEF Home
  <2>4. ASSUME NEW d \in Execs
        PROVE  Home'[d] = IF d = c THEN i ELSE Home[d]
    <3>1. at'[d] = IF d = c THEN i ELSE at[d] BY <1>0, <2>1 DEF TypeOK
    <3>2. pc'[d] = IF d = c THEN "running" ELSE IF d = p THEN "waiting" ELSE pc[d]
      BY <1>0, <2>1, <2>2 DEF TypeOK
    <3>. QED BY <3>1, <3>2, <2>2 DEF Home
  <2>. HIDE DEF i
  <2>5. Home' = [Home EXCEPT ![c] = i] BY <2>4 DEF Home
  <2>. QED BY <2>3, <2>5
<1>7. Captured' = Captured BY DEF Nest, Captured
<1>. HIDE DEF value, i
<1>8. \E v \in {Sess[Home[p]]["env"], Priv[p]["env"], Sess[Home[p]]["env"] \cup Priv[p]["env"]} :
        Priv' = [Priv EXCEPT ![c] = [Sess[Home[p]] EXCEPT !["env"] = v, !["cwd"] = Priv[p]["cwd"]]]
  BY <1>3, <1>5, <1>6
<1>9. Home[c] = None /\ p \in Running /\ Home' = [Home EXCEPT ![c] = Home[p]]
      /\ Running' = Running \cup {c}
  BY <1>0, <1>6
<1>10. Value!BeginNested(c, p)
  BY <1>2, <1>7, <1>8, <1>9 DEF Value!BeginNested, Sess, Priv, Snap, Home, Captured
<1>. QED BY <1>2, <1>6, <1>8, <1>10 DEF i

LEMMA WriteChanges ==
  ASSUME TypeOK, Ownership, NEW e \in Execs, NEW f \in Fields, Write(e, f)
  PROVE  IF f \in ExecCopies THEN Value!Change(e, f)
                             ELSE UNCHANGED <<Sess, Priv, Snap, Home, Running, Captured>>
<1>0. e \in Running /\ Running' = Running /\ Home' = Home /\ Captured' = Captured
      /\ pc[e] # "ok" /\ pc[e] # "idle" /\ e \in Execs
  BY DEF Write, Running, Active, Home, Captured
<1>1. view[e][f] \in Objs /\ view[e][f][3] = f
  <2>1. CASE f \in ExecCopies BY <2>1, ExecView DEF TypeOK, Obj
  <2>2. CASE f \notin ExecCopies
    <3>1. view[e][f] \in CreatedFor(at[e], f)
      BY <2>2, <1>0 DEF Ownership, TypeOK
    <3>. QED BY <3>1 DEF TypeOK, CreatedFor, Obj
  <2>. QED BY <2>1, <2>2
<1>2. \A o \in Objs : o # view[e][f] => cell'[o] = cell[o]
  BY DEF Write, TypeOK
<1>3. CASE f \in ExecCopies
  <2>0. view[e][f] = Obj(e, "begin", f) BY <1>3, ExecView
  <2>1. Touches(e, "begin") BY <1>2, <2>0 DEF Touches, Obj
  <2>2. Sess' = Sess /\ Snap' = Snap
    <3>1. session' = session BY DEF Write
    <3>. QED BY <1>0, <2>1, <3>1, ExecTouches DEF Sess
  <2>3. \E v \in {{e}, Priv[e][f] \cup {e}} : Priv' = [Priv EXCEPT ![e][f] = v]
    <3>. DEFINE v == IF f = "cwd" THEN {e} ELSE Priv[e][f] \cup {e}
    <3>0. Priv[e][f] = cell[view[e][f]] BY <1>0, <1>3 DEF Priv
    <3>1. cell'[view[e][f]] = v BY <1>1, <3>0 DEF Write, TypeOK
    <3>2. ASSUME NEW g \in ExecCopies, g # f PROVE cell'[view[e][g]] = cell[view[e][g]]
      <4>1. view[e][g] \in Objs /\ view[e][g] # view[e][f]
        BY <3>2, <2>0, ExecView DEF Obj, TypeOK, ExecCopies
      <4>. QED BY <4>1, <1>2
    <3>3. ASSUME NEW d \in Execs \ {e}, NEW g \in ExecCopies
          PROVE  cell'[view[d][g]] = cell[view[d][g]]
      BY <1>0, <2>1, ExecTouches
    <3>4. view' = view BY DEF Write
    <3>. HIDE DEF v
    <3>5. ASSUME NEW d \in Execs, NEW g \in ExecCopies
          PROVE  Priv'[d][g] = IF d = e /\ g = f THEN v ELSE Priv[d][g]
      BY <1>0, <3>1, <3>2, <3>3, <3>4 DEF Priv
    <3>6. Priv' = [d \in Execs |-> [g \in ExecCopies |-> IF d = e /\ g = f THEN v ELSE Priv[d][g]]]
      BY <3>5 DEF Priv
    <3>7. [Priv EXCEPT ![e][f] = v]
            = [d \in Execs |-> [g \in ExecCopies |-> IF d = e /\ g = f THEN v ELSE Priv[d][g]]]
      BY <1>3 DEF Priv
    <3>8. v \in {{e}, Priv[e][f] \cup {e}} BY DEF v
    <3>. QED BY <3>6, <3>7, <3>8
  <2>. QED
    BY <1>0, <1>3, <2>2, <2>3 DEF Value!Change, Sess, Priv, Snap, Home, Captured
<1>4. CASE f \notin ExecCopies
  <2>1. \A o \in Objs : o[3] \in ExecCopies => cell'[o] = cell[o]
    BY <1>1, <1>2, <1>4
  <2>2. \A i \in Shells, g \in ExecCopies : cell'[session[i][g]] = cell[session[i][g]]
    BY <2>1, SessionField
  <2>3. \A d \in Execs, g \in ExecCopies : cell'[view[d][g]] = cell[view[d][g]]
    BY <2>1, ExecView DEF TypeOK, Obj, ExecCopies
  <2>4. \A s \in Snaps \cup Shells, g \in ExecCopies :
          cell'[Obj(s, "begin", g)] = cell[Obj(s, "begin", g)]
    BY <2>1, ObjType DEF Obj, Calls, ExecCopies
  <2>5. session' = session /\ view' = view BY DEF Write
  <2>6. Sess' = Sess BY <2>2, <2>5 DEF Sess
  <2>7. Priv' = Priv BY <2>3, <2>5, <1>0 DEF Priv
  <2>8. Snap' = Snap BY <2>4 DEF Snap
  <2>. QED BY <1>0, <1>4, <2>6, <2>7, <2>8
<1>. QED BY <1>3, <1>4

\* An exec that ends; the value it commits is its own.
LEMMA Ends ==
  ASSUME TypeOK, Ownership, NEW e \in Execs, Succeed(e) \/ Fail(e)
  PROVE  /\ Value!End(e)
         /\ Sess' = IF Succeed(e) /\ persist[e] THEN [Sess EXCEPT ![at[e]] = Priv[e]] ELSE Sess
<1>0. /\ e \in Running /\ Running' = Running \ {e} /\ pc[e] = "running" /\ at[e] \in Shells
      /\ UNCHANGED <<view, at, stage, taken>>
  BY DEF Succeed, Fail, Running, Active, TypeOK
<1>1. Touches(e, "commit")
  <2>1. CASE cell' = cell BY <2>1 DEF Touches
  <2>2. CASE cell' = Copied(CommitSpread, view[e], Fresh(e, "commit"))
    BY <2>2, CopiedTouches DEF Fresh, ExecCopies
  <2>. QED BY <2>1, <2>2 DEF Succeed, Fail
<1>2. /\ \A i \in Shells, f \in ExecCopies : cell'[session[i][f]] = cell[session[i][f]]
      /\ Snap' = Snap
  BY <1>0, <1>1, ExecTouches
<1>2a. \A d \in Execs, f \in ExecCopies : cell'[view[d][f]] = cell[view[d][f]]
  <2>1. \A d \in Execs, f \in ExecCopies : Obj(d, "begin", f) # Obj(e, "commit", f)
    BY DEF Obj
  <2>. QED BY <2>1, <1>1, Elsewhere
<1>3. Priv' = [Priv EXCEPT ![e] = Value!Blank]
  BY <1>0, <1>2a DEF Priv, Value!Blank
<1>4. Sess' = IF Succeed(e) /\ persist[e] THEN [Sess EXCEPT ![at[e]] = Priv[e]] ELSE Sess
  <2>1. CASE Succeed(e) /\ persist[e]
    <3>1. session' = [session EXCEPT ![at[e]] = CommittedSession(e)]
          /\ cell' = Copied(CommitSpread, view[e], Fresh(e, "commit"))
      BY <2>1 DEF Succeed, Commits
    <3>2. ASSUME NEW f \in ExecCopies
          PROVE  cell'[CommittedSession(e)[f]] = cell[view[e][f]]
      <4>0. f \in Fields /\ f \in {"cwd", "env", "functions", "options"} BY DEF ExecCopies
      <4>1. CASE f \in CommitByRef
        <5>1. CommittedSession(e)[f] = view[e][f]
          BY <4>0, <4>1 DEF CommittedSession, CommitByRef, CommitSpread
        <5>. QED BY <5>1, <1>2a
      <4>2. CASE f \notin CommitByRef
        <5>1. f \in CommitSpread BY <4>0, <4>2 DEF CommitByRef, CommitSpread
        <5>2. CommittedSession(e)[f] = Obj(e, "commit", f)
          BY <4>0, <4>2, <5>1 DEF CommittedSession
        <5>3. cell'[Obj(e, "commit", f)] = cell[view[e][f]]
          BY <3>1, <4>0, <5>1, CopiedAt DEF Calls, Fresh
        <5>. QED BY <5>2, <5>3
      <4>. QED BY <4>1, <4>2
    <3>3. ASSUME NEW i \in Shells, NEW f \in ExecCopies
          PROVE  cell'[session'[i][f]] = IF i = at[e] THEN cell[view[e][f]] ELSE cell[session[i][f]]
      BY <3>1, <3>2, <1>0, <1>2 DEF TypeOK
    <3>4. Priv[e] = [f \in ExecCopies |-> cell[view[e][f]]] BY <1>0 DEF Priv
    <3>5. Sess' = [Sess EXCEPT ![at[e]] = Priv[e]]
      <4>1. Sess' = [i \in Shells |-> [f \in ExecCopies |-> cell'[session'[i][f]]]]
        BY DEF Sess
      <4>2. [Sess EXCEPT ![at[e]] = Priv[e]]
              = [i \in Shells |-> IF i = at[e] THEN Priv[e] ELSE Sess[i]]
        BY DEF Sess
      <4>3. ASSUME NEW i \in Shells
            PROVE  [f \in ExecCopies |-> cell'[session'[i][f]]]
                     = IF i = at[e] THEN Priv[e] ELSE Sess[i]
        BY <3>3, <3>4 DEF Sess
      <4>. QED BY <4>1, <4>2, <4>3
    <3>. QED BY <2>1, <3>5
  <2>2. CASE ~(Succeed(e) /\ persist[e])
    <3>1. session' = session BY <2>2 DEF Succeed, Fail, Commits
    <3>. QED BY <2>2, <3>1, <1>2 DEF Sess
  <2>. QED BY <2>1, <2>2
<1>5. Home' = Home /\ Captured' = Captured /\ Home[e] = at[e]
  BY <1>0 DEF Home, Captured, Succeed, Fail, TypeOK
<1>6. Value!End(e)
  BY <1>0, <1>2, <1>3, <1>4, <1>5 DEF Value!End, Value!Blank, Sess, Priv, Snap, Home, Captured
<1>. QED BY <1>4, <1>6

\* A snapshot, also the one a fork begins with: nobody else has its objects.
LEMMA Captures ==
  ASSUME TypeOK, Ownership, NEW x \in Snaps \cup Shells, NEW i \in Shells,
         cell' = Copied(Fields, session[i], Fresh(x, "begin")),
         \A k \in Shells, f \in ExecCopies : session'[k][f] = session[k][f],
         UNCHANGED <<view, pc>>
  PROVE  Sess' = Sess /\ Priv' = Priv /\ Snap' = [Snap EXCEPT ![x] = Sess[i]]
<1>0. \A f \in Fields : Fresh(x, "begin")[f] = Obj(x, "begin", f)
  BY DEF Fresh
<1>1. Touches(x, "begin") BY <1>0, CopiedTouches
<1>2. ASSUME NEW f \in ExecCopies
      PROVE  /\ \A k \in Shells : cell'[session[k][f]] = cell[session[k][f]]
             /\ \A e \in Execs : cell'[view[e][f]] = cell[view[e][f]]
             /\ \A y \in (Snaps \cup Shells) \ {x} :
                  cell'[Obj(y, "begin", f)] = cell[Obj(y, "begin", f)]
  <2>1. \A k \in Shells : session[k][f] # Obj(x, "begin", f) BY NotInSession
  <2>2. \A e \in Execs : Obj(e, "begin", f) # Obj(x, "begin", f)
    BY SessionAssumption DEF Obj
  <2>3. \A y \in (Snaps \cup Shells) \ {x} : Obj(y, "begin", f) # Obj(x, "begin", f)
    BY DEF Obj
  <2>. QED BY <1>1, <2>1, <2>2, <2>3, Elsewhere
<1>3. Sess' = Sess BY <1>2 DEF Sess
<1>4. Priv' = Priv BY <1>2 DEF Priv, Running
<1>5. ASSUME NEW f \in ExecCopies
      PROVE  cell'[Obj(x, "begin", f)] = cell[session[i][f]]
  <2>1. x \in Calls /\ f \in Fields /\ Fresh(x, "begin")[f] = Obj(x, "begin", f)
    BY <1>0 DEF Calls, ExecCopies
  <2>2. Copied(Fields, session[i], Fresh(x, "begin"))[Obj(x, "begin", f)] = cell[session[i][f]]
    BY <2>1, CopiedAt
  <2>. QED BY <2>2
<1>6. ASSUME NEW y \in Snaps \cup Shells
      PROVE  Snap'[y] = [Snap EXCEPT ![x] = Sess[i]][y]
  BY <1>2, <1>5 DEF Snap, Sess
<1>7. Snap' = [Snap EXCEPT ![x] = Sess[i]] BY <1>6 DEF Snap
<1>. QED BY <1>3, <1>4, <1>7

\* No exec, no capture and no instance but i has an object that call r creates.
Unheld(i, r, when) ==
  \A f \in ExecCopies :
    /\ \A k \in Shells \ {i} : session[k][f] # Obj(r, when, f)
    /\ \A e \in Execs : Obj(e, "begin", f) # Obj(r, when, f)
    /\ \A s \in Snaps \cup Shells : Obj(s, "begin", f) # Obj(r, when, f)

\* A restore from the capture x, by a call no instance but i has objects of.
LEMMA Resets ==
  ASSUME TypeOK, Ownership, NEW i \in Shells, NEW x \in Snaps \cup Shells,
         NEW r \in Calls, NEW when \in {"begin", "commit"}, NEW new,
         new = RestoredSession(Fresh(x, "begin"), r, when, i),
         cell' = Copied(Fields, Fresh(x, "begin"), new),
         session' = [session EXCEPT ![i] = new],
         UNCHANGED <<view, pc>>,
         Unheld(i, r, when)
  PROVE  Sess' = [Sess EXCEPT ![i] = Snap[x]] /\ Priv' = Priv /\ Snap' = Snap
<1>0. \A f \in ExecCopies : f \in Fields /\ new[f] = Obj(r, when, f)
  BY DEF RestoredSession, CloneCopies, StateFields, ExecCopies
<1>1. Touches(r, when) BY <1>0, CopiedTouches
<1>2. ASSUME NEW f \in ExecCopies
      PROVE  /\ \A k \in Shells \ {i} : cell'[session[k][f]] = cell[session[k][f]]
             /\ \A e \in Execs : cell'[view[e][f]] = cell[view[e][f]]
             /\ \A y \in Snaps \cup Shells :
                  cell'[Obj(y, "begin", f)] = cell[Obj(y, "begin", f)]
  BY <1>1, Elsewhere DEF Unheld
<1>3. Priv' = Priv BY <1>2 DEF Priv, Running
<1>4. Snap' = Snap BY <1>2 DEF Snap
<1>5. ASSUME NEW f \in ExecCopies
      PROVE  cell'[session'[i][f]] = cell[Obj(x, "begin", f)]
  <2>1. session'[i][f] = Obj(r, when, f) BY <1>0 DEF TypeOK
  <2>2. cell'[Obj(r, when, f)] = cell[Fresh(x, "begin")[f]]
    BY <1>0, CopiedAt
  <2>. QED BY <1>0, <2>1, <2>2 DEF Fresh
<1>6. ASSUME NEW k \in Shells
      PROVE  Sess'[k] = [Sess EXCEPT ![i] = Snap[x]][k]
  <2>1. CASE k = i BY <2>1, <1>5 DEF Sess, Snap
  <2>2. CASE k # i
    <3>1. session'[k] = session[k] BY <2>2 DEF TypeOK
    <3>. QED BY <2>2, <3>1, <1>2 DEF Sess
  <2>. QED BY <2>1, <2>2
<1>7. Sess' = [Sess EXCEPT ![i] = Snap[x]] BY <1>6 DEF Sess
<1>. QED BY <1>3, <1>4, <1>7

LEMMA SnapshotCaptures ==
  ASSUME TypeOK, Ownership, NEW i \in Shells, NEW s \in Snaps, Snapshot(i, s)
  PROVE  Value!Capture(s, i)
<1>1. Sess' = Sess /\ Priv' = Priv /\ Snap' = [Snap EXCEPT ![s] = Sess[i]]
  BY Captures DEF Snapshot
<1>2. Home' = Home /\ Running' = Running /\ Captured' = Captured \cup {s} /\ s \notin Captured
  BY SessionAssumption DEF Snapshot, Home, Running, Captured
<1>. QED BY <1>1, <1>2 DEF Value!Capture, Sess, Priv, Snap, Home, Captured

LEMMA ForkCaptures ==
  ASSUME TypeOK, Ownership, stage[Root] = "live", NEW i \in Shells, NEW j \in Shells, Fork(i, j)
  PROVE  Value!Capture(j, i)
<1>1. \A k \in Shells, f \in ExecCopies : session'[k][f] = session[k][f]
  BY DEF Fork, TypeOK, ExecCopies
<1>2. Sess' = Sess /\ Priv' = Priv /\ Snap' = [Snap EXCEPT ![j] = Sess[i]]
  BY <1>1, Captures DEF Fork
<1>3. Home' = Home /\ Running' = Running /\ Captured' = Captured \cup {j} /\ j \notin Captured
  BY SessionAssumption DEF Fork, Home, Running, Captured, TypeOK
<1>. QED BY <1>2, <1>3 DEF Value!Capture, Sess, Priv, Snap, Home, Captured

LEMMA RestoreResets ==
  ASSUME TypeOK, Ownership,
         NEW i \in Shells, NEW s \in Snaps, NEW r \in Restores, Restore(i, s, r)
  PROVE  Value!Reset(i, s)
<1>1. Unheld(i, r, "begin")
  BY NotInSession, SessionAssumption DEF Unheld, Restore, Obj
<1>2. Sess' = [Sess EXCEPT ![i] = Snap[s]] /\ Priv' = Priv /\ Snap' = Snap
  <2>. DEFINE new == RestoredSession(Fresh(s, "begin"), r, "begin", i)
  <2>1. /\ cell' = Copied(Fields, Fresh(s, "begin"), new)
        /\ session' = [session EXCEPT ![i] = new]
        /\ UNCHANGED <<view, pc>>
    BY DEF Restore
  <2>2. r \in Calls /\ s \in Snaps \cup Shells BY DEF Calls
  <2>. QED BY <1>1, <2>1, <2>2, Resets
<1>3. \A e \in Execs : at'[e] = at[e]
  BY SessionAssumption DEF Restore, TypeOK
<1>4. Home' = Home /\ Running' = Running /\ Captured' = Captured /\ s \in Captured
  BY <1>3 DEF Restore, Home, Running, Captured
<1>. QED BY <1>2, <1>4 DEF Value!Reset, Sess, Priv, Snap, Home, Captured

LEMMA ForkRestoreResets ==
  ASSUME TypeOK, Ownership, stage[Root] = "live", NEW j \in Shells, ForkRestore(j)
  PROVE  Value!Reset(j, j)
<1>1. Unheld(j, j, "commit")
  BY NotInSession, SessionAssumption DEF Unheld, Obj
<1>2. Sess' = [Sess EXCEPT ![j] = Snap[j]] /\ Priv' = Priv /\ Snap' = Snap
  <2>. DEFINE new == RestoredSession(Fresh(j, "begin"), j, "commit", j)
  <2>1. /\ cell' = Copied(Fields, Fresh(j, "begin"), new)
        /\ session' = [session EXCEPT ![j] = new]
        /\ UNCHANGED <<view, pc>>
    BY DEF ForkRestore
  <2>2. j \in Calls BY DEF Calls
  <2>. QED BY <1>1, <2>1, <2>2, Resets
<1>3. Home' = Home /\ Running' = Running /\ Captured' = Captured /\ j \in Captured
  BY DEF ForkRestore, Home, Running, Captured, TypeOK
<1>. QED BY <1>2, <1>3 DEF Value!Reset, Sess, Priv, Snap, Home, Captured

-----------------------------------------------------------------------------
RootLive == stage[Root] = "live"

LEMMA RootStaysLive ==
  /\ Init => RootLive
  /\ TypeOK /\ RootLive /\ [Next]_vars => RootLive'
<1>1. Init => RootLive BY SessionAssumption DEF Init, RootLive
<1>2. ASSUME TypeOK, RootLive, Next PROVE RootLive'
  <2>1. stage' = stage \/ (\E j \in Shells : stage[j] # "live" /\ stage' = [stage EXCEPT ![j] = "forking"])
          \/ (\E j \in Shells : stage' = [stage EXCEPT ![j] = "live"])
    BY <1>2 DEF Next, Exec, Nest, NestedReturns, TimeoutAbandons, Write, Succeed, Fail,
         Snapshot, Restore, Fork, ForkRestore
  <2>. QED BY <1>2, <2>1, SessionAssumption DEF RootLive, TypeOK
<1>. QED BY <1>1, <1>2 DEF vars, RootLive

LEMMA InitValues == Init => Value!Init
<1>. SUFFICES ASSUME Init PROVE Value!Init
  OBVIOUS
<1>1. Sess = [i \in Shells |-> Value!Blank]
  <2>1. \A i \in Shells, f \in ExecCopies : session[i][f] \in Objs
    BY ObjType DEF Init, Calls, ExecCopies
  <2>. QED BY <2>1 DEF Init, Sess, Value!Blank
<1>2. Running = {} BY DEF Init, Running, Active
<1>3. Priv = [e \in Execs |-> Value!Blank] BY <1>2 DEF Priv, Value!Blank
<1>4. Snap = [x \in Snaps \cup Shells |-> Value!Blank]
  <2>1. \A x \in Snaps \cup Shells, f \in ExecCopies : Obj(x, "begin", f) \in Objs
    BY ObjType DEF Calls, ExecCopies
  <2>. QED BY <2>1 DEF Init, Snap, Value!Blank
<1>5. Home = [e \in Execs |-> None] BY DEF Init, Home
<1>6. Captured = {} BY DEF Init, Captured
<1>. QED
  BY <1>1, <1>2, <1>3, <1>4, <1>5, <1>6
     DEF Value!Init, Value!Blank, Sess, Priv, Snap, Home, Captured

\* The steps that leave every value alone.
LEMMA SameValues ==
  ASSUME UNCHANGED <<cell, session, view, at, stage, taken>>, Running' = Running,
         \A e \in Execs : pc'[e] = "idle" <=> pc[e] = "idle"
  PROVE  UNCHANGED Value!vars
<1>1. Sess' = Sess BY DEF Sess
<1>2. Priv' = Priv BY DEF Priv
<1>3. Snap' = Snap BY DEF Snap
<1>4. Home' = Home /\ Captured' = Captured BY DEF Home, Captured
<1>. QED
  BY <1>1, <1>2, <1>3, <1>4 DEF Value!vars, Sess, Priv, Snap, Home, Captured

LEMMA NextValues ==
  TypeOK /\ Ownership /\ RootLive /\ [Next]_vars => [Value!Next]_(Value!vars)
<1>. SUFFICES ASSUME TypeOK, Ownership, RootLive, [Next]_vars
              PROVE  Value!Next \/ UNCHANGED Value!vars
  OBVIOUS
<1>1. ASSUME NEW e \in Execs, NEW i \in Shells, NEW p \in BOOLEAN, Exec(e, i, p)
      PROVE  Value!Next
  BY <1>1, ExecBegins DEF Value!Next
<1>2. ASSUME NEW c \in Execs, NEW p \in Execs,
             NEW env \in {"session", "merge", "replace"}, Nest(c, p, env)
      PROVE  Value!Next
  BY <1>2, NestBegins DEF Value!Next
<1>3. ASSUME NEW p \in Execs, NestedReturns(p) \/ TimeoutAbandons(p)
      PROVE  UNCHANGED Value!vars
  <2>1. UNCHANGED <<cell, session, view, at, stage, taken>>
    BY <1>3 DEF NestedReturns, TimeoutAbandons
  <2>2. Running' = Running /\ \A e \in Execs : pc'[e] = "idle" <=> pc[e] = "idle"
    BY <1>3 DEF NestedReturns, TimeoutAbandons, Running, Active, TypeOK
  <2>. QED BY <2>1, <2>2, SameValues
<1>4. ASSUME NEW e \in Execs, NEW f \in Fields, Write(e, f)
      PROVE  Value!Next \/ UNCHANGED Value!vars
  <2>1. CASE f \in ExecCopies BY <1>4, <2>1, WriteChanges DEF Value!Next
  <2>2. CASE f \notin ExecCopies
    <3>1. UNCHANGED <<Sess, Priv, Snap, Home, Running, Captured>>
      BY <1>4, <2>2, WriteChanges
    <3>. QED BY <3>1 DEF Value!vars, Sess, Priv, Snap, Home, Captured
  <2>. QED BY <2>1, <2>2
<1>5. ASSUME NEW e \in Execs, Succeed(e) \/ Fail(e)
      PROVE  Value!Next
  BY <1>5, Ends DEF Value!Next
<1>6. ASSUME NEW i \in Shells, NEW s \in Snaps, Snapshot(i, s)
      PROVE  Value!Next
  BY <1>6, SnapshotCaptures DEF Value!Next
<1>7. ASSUME NEW i \in Shells, NEW s \in Snaps, NEW r \in Restores, Restore(i, s, r)
      PROVE  Value!Next
  BY <1>7, RestoreResets DEF Value!Next
<1>8. ASSUME NEW i \in Shells, NEW j \in Shells, Fork(i, j)
      PROVE  Value!Next
  BY <1>8, ForkCaptures DEF Value!Next, RootLive
<1>9. ASSUME NEW j \in Shells, ForkRestore(j)
      PROVE  Value!Next
  BY <1>9, ForkRestoreResets DEF Value!Next, RootLive
<1>10. ASSUME UNCHANGED vars PROVE UNCHANGED Value!vars
  BY <1>10, SameValues DEF vars, Running
<1>. QED
  BY <1>1, <1>2, <1>3, <1>4, <1>5, <1>6, <1>7, <1>8, <1>9, <1>10 DEF Next

(***************************************************************************)
(* The references to mutable objects implement values: nobody can tell     *)
(* the objects that exec(), the persist stage, snapshot(), restore() and   *)
(* fork() share or copy from private copies of the copied fields.          *)
(***************************************************************************)
THEOREM SessionsImplementValues == Spec => ImplementsValues
<1>1. Spec => [](TypeOK /\ Ownership /\ RootLive)
  BY TypeCorrect, OwnershipHolds, RootStaysLive, PTL DEF Spec
<1>. QED
  BY <1>1, InitValues, NextValues, PTL DEF Spec, ImplementsValues, Value!Spec

-----------------------------------------------------------------------------
(***************************************************************************)
(* No dirty reads.  What an exec copied or was passed is committed, its    *)
(* own or its callers'; only an exec without a caller may commit, so that  *)
(* its own writes are all that a commit adds to an instance.               *)
(***************************************************************************)
TopLevel == \A e \in Execs : pc[e] = "idle" \/ persist[e] => caller[e] = None

Clean ==
  /\ \A i \in Shells, f \in ExecCopies : Sess[i][f] \subseteq Committed
  /\ \A s \in Snaps \cup Shells, f \in ExecCopies : Snap[s][f] \subseteq Committed
  /\ \A e \in Execs, f \in ExecCopies : Priv[e][f] \subseteq Committed \cup Ancestry(e)

\* An exec that nobody called is its only ancestor.
LEMMA TopLevelAncestry ==
  ASSUME NEW e \in Execs, caller[e] = None
  PROVE  Ancestry(e) = {e}
<1>1. ASSUME NEW x \in Execs PROVE e \notin Below(x)
  <2>. DEFINE S == Execs \ {e}
  <2>1. \A y \in Execs : Children(y) \subseteq S
    BY SessionAssumption DEF Children
  <2>2. S \in SUBSET Execs /\ e \notin S OBVIOUS
  <2>. HIDE DEF S
  <2>. QED BY <2>1, <2>2 DEF Below
<1>. QED BY <1>1 DEF Ancestry

\* Whoever led to e still did when one more call is made.
LEMMA MoreCalls ==
  ASSUME \A x \in Execs : Children(x) \subseteq Children(x)'
  PROVE  \A e \in Execs : Ancestry(e) \subseteq Ancestry(e)'
<1>1. ASSUME NEW x \in Execs PROVE Below(x) \subseteq Below(x)'
  BY DEF Below
<1>. QED BY <1>1 DEF Ancestry

LEMMA CommittedStays ==
  ASSUME \A e \in Execs : pc[e] = "ok" => pc'[e] = "ok" /\ persist'[e] = persist[e]
  PROVE  Committed \subseteq Committed'
BY DEF Committed

LEMMA NextTopLevel ==
  ~DefaultPersistState /\ TypeOK /\ TopLevel /\ [Next]_vars => TopLevel'
<1>. SUFFICES ASSUME ~DefaultPersistState, TypeOK, TopLevel, [Next]_vars PROVE TopLevel'
  OBVIOUS
<1>. USE DEF TopLevel, TypeOK
<1>1. ASSUME NEW e \in Execs, NEW i \in Shells, NEW p \in BOOLEAN, Exec(e, i, p)
      PROVE  TopLevel'
  BY <1>1 DEF Exec
<1>2. ASSUME NEW c \in Execs, NEW p \in Execs,
             NEW env \in {"session", "merge", "replace"}, Nest(c, p, env)
      PROVE  TopLevel'
  BY <1>2 DEF Nest, Active
<1>3. ASSUME NEW e \in Execs,
             NestedReturns(e) \/ TimeoutAbandons(e) \/ Succeed(e) \/ Fail(e)
      PROVE  TopLevel'
  BY <1>3 DEF NestedReturns, TimeoutAbandons, Succeed, Fail
<1>4. ASSUME UNCHANGED <<pc, caller, persist>> PROVE TopLevel'
  BY <1>4
<1>5. (\E e \in Execs, f \in Fields : Write(e, f)) => TopLevel' BY <1>4 DEF Write
<1>6. (\E i \in Shells, s \in Snaps : Snapshot(i, s)) => TopLevel' BY <1>4 DEF Snapshot
<1>7. (\E i \in Shells, s \in Snaps, r \in Restores : Restore(i, s, r)) => TopLevel'
  BY <1>4 DEF Restore
<1>8. (\E i, j \in Shells : Fork(i, j)) => TopLevel' BY <1>4 DEF Fork
<1>9. (\E j \in Shells : ForkRestore(j)) => TopLevel' BY <1>4 DEF ForkRestore
<1>10. UNCHANGED vars => TopLevel' BY <1>4 DEF vars
<1>. QED BY <1>1, <1>2, <1>3, <1>5, <1>6, <1>7, <1>8, <1>9, <1>10 DEF Next

\* A step that adds nothing to what instances, snapshots and execs show.
LEMMA CleanStays ==
  ASSUME Clean, Committed \subseteq Committed', UNCHANGED caller,
         \A i \in Shells : Sess'[i] \in {Sess[k] : k \in Shells}
                                          \cup {Snap[s] : s \in Snaps \cup Shells},
         \A s \in Snaps \cup Shells :
           Snap'[s] \in {Sess[k] : k \in Shells} \cup {Snap[x] : x \in Snaps \cup Shells},
         \A e \in Execs, f \in ExecCopies :
           Priv'[e][f] \subseteq Priv[e][f] \cup {e} \cup Committed
  PROVE  Clean'
<1>1. \A e \in Execs : Ancestry(e)' = Ancestry(e) /\ e \in Ancestry(e)
  BY DEF Ancestry, Below, Children
<1>2. \A i \in Shells, f \in ExecCopies : Sess'[i][f] \subseteq Committed'
  BY DEF Clean
<1>3. \A s \in Snaps \cup Shells, f \in ExecCopies : Snap'[s][f] \subseteq Committed'
  BY DEF Clean
<1>4. \A e \in Execs, f \in ExecCopies : Priv'[e][f] \subseteq Committed' \cup Ancestry(e)'
  BY <1>1 DEF Clean
<1>. QED BY <1>2, <1>3, <1>4 DEF Clean

LEMMA NextClean ==
  TypeOK /\ Ownership /\ RootLive /\ TopLevel /\ Clean /\ [Next]_vars => Clean'
<1>. SUFFICES ASSUME TypeOK, Ownership, RootLive, TopLevel, Clean, [Next]_vars PROVE Clean'
  OBVIOUS
<1>1. ASSUME NEW e \in Execs, NEW i \in Shells, NEW p \in BOOLEAN, Exec(e, i, p)
      PROVE  Clean'
  <2>1. Sess' = Sess /\ Snap' = Snap /\ Priv' = [Priv EXCEPT ![e] = Sess[i]]
    BY <1>1, ExecBegins
  <2>2. Committed \subseteq Committed'
    <3>1. \A d \in Execs : pc[d] = "ok" => pc'[d] = "ok" /\ persist'[d] = persist[d]
      BY <1>1 DEF Exec, TypeOK
    <3>. QED BY <3>1, CommittedStays
  <2>3. ASSUME NEW d \in Execs, NEW f \in ExecCopies
        PROVE  Priv'[d][f] \subseteq Priv[d][f] \cup {d} \cup Committed
    <3>1. Priv'[d] = IF d = e THEN Sess[i] ELSE Priv[d] BY <2>1 DEF Priv
    <3>. QED BY <3>1 DEF Clean
  <2>4. caller' = caller BY <1>1 DEF Exec
  <2>. HIDE DEF Sess, Snap, Priv
  <2>. QED BY <2>1, <2>2, <2>3, <2>4, CleanStays
<1>2. ASSUME NEW c \in Execs, NEW p \in Execs,
             NEW env \in {"session", "merge", "replace"}, Nest(c, p, env)
      PROVE  Clean'
  <2>. DEFINE i == at[p]
  <2>1. /\ Sess' = Sess /\ Snap' = Snap
        /\ \E v \in {Sess[i]["env"], Priv[p]["env"], Sess[i]["env"] \cup Priv[p]["env"]} :
             Priv' = [Priv EXCEPT ![c] = [Sess[i] EXCEPT !["env"] = v,
                                                         !["cwd"] = Priv[p]["cwd"]]]
    BY <1>2, NestBegins
  <2>2. i \in Shells BY DEF TypeOK
  <2>3. Committed \subseteq Committed'
    <3>1. \A d \in Execs : pc[d] = "ok" => pc'[d] = "ok" /\ persist'[d] = persist[d]
      BY <1>2 DEF Nest, Active, TypeOK
    <3>. QED BY <3>1, CommittedStays
  <2>4. \A x \in Execs : Children(x) \subseteq Children(x)'
    BY <1>2, SessionAssumption DEF Nest, Children, TopLevel, TypeOK
  <2>5. c \in Children(p)' /\ c # p BY <1>2 DEF Nest, Children, TypeOK, Active
  <2>6. \A d \in Execs : Ancestry(d) \subseteq Ancestry(d)' BY <2>4, MoreCalls
  <2>7. Ancestry(p)' \subseteq Ancestry(c)'
    <3>1. c \in Below(p)' BY <2>5 DEF Below
    <3>2. ASSUME NEW x \in Execs, p \in Below(x)' PROVE c \in Below(x)'
      BY <2>5, <3>2 DEF Below
    <3>. QED BY <3>1, <3>2 DEF Ancestry
  <2>8. ASSUME NEW d \in Execs, NEW f \in ExecCopies
        PROVE  Priv'[d][f] \subseteq Committed' \cup Ancestry(d)'
    <3>1. CASE d = c
      <4>1. PICK v \in {Sess[i]["env"], Priv[p]["env"],
                        Sess[i]["env"] \cup Priv[p]["env"]} :
              Priv' = [Priv EXCEPT ![c] = [Sess[i] EXCEPT !["env"] = v,
                                                              !["cwd"] = Priv[p]["cwd"]]]
        BY <2>1
      <4>2. Sess[i] = [g \in ExecCopies |-> Sess[i][g]] BY <2>2 DEF Sess
      <4>3. DOMAIN Priv = Execs BY DEF Priv
      <4>4. Priv'[c][f] = CASE f = "cwd" -> Priv[p]["cwd"]
                            [] f = "env" -> v
                            [] OTHER     -> Sess[i][f]
        <5>. HIDE DEF Priv, i
        <5>1. Priv'[c] = [Sess[i] EXCEPT !["env"] = v, !["cwd"] = Priv[p]["cwd"]]
          BY <4>1, <4>3
        <5>. QED BY <5>1, <4>2
      <4>5. Sess[i][f] \subseteq Committed /\ Priv[p][f] \subseteq Committed \cup Ancestry(p)
        BY <2>2 DEF Clean
      <4>6. Priv'[c][f] \subseteq Committed \cup Ancestry(p)
        <5>. HIDE DEF Priv
        <5>1. CASE f = "cwd" BY <5>1, <4>4, <4>5
        <5>2. CASE f = "env" BY <5>2, <4>4, <4>5, <4>1
        <5>3. CASE f # "cwd" /\ f # "env" BY <5>3, <4>4, <4>5
        <5>. QED BY <5>1, <5>2, <5>3
      <4>. QED BY <3>1, <4>6, <2>3, <2>6, <2>7
    <3>2. CASE d # c
      <4>1. Priv'[d] = Priv[d] BY <2>1, <3>2 DEF Priv
      <4>. QED BY <4>1, <2>3, <2>6 DEF Clean
    <3>. QED BY <3>1, <3>2
  <2>9. \A k \in Shells, f \in ExecCopies : Sess'[k][f] \subseteq Committed'
    BY <2>1, <2>3 DEF Clean
  <2>10. \A s \in Snaps \cup Shells, f \in ExecCopies : Snap'[s][f] \subseteq Committed'
    BY <2>1, <2>3 DEF Clean
  <2>. QED BY <2>8, <2>9, <2>10 DEF Clean
<1>3. ASSUME NEW p \in Execs, NestedReturns(p) \/ TimeoutAbandons(p)
      PROVE  Clean'
  <2>1. UNCHANGED <<cell, session, view, caller>> /\ Running' = Running
    BY <1>3 DEF NestedReturns, TimeoutAbandons, Running, Active, TypeOK
  <2>2. Committed' = Committed
    BY <1>3 DEF NestedReturns, TimeoutAbandons, Committed, TypeOK
  <2>3. Sess' = Sess /\ Priv' = Priv /\ Snap' = Snap
    BY <2>1 DEF Sess, Priv, Snap
  <2>. QED BY <2>1, <2>2, <2>3, CleanStays
<1>4. ASSUME NEW e \in Execs, NEW f \in Fields, Write(e, f)
      PROVE  Clean'
  <2>1. Sess' = Sess /\ Snap' = Snap
    BY <1>4, WriteChanges DEF Value!Change, Sess, Snap
  <2>2. ASSUME NEW d \in Execs, NEW g \in ExecCopies
        PROVE  Priv'[d][g] \subseteq Priv[d][g] \cup {d} \cup Committed
    <3>1. CASE f \in ExecCopies
      <4>1. \E v \in {{e}, Priv[e][f] \cup {e}} : Priv' = [Priv EXCEPT ![e][f] = v]
        BY <1>4, <3>1, WriteChanges DEF Value!Change, Priv
      <4>2. PICK v \in {{e}, Priv[e][f] \cup {e}} : Priv' = [Priv EXCEPT ![e][f] = v]
        BY <4>1
      <4>0. DOMAIN Priv = Execs /\ DOMAIN Priv[e] = ExecCopies BY DEF Priv
      <4>3. Priv'[d][g] = IF d = e /\ g = f THEN v ELSE Priv[d][g]
        <5>1. Priv'[d] = IF d = e THEN [Priv[e] EXCEPT ![f] = v] ELSE Priv[d]
          BY <4>0, <4>2
        <5>. HIDE DEF Priv
        <5>. QED BY <4>0, <5>1
      <4>. QED BY <4>2, <4>3
    <3>2. CASE f \notin ExecCopies BY <1>4, <3>2, WriteChanges
    <3>. QED BY <3>1, <3>2
  <2>3. UNCHANGED caller /\ Committed' = Committed BY <1>4 DEF Write, Committed
  <2>. QED BY <2>1, <2>2, <2>3, CleanStays
<1>5. ASSUME NEW e \in Execs, Succeed(e) \/ Fail(e)
      PROVE  Clean'
  <2>1. /\ Snap' = Snap
        /\ Priv' = [Priv EXCEPT ![e] = Value!Blank]
        /\ Sess' = IF Succeed(e) /\ persist[e] THEN [Sess EXCEPT ![at[e]] = Priv[e]] ELSE Sess
    BY <1>5, Ends DEF Value!End, Snap, Priv
  <2>2. Committed \subseteq Committed' /\ UNCHANGED caller
    <3>1. \A d \in Execs : pc[d] = "ok" => pc'[d] = "ok" /\ persist'[d] = persist[d]
      BY <1>5 DEF Succeed, Fail, TypeOK
    <3>. QED BY <1>5, <3>1, CommittedStays DEF Succeed, Fail
  <2>3. ASSUME NEW d \in Execs, NEW f \in ExecCopies
        PROVE  Priv'[d][f] \subseteq Priv[d][f]
    <3>1. Priv'[d] = IF d = e THEN Value!Blank ELSE Priv[d] BY <2>1 DEF Priv
    <3>. QED BY <3>1 DEF Value!Blank
  <2>4. CASE Succeed(e) /\ persist[e]
    <3>1. e \in Committed' BY <2>4 DEF Succeed, Committed, TypeOK
    <3>2. Ancestry(e) = {e} BY <2>4, TopLevelAncestry DEF TopLevel
    <3>3. \A f \in ExecCopies : Priv[e][f] \subseteq Committed'
      BY <3>1, <3>2, <2>2 DEF Clean
    <3>4. ASSUME NEW k \in Shells, NEW f \in ExecCopies
          PROVE  Sess'[k][f] \subseteq Committed'
      <4>1. Sess'[k] = IF k = at[e] THEN Priv[e] ELSE Sess[k] BY <2>1, <2>4 DEF Sess
      <4>. QED BY <4>1, <3>3, <2>2 DEF Clean
    <3>5. \A d \in Execs : Ancestry(d)' = Ancestry(d)
      BY <2>2 DEF Ancestry, Below, Children
    <3>6. \A d \in Execs, f \in ExecCopies : Priv'[d][f] \subseteq Committed' \cup Ancestry(d)'
      BY <2>2, <2>3, <3>5 DEF Clean
    <3>7. \A s \in Snaps \cup Shells, f \in ExecCopies : Snap'[s][f] \subseteq Committed'
      BY <2>1, <2>2 DEF Clean
    <3>. QED BY <3>4, <3>6, <3>7 DEF Clean
  <2>5. CASE ~(Succeed(e) /\ persist[e])
    <3>1. Sess' = Sess BY <2>1, <2>5
    <3>2. \A d \in Execs, f \in ExecCopies :
            Priv'[d][f] \subseteq Priv[d][f] \cup {d} \cup Committed
      BY <2>3
    <3>. QED BY <2>1, <2>2, <3>1, <3>2, CleanStays
  <2>. QED BY <2>4, <2>5
<1>6. ASSUME UNCHANGED <<pc, persist, caller>>, Priv' = Priv,
             \/ \E x \in Snaps \cup Shells, i \in Shells :
                  Sess' = Sess /\ Snap' = [Snap EXCEPT ![x] = Sess[i]]
             \/ \E x \in Snaps \cup Shells, i \in Shells :
                  Snap' = Snap /\ Sess' = [Sess EXCEPT ![i] = Snap[x]]
      PROVE  Clean'
  <2>1. Committed' = Committed BY <1>6 DEF Committed
  <2>2. \A i \in Shells : Sess'[i] \in {Sess[k] : k \in Shells}
                                         \cup {Snap[s] : s \in Snaps \cup Shells}
    BY <1>6 DEF Sess
  <2>3. \A s \in Snaps \cup Shells :
          Snap'[s] \in {Sess[k] : k \in Shells} \cup {Snap[x] : x \in Snaps \cup Shells}
    BY <1>6 DEF Snap
  <2>. QED BY <1>6, <2>1, <2>2, <2>3, CleanStays
<1>7. ASSUME NEW i \in Shells, NEW s \in Snaps, Snapshot(i, s)
      PROVE  Clean'
  <2>1. Sess' = Sess /\ Priv' = Priv /\ Snap' = [Snap EXCEPT ![s] = Sess[i]]
    BY <1>7, SnapshotCaptures DEF Value!Capture, Sess, Priv, Snap
  <2>. QED BY <1>6, <1>7, <2>1 DEF Snapshot
<1>8. ASSUME NEW i \in Shells, NEW j \in Shells, Fork(i, j)
      PROVE  Clean'
  <2>1. Sess' = Sess /\ Priv' = Priv /\ Snap' = [Snap EXCEPT ![j] = Sess[i]]
    BY <1>8, ForkCaptures DEF RootLive, Value!Capture, Sess, Priv, Snap
  <2>. QED BY <1>6, <1>8, <2>1 DEF Fork
<1>9. ASSUME NEW i \in Shells, NEW s \in Snaps, NEW r \in Restores, Restore(i, s, r)
      PROVE  Clean'
  <2>1. Sess' = [Sess EXCEPT ![i] = Snap[s]] /\ Priv' = Priv /\ Snap' = Snap
    BY <1>9, RestoreResets DEF Value!Reset, Sess, Priv, Snap
  <2>. QED BY <1>6, <1>9, <2>1 DEF Restore
<1>10. ASSUME NEW j \in Shells, ForkRestore(j)
       PROVE  Clean'
  <2>1. Sess' = [Sess EXCEPT ![j] = Snap[j]] /\ Priv' = Priv /\ Snap' = Snap
    BY <1>10, ForkRestoreResets DEF RootLive, Value!Reset, Sess, Priv, Snap
  <2>. QED BY <1>6, <1>10, <2>1 DEF ForkRestore
<1>11. ASSUME UNCHANGED vars PROVE Clean'
  <2>1. Sess' = Sess /\ Snap' = Snap /\ Priv' = Priv
    BY <1>11 DEF vars, Sess, Snap, Priv, Running
  <2>2. Committed' = Committed /\ UNCHANGED caller BY <1>11 DEF vars, Committed
  <2>. QED BY <2>1, <2>2, CleanStays
<1>. QED
  BY <1>1, <1>2, <1>3, <1>4, <1>5, <1>7, <1>8, <1>9, <1>10, <1>11 DEF Next

LEMMA InitClean == Init => TopLevel /\ Clean
<1>. SUFFICES ASSUME Init PROVE TopLevel /\ Clean
  OBVIOUS
<1>1. TopLevel BY DEF Init, TopLevel
<1>2. /\ Sess = [i \in Shells |-> Value!Blank]
      /\ Priv = [e \in Execs |-> Value!Blank]
      /\ Snap = [x \in Snaps \cup Shells |-> Value!Blank]
  BY InitValues DEF Value!Init, Value!Blank, Sess, Priv, Snap
<1>. HIDE DEF Sess, Priv, Snap
<1>3. Clean BY <1>2 DEF Clean, Value!Blank
<1>. QED BY <1>1, <1>3

LEMMA CleanMeansNoDirtyRead == TypeOK /\ Clean => NoDirtyRead
<1>. SUFFICES ASSUME TypeOK, Clean PROVE NoDirtyRead
  OBVIOUS
<1>1. ASSUME NEW e \in Running, NEW f \in ExecCopies
      PROVE  cell[view[e][f]] \subseteq Committed \cup Ancestry(e)
  <2>1. e \in Execs /\ Priv[e][f] = cell[view[e][f]] BY DEF Priv, Running
  <2>. QED BY <2>1 DEF Clean
<1>2. ASSUME NEW i \in Live, NEW f \in ExecCopies
      PROVE  cell[session[i][f]] \subseteq Committed
  <2>1. i \in Shells /\ Sess[i][f] = cell[session[i][f]] BY DEF Sess, Live
  <2>. QED BY <2>1 DEF Clean
<1>. QED BY <1>1, <1>2 DEF NoDirtyRead

(***************************************************************************)
(* When nested execs do not persist (the default of persistState), no exec *)
(* reads a write that is not committed, its own or that of a caller.       *)
(***************************************************************************)
THEOREM NoDirtyReads == ~DefaultPersistState /\ Spec => []NoDirtyRead
<1>1. Spec => [](TypeOK /\ Ownership /\ RootLive)
  BY TypeCorrect, OwnershipHolds, RootStaysLive, PTL DEF Spec
<1>2. ASSUME ~DefaultPersistState PROVE Spec => []NoDirtyRead
  BY <1>1, <1>2, InitClean, NextTopLevel, NextClean, CleanMeansNoDirtyRead, PTL DEF Spec
<1>. QED BY <1>2

=============================================================================
