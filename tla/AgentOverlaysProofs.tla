------------------------- MODULE AgentOverlaysProofs -------------------------
(***************************************************************************)
(* Theorems about AgentOverlays: for any number of agents, operations and  *)
(* paths, what an agent has modified is decided in its overlay, the merge  *)
(* can find it, the parent shows through none of it, and a merge publishes *)
(* or reports all of it.                                                   *)
(***************************************************************************)
EXTENDS AgentOverlays, FiniteSetTheorems, TLAPS

LayersTyped ==
  /\ local \in [Agents -> [Paths -> Entries]]
  /\ deleted \in [Agents -> SUBSET Paths]
  /\ modified \in [Agents -> SUBSET Paths]

\* The three collections of an overlay agree, ...
Agree(layer, buried, changed) ==
  Shadows(layer, buried, changed) /\ Tracks(layer, buried, changed)

\* ... which is what every operation needs and keeps.
LayersInv ==
  LayersTyped /\ \A a \in Agents : Agree(local[a], deleted[a], modified[a])

SavedInv ==
  /\ saved \in [Agents -> Layers]
  /\ \A a \in Agents : Agree(saved[a].local, saved[a].deleted, saved[a].modified)

OpInv ==
  op \in [Ops -> OpStates] /\ \A o \in Ops : OpTyped(op[o])

MergeInv ==
  /\ merge \in [Agents -> Merges]
  /\ \A a \in Agents : merge[a].stage = "write" =>
                        merge[a].at \in Paths /\ merge[a].got.kind = "file"

WorldInv ==
  /\ parent \in [Paths -> Entries]
  /\ agent \in [Agents -> {"new", "running", "completed"}]
  /\ steady \in [Agents -> BOOLEAN]
  /\ before \in [Agents -> [Paths -> Entries]]
  /\ alone \in [Agents -> BOOLEAN]

\* The inductive invariant is the conjunction of the invariants, regrouped by
\* the variables a step changes.
IInv == LayersInv /\ SavedInv /\ OpInv /\ MergeInv /\ WorldInv

LEMMA Regrouped == IInv <=> TypeOK /\ ModifiedShadowed /\ ChangesTracked
BY DEF IInv, LayersInv, LayersTyped, SavedInv, Agree, OpInv, MergeInv, WorldInv,
       TypeOK, ModifiedShadowed, ChangesTracked

-----------------------------------------------------------------------------
(* Entries and views are what they should be.                              *)
LEMMA EntryKinds ==
  /\ Absent \in Entries /\ Dir \in Entries /\ Symlink \in Entries
  /\ \A d \in SUBSET Data : File(d) \in Entries /\ File(d) # Absent /\ File(d).kind = "file"
  /\ Dir # Absent /\ Symlink # Absent
  /\ Absent.kind = "absent" /\ Dir.kind = "dir" /\ Symlink.kind = "symlink"
  /\ \A e \in Entries : e.data \in SUBSET Data
  /\ \A o \in Ops \cup InitialFiles : o \in Data
  /\ \A e \in Entries : e.kind = "file" => e # Absent
BY DEF Entries, Absent, Dir, Symlink, File, Data

LEMMA RecodedTyped ==
  ASSUME NEW e \in Entries
  PROVE  Recoded(e) \in Entries /\ Recoded(e).kind = "file"
<1>1. \A x \in e.data : x \in Data
  BY EntryKinds
<1>2. Replaced \in Data
  BY DEF Data
<1>3. {IF x \in Binary THEN Replaced ELSE x : x \in e.data} \in SUBSET Data
  BY <1>1, <1>2
<1> QED BY <1>3, EntryKinds DEF Recoded

\* Contents that are text pass unchanged.
LEMMA TextUnchanged ==
  ASSUME NEW e \in Entries, e.kind = "file", e.data \cap Binary = {}
  PROVE  Recoded(e) = e
<1>1. {IF x \in Binary THEN Replaced ELSE x : x \in e.data} = e.data
  OBVIOUS
<1> QED BY <1>1 DEF Recoded, File, Entries

LEMMA ViewTyped ==
  ASSUME LayersTyped, WorldInv, NEW a \in Agents, NEW p \in Paths
  PROVE  View(a, p) \in Entries
BY EntryKinds DEF LayersTyped, WorldInv, View

-----------------------------------------------------------------------------
(* The ways in which an operation changes the layers keep them in agreement. *)
LEMMA PutKeeps ==
  ASSUME LayersInv, NEW a \in Agents, NEW p \in Paths,
         NEW e \in Entries, e # Absent, Put(a, p, e)
  PROVE  LayersInv'
<1> USE OverlayAssumption
<1> DEFINE W == WithParents(local[a], p)
<1>1. W \in [Paths -> Entries]
  BY EntryKinds DEF LayersInv, LayersTyped, WithParents
<1>2. LayersTyped'
  BY <1>1 DEF LayersInv, LayersTyped, Put
<1>3. ASSUME NEW b \in Agents, b # a
      PROVE  local'[b] = local[b] /\ deleted'[b] = deleted[b] /\ modified'[b] = modified[b]
  BY <1>3 DEF LayersInv, LayersTyped, Put
<1>4. /\ local'[a] = [W EXCEPT ![p] = e]
      /\ deleted'[a] = deleted[a] \ (Above[p] \cup {p})
      /\ modified'[a] = modified[a] \cup {p}
  BY DEF LayersInv, LayersTyped, Put
<1>5. Shadows(local'[a], deleted'[a], modified'[a])
  <2> SUFFICES ASSUME NEW q \in modified'[a], q \notin deleted'[a]
               PROVE  local'[a][q] # Absent
    BY DEF Shadows
  <2>0. q \in Paths
    BY <1>2 DEF LayersTyped
  <2>1. CASE q = p
    BY <2>1, <1>1, <1>4
  <2>2. CASE q # p /\ q \in Above[p]
    BY <2>0, <2>2, <1>1, <1>4, EntryKinds DEF WithParents
  <2>3. CASE q # p /\ q \notin Above[p]
    BY <2>0, <2>3, <1>1, <1>4 DEF WithParents, LayersInv, Agree, Shadows
  <2> QED BY <2>1, <2>2, <2>3
<1>6. Tracks(local'[a], deleted'[a], modified'[a])
  <2> SUFFICES ASSUME NEW q \in Paths,
                      q \in deleted'[a] \/ local'[a][q].kind \in {"file", "symlink"}
               PROVE  q \in modified'[a]
    BY DEF Tracks
  <2>1. CASE q = p
    BY <2>1, <1>4
  <2>2. CASE q # p
    <3>1. local'[a][q] = local[a][q] \/ local'[a][q] = Dir
      BY <2>2, <1>1, <1>4 DEF WithParents
    <3> QED BY <3>1, <1>4, EntryKinds DEF LayersInv, Agree, Tracks
  <2> QED BY <2>1, <2>2
<1> QED BY <1>2, <1>3, <1>5, <1>6 DEF LayersInv, Agree, Shadows, Tracks

LEMMA PutBareKeeps ==
  ASSUME LayersInv, NEW a \in Agents, NEW p \in Paths,
         NEW e \in Entries, e # Absent,
         PutBare(a, p, e) \/ PutCopy(a, p, e)
  PROVE  LayersInv'
<1>2. LayersTyped'
  <2>1. CASE PutBare(a, p, e)
    BY <2>1 DEF LayersInv, LayersTyped, PutBare
  <2>2. CASE PutCopy(a, p, e)
    BY <2>2 DEF LayersInv, LayersTyped, PutCopy
  <2> QED BY <2>1, <2>2
<1>3. ASSUME NEW b \in Agents, b # a
      PROVE  local'[b] = local[b] /\ deleted'[b] = deleted[b] /\ modified'[b] = modified[b]
  BY <1>3 DEF LayersInv, LayersTyped, PutBare, PutCopy
<1>4. /\ local'[a] = [local[a] EXCEPT ![p] = e]
      /\ deleted'[a] \in {deleted[a], deleted[a] \ {p}}
      /\ modified'[a] = modified[a] \cup {p}
  <2>1. CASE PutBare(a, p, e)
    BY <2>1 DEF LayersInv, LayersTyped, PutBare
  <2>2. CASE PutCopy(a, p, e)
    BY <2>2 DEF LayersInv, LayersTyped, PutCopy
  <2> QED BY <2>1, <2>2
<1>5. Agree(local'[a], deleted'[a], modified'[a])
  BY <1>4 DEF LayersInv, LayersTyped, Agree, Shadows, Tracks
<1> QED BY <1>2, <1>3, <1>5 DEF LayersInv, Agree, Shadows, Tracks

LEMMA BuryKeeps ==
  ASSUME LayersInv, NEW a \in Agents, NEW p \in Paths, Bury(a, p)
  PROVE  LayersInv'
<1>2. LayersTyped'
  BY EntryKinds DEF LayersInv, LayersTyped, Bury
<1>3. ASSUME NEW b \in Agents, b # a
      PROVE  local'[b] = local[b] /\ deleted'[b] = deleted[b] /\ modified'[b] = modified[b]
  BY <1>3 DEF LayersInv, LayersTyped, Bury
<1>4. /\ local'[a] = [local[a] EXCEPT ![p] = Absent]
      /\ deleted'[a] = deleted[a] \cup {p}
      /\ modified'[a] = modified[a] \cup {p}
  BY DEF LayersInv, LayersTyped, Bury
<1>5. Agree(local'[a], deleted'[a], modified'[a])
  BY <1>4, EntryKinds DEF LayersInv, LayersTyped, Agree, Shadows, Tracks
<1> QED BY <1>2, <1>3, <1>5 DEF LayersInv, Agree, Shadows, Tracks

LEMMA TouchKeeps ==
  ASSUME LayersInv, NEW a \in Agents, NEW p \in Paths,
         p \in deleted[a] \/ local[a][p] # Absent, Touch(a, p)
  PROVE  LayersInv'
BY DEF LayersInv, LayersTyped, Agree, Shadows, Tracks, Touch

LEMMA StillKeeps ==
  ASSUME LayersInv, UNCHANGED layers PROVE LayersInv'
BY DEF LayersInv, LayersTyped, Agree, Shadows, Tracks, layers

-----------------------------------------------------------------------------
(* Operations keep their records typed.                                    *)
LEMMA OpSet ==
  ASSUME OpInv, NEW o \in Ops, NEW r \in OpStates, OpTyped(r),
         op' = [op EXCEPT ![o] = r]
  PROVE  OpInv'
BY DEF OpInv, OpTyped

LEMMA Constants ==
  /\ Empty \in [Paths -> Entries] /\ NoLeft \in [Paths -> SUBSET Paths]
  /\ NewOp \in OpStates /\ OpTyped(NewOp)
  /\ Done \in OpStates /\ OpTyped(Done)
  /\ Done.stage = "done" /\ NewOp.left = NoLeft
  /\ NoMerge \in Merges /\ NoMerge.stage = "none"
  /\ NoSnapshot \in Layers
<1>1. Empty \in [Paths -> Entries] /\ NoLeft \in [Paths -> SUBSET Paths]
  BY EntryKinds DEF Empty, NoLeft
<1>2. NewOp \in OpStates /\ Done \in OpStates /\ NewOp.left = NoLeft
  BY <1>1, EntryKinds DEF NewOp, Done, OpStates, Stages
<1>3. OpTyped(NewOp) /\ OpTyped(Done) /\ Done.stage = "done"
  BY DEF NewOp, Done, OpTyped
<1> QED BY <1>1, <1>2, <1>3, EntryKinds DEF NoMerge, NoSnapshot, Merges, Layers

LEMMA FinishKeeps ==
  ASSUME OpInv, NEW o \in Ops, Finish(o) PROVE OpInv'
BY OpSet, Constants DEF Finish

LEMMA OnlyKeeps ==
  ASSUME OpInv, NEW o \in Ops, NEW a, NEW kind, Only(o, a, kind) PROVE OpInv'
BY OpSet, Constants DEF Only

LEMMA BeginsKeeps ==
  ASSUME OpInv, NEW o \in Ops, NEW a \in Agents, NEW kind, NEW p \in Paths,
         NEW q \in Paths \cup {NoPath}, NEW s \in Stages, NEW e \in Entries,
         kind \in {"link", "cp", "mv"} \/ s = "present" => q \in Paths,
         s \notin {"listing", "children"},
         s = "copied" \/ (kind = "link" /\ s \in {"read", "free", "known"}) => e # Absent,
         Begins(o, a, kind, p, q, s, e)
  PROVE  OpInv'
<1> DEFINE r == [NewOp EXCEPT !.stage = s, !.kind = kind, !.agent = a,
                              !.path = p, !.at = q, !.saw = e]
<1>1. op' = [op EXCEPT ![o] = r] /\ kind \in Kinds
  BY DEF Begins, Starts
<1>2. r \in OpStates
  BY <1>1, Constants DEF OpStates, NewOp
<1>3. OpTyped(r)
  BY DEF OpTyped, NewOp
<1> QED BY <1>1, <1>2, <1>3, OpSet

\* A step that stays within its operation changes its stage, what it saw and
\* where its rm is.
LEMMA GoesOnTo ==
  ASSUME OpInv, NEW o \in Ops, op[o].stage \notin {"new", "done"},
         NEW s \in Stages, NEW e \in Entries, NEW q \in Paths \cup {NoPath},
         NEW l \in [Paths -> SUBSET Paths],
         op[o].kind \in {"link", "cp", "mv"} \/ s \in {"present", "listing", "children"}
           => q \in Paths,
         s = "copied" \/ (op[o].kind = "link" /\ s \in {"read", "free", "known"})
           => e # Absent,
         NEW r, r = [op[o] EXCEPT !.stage = s, !.saw = e, !.at = q, !.left = l],
         op' = [op EXCEPT ![o] = r]
  PROVE  OpInv'
<1>1. op[o] \in OpStates /\ OpTyped(op[o])
  BY DEF OpInv
<1>2. r \in OpStates
  BY <1>1 DEF OpStates
<1>3. OpTyped(r)
  BY <1>1 DEF OpStates, OpTyped
<1> QED BY <1>2, <1>3, OpSet

LEMMA GoesOn ==
  ASSUME OpInv, NEW o \in Ops, op[o].stage \notin {"new", "done"},
         NEW s \in Stages, NEW e \in Entries, NEW q \in Paths \cup {NoPath},
         NEW l \in [Paths -> SUBSET Paths],
         op[o].kind \in {"link", "cp", "mv"} \/ s \in {"present", "listing", "children"}
           => q \in Paths,
         s = "copied" \/ (op[o].kind = "link" /\ s \in {"read", "free", "known"})
           => e # Absent,
         op' = [op EXCEPT ![o] = [@ EXCEPT !.stage = s, !.saw = e, !.at = q, !.left = l]]
  PROVE  OpInv'
<1> DEFINE r == [op[o] EXCEPT !.stage = s, !.saw = e, !.at = q, !.left = l]
<1>1. op[o] \in OpStates /\ OpTyped(op[o])
  BY DEF OpInv
<1>2. r \in OpStates
  BY <1>1 DEF OpStates
<1>3. OpTyped(r)
  BY <1>1 DEF OpStates, OpTyped
<1>4. op' = [op EXCEPT ![o] = r]
  BY DEF OpInv
<1> HIDE DEF r
<1> QED BY <1>2, <1>3, <1>4, OpSet

LEMMA ToKeeps ==
  ASSUME OpInv, NEW o \in Ops, op[o].stage \notin {"new", "done"},
         NEW s \in Stages \ {"present", "listing", "children"}, NEW e \in Entries,
         s = "copied" \/ (op[o].kind = "link" /\ s \in {"read", "free", "known"})
           => e # Absent,
         To(o, s, e)
  PROVE  OpInv'
<1>1. op[o] \in OpStates /\ OpTyped(op[o])
  BY DEF OpInv
<1> DEFINE r == [op[o] EXCEPT !.stage = s, !.saw = e]
           q == op[o].at
           l == op[o].left
<1>2. op' = [op EXCEPT ![o] = r]
  BY DEF To, OpInv
<1>3. r = [op[o] EXCEPT !.stage = s, !.saw = e, !.at = q, !.left = l]
  BY <1>1 DEF OpStates
<1>4. /\ q \in Paths \cup {NoPath} /\ l \in [Paths -> SUBSET Paths]
      /\ op[o].kind \in {"link", "cp", "mv"} => q \in Paths
  BY <1>1 DEF OpStates, OpTyped
<1>5. op[o].kind \in {"link", "cp", "mv"} \/ s \in {"present", "listing", "children"}
        => q \in Paths
  BY <1>4
<1> HIDE DEF r, q, l
<1> QED BY <1>2, <1>3, <1>4, <1>5, GoesOnTo

LEMMA LoopsKeeps ==
  ASSUME OpInv, NEW o \in Ops, op[o].stage \in {"present", "listing", "children"},
         op[o].kind \in Removals,
         NEW s \in {"present", "listing", "children"}, NEW p \in Paths,
         NEW names \in SUBSET Paths, Loops(o, s, p, names)
  PROVE  OpInv'
<1>1. op[o] \in OpStates /\ OpTyped(op[o])
  BY DEF OpInv
<1> DEFINE l == [op[o].left EXCEPT ![p] = names]
<1>2. l \in [Paths -> SUBSET Paths] /\ op[o].at \in Paths /\ op[o].saw \in Entries
  BY <1>1 DEF OpStates, OpTyped
<1> DEFINE e == op[o].saw
           q == op[o].at
           r == [op[o] EXCEPT !.stage = s, !.saw = e, !.at = q, !.left = l]
<1>3. op' = [op EXCEPT ![o] = r]
  BY <1>1 DEF Loops, OpInv, OpStates
<1>4. /\ op[o].stage \notin {"new", "done"} /\ s \in Stages
      /\ ~(s = "copied" \/ (op[o].kind = "link" /\ s \in {"read", "free", "known"}))
  BY DEF Stages
<1>5. /\ q \in Paths \cup {NoPath} /\ e \in Entries
      /\ op[o].kind \in {"link", "cp", "mv"} \/ s \in {"present", "listing", "children"}
           => q \in Paths
      /\ r = [op[o] EXCEPT !.stage = s, !.saw = e, !.at = q, !.left = l]
  BY <1>2
<1> HIDE DEF l, e, q, r
<1> QED BY <1>2, <1>3, <1>4, <1>5, GoesOnTo

-----------------------------------------------------------------------------
(* The steps.                                                              *)
LEMMA FrameKeeps ==
  ASSUME IInv, Frame, NEW a, Alone(a)
  PROVE  SavedInv' /\ MergeInv' /\ WorldInv'
BY DEF IInv, Frame, Alone, SavedInv, MergeInv, WorldInv, Agree, Shadows, Tracks

LEMMA Begun ==
  ASSUME IInv, NEW o \in Ops, NEW a \in Agents, NEW p \in Paths,
         \/ Write(o, a, p) \/ Append(o, a, p) \/ SymlinkBegin(o, a, p)
         \/ \E kind \in {"mkdir", "mkdirp"} : Mkdir(o, a, p, kind)
         \/ \E kind \in {"chmod", "utimes"} : Chmod(o, a, p, kind)
         \/ \E kind \in {"rm", "rmr", "rmrf"} : Rm(o, a, p, kind)
         \/ \E d \in Paths : \/ Link(o, a, p, d)
                            \/ \E kind \in {"cp", "mv"} : Cp(o, a, p, d, kind)
  PROVE  IInv'
<1>0. LayersInv /\ OpInv /\ WorldInv /\ LayersTyped
  BY DEF IInv, LayersInv
<1>1. View(a, p) \in Entries /\ parent[p] \in Entries
  BY <1>0, ViewTyped DEF WorldInv
<1>2. /\ NoPath \in Paths \cup {NoPath} /\ p \in Paths \cup {NoPath}
      /\ \A s \in {"append", "mkdir", "present", "stat", "copied", "vacant", "read", "free"} :
           s \in Stages /\ s \notin {"listing", "children"}
  BY DEF Stages
<1>f. Frame /\ Alone(a)
  BY DEF Write, Append, SymlinkBegin, Mkdir, Chmod, Rm, Link, Cp, Only, Begins, Starts
<1>3. CASE Write(o, a, p)
  <2>1. File({o}) \in Entries /\ File({o}) # Absent
    BY EntryKinds
  <2> QED BY <1>3, <2>1, <1>0, OnlyKeeps, PutKeeps, <1>f, FrameKeeps DEF Write, IInv
<1>4. CASE Append(o, a, p)
  <2> DEFINE e == File(IF Readable(a, p) THEN View(a, p).data ELSE {})
  <2>1. e \in Entries
    BY <1>1, EntryKinds
  <2>2. Begins(o, a, "append", p, NoPath, "append", e) /\ UNCHANGED layers
    BY <1>4 DEF Append
  <2> HIDE DEF e
  <2>3. OpInv'
    BY <2>1, <2>2, <1>0, <1>2, BeginsKeeps
  <2> QED BY <2>2, <2>3, <1>0, StillKeeps, <1>f, FrameKeeps DEF IInv
<1>5. CASE SymlinkBegin(o, a, p)
  <2>1. UNCHANGED layers /\ OpInv'
    BY <1>5, <1>0, <1>2, EntryKinds, OnlyKeeps, BeginsKeeps DEF SymlinkBegin
  <2> QED BY <2>1, <1>0, StillKeeps, <1>f, FrameKeeps DEF IInv
<1>6. ASSUME NEW kind \in {"mkdir", "mkdirp"}, Mkdir(o, a, p, kind) PROVE IInv'
  <2>1. OpInv'
    BY <1>6, <1>0, <1>1, <1>2, OnlyKeeps, BeginsKeeps DEF Mkdir
  <2>2. LayersInv'
    BY <1>6, <1>0, PutKeeps, PutBareKeeps, StillKeeps, EntryKinds DEF Mkdir
  <2> QED BY <2>1, <2>2, <1>0, <1>f, FrameKeeps DEF IInv
<1>7. ASSUME NEW kind \in {"chmod", "utimes"}, Chmod(o, a, p, kind) PROVE IInv'
  <2>1. OpInv'
    BY <1>7, <1>0, <1>1, <1>2, OnlyKeeps, BeginsKeeps, EntryKinds DEF Chmod
  <2>2. LayersInv'
    BY <1>7, <1>0, TouchKeeps, StillKeeps DEF Chmod
  <2> QED BY <2>1, <2>2, <1>0, <1>f, FrameKeeps DEF IInv
<1>8. ASSUME NEW kind \in {"rm", "rmr", "rmrf"}, Rm(o, a, p, kind) PROVE IInv'
  <2>1. UNCHANGED layers /\ OpInv'
    BY <1>8, <1>0, <1>2, EntryKinds, OnlyKeeps, BeginsKeeps DEF Rm
  <2> QED BY <2>1, <1>0, StillKeeps, <1>f, FrameKeeps DEF IInv
<1>9. ASSUME NEW d \in Paths, Link(o, a, p, d) PROVE IInv'
  <2>1. UNCHANGED layers /\ OpInv'
    BY <1>9, <1>0, <1>1, <1>2, EntryKinds, OnlyKeeps, BeginsKeeps DEF Link, Readable
  <2> QED BY <2>1, <1>0, StillKeeps, <1>f, FrameKeeps DEF IInv
<1>10. ASSUME NEW d \in Paths, NEW kind \in {"cp", "mv"}, Cp(o, a, p, d, kind) PROVE IInv'
  <2>1. UNCHANGED layers /\ OpInv'
    BY <1>10, <1>0, <1>1, <1>2, EntryKinds, OnlyKeeps, BeginsKeeps DEF Cp
  <2> QED BY <2>1, <1>0, StillKeeps, <1>f, FrameKeeps DEF IInv
<1> QED BY <1>3, <1>4, <1>5, <1>6, <1>7, <1>8, <1>9, <1>10

-----------------------------------------------------------------------------
(* An operation that goes on.                                              *)
LEMMA Continued ==
  ASSUME IInv, NEW o \in Ops, ContinueOp(o)
  PROVE  IInv'
<1> DEFINE a == op[o].agent  p == op[o].path  at == op[o].at
<1>0. LayersInv /\ OpInv /\ WorldInv /\ LayersTyped
  BY DEF IInv, LayersInv
<1>1. op[o] \in OpStates /\ OpTyped(op[o]) /\ op[o].stage \notin {"new", "done"}
  BY <1>0 DEF OpInv, ContinueOp
<1>2. a \in Agents /\ p \in Paths /\ op[o].saw \in Entries
      /\ op[o].left \in [Paths -> SUBSET Paths]
  BY <1>1 DEF OpTyped, OpStates
<1>3. parent[p] \in Entries /\ View(a, p) \in Entries
  BY <1>0, <1>2, ViewTyped DEF WorldInv
<1>f. Frame /\ Alone(op[o].agent)
  BY DEF ContinueOp, AppendEnd, MkdirEnd, UtimesRead, CopyUp, LinkCheck, LinkStat,
         LinkEnd, SymlinkEnd, RmList, RmFilter, RmChild, RmDelete, CpRead, CpWrite,
         MvRm, Step
<1>g. SavedInv' /\ MergeInv' /\ WorldInv'
  BY <1>f, FrameKeeps
<1>h. SUFFICES LayersInv' /\ OpInv'
  BY <1>g DEF IInv
<1>4. CASE AppendEnd(o)
  <2>1. File(op[o].saw.data \cup {o}) \in Entries /\ File(op[o].saw.data \cup {o}) # Absent
    BY <1>2, EntryKinds
  <2> QED BY <1>4, <2>1, <1>0, <1>2, FinishKeeps, PutKeeps DEF AppendEnd
<1>5. CASE MkdirEnd(o)
  <2>1. OpInv'
    BY <1>5, <1>0, FinishKeeps DEF MkdirEnd
  <2>2. LayersInv'
    BY <1>5, <1>0, <1>2, PutKeeps, PutBareKeeps, StillKeeps, EntryKinds DEF MkdirEnd
  <2> QED BY <2>1, <2>2
<1>6. CASE UtimesRead(o)
  <2>1. UNCHANGED layers /\ (Finish(o) \/ (To(o, "copied", parent[p]) /\ parent[p].kind = "file"))
    BY <1>6 DEF UtimesRead
  <2>2. OpInv'
    BY <2>1, <1>0, <1>1, <1>3, FinishKeeps, ToKeeps, EntryKinds DEF Stages
  <2> QED BY <2>1, <2>2, <1>0, StillKeeps
<1>7. CASE CopyUp(o)
  <2>1. op[o].saw # Absent
    BY <1>7, <1>1 DEF CopyUp, Goes, OpTyped
  <2> QED BY <1>7, <2>1, <1>0, <1>2, FinishKeeps, PutBareKeeps DEF CopyUp
<1>8. CASE LinkCheck(o)
  <2>1. UNCHANGED layers /\ op[o].saw # Absent /\ (Finish(o) \/ To(o, "free", op[o].saw))
    BY <1>8, <1>1 DEF LinkCheck, Goes, OpTyped
  <2>2. OpInv'
    BY <2>1, <1>0, <1>1, <1>2, FinishKeeps, ToKeeps DEF Stages
  <2> QED BY <2>1, <2>2, <1>0, StillKeeps
<1>9. CASE LinkStat(o)
  <2>1. UNCHANGED layers /\ op[o].saw # Absent /\ (Finish(o) \/ To(o, "known", op[o].saw))
    BY <1>9, <1>1 DEF LinkStat, Goes, OpTyped
  <2>2. OpInv'
    BY <2>1, <1>0, <1>1, <1>2, FinishKeeps, ToKeeps DEF Stages
  <2> QED BY <2>1, <2>2, <1>0, StillKeeps
<1>10. CASE LinkEnd(o)
  <2>1. op[o].saw # Absent /\ at \in Paths
    BY <1>10, <1>1 DEF LinkEnd, Goes, OpTyped
  <2> QED BY <1>10, <2>1, <1>0, <1>2, FinishKeeps, PutKeeps DEF LinkEnd
<1>11. CASE SymlinkEnd(o)
  BY <1>11, <1>0, <1>2, FinishKeeps, PutKeeps, EntryKinds DEF SymlinkEnd
<1>12. CASE RmList(o)
  <2>1. op[o].stage = "present" /\ op[o].kind \in Removals /\ at \in Paths
    BY <1>12, <1>1 DEF RmList, Goes, OpTyped
  <2> DEFINE names == IF parent[at] = Dir THEN {c \in Children(at) : parent[c] # Absent} ELSE {}
  <2>2. names \in SUBSET Paths
    BY DEF Children
  <2>3. \/ Finish(o) /\ Bury(a, at)
        \/ UNCHANGED layers /\ Loops(o, "children", at, {})
        \/ UNCHANGED layers /\ Loops(o, "listing", at, names)
    BY <1>12 DEF RmList
  <2> HIDE DEF names
  <2>4. OpInv'
    BY <2>1, <2>2, <2>3, <1>0, FinishKeeps, LoopsKeeps
  <2>5. LayersInv'
    BY <2>1, <2>3, <1>0, <1>2, BuryKeeps, StillKeeps
  <2> QED BY <2>4, <2>5
<1>13. CASE RmFilter(o)
  <2>1. op[o].stage = "listing" /\ op[o].kind \in Removals /\ at \in Paths /\ UNCHANGED layers
    BY <1>13, <1>1 DEF RmFilter, Goes, OpTyped
  <2> DEFINE names == (op[o].left[at] \ deleted[a]) \cup
                        {c \in Children(at) : local[a][c] # Absent}
  <2>2. names \in SUBSET Paths /\ Loops(o, "children", at, names)
    BY <1>13, <1>2, <2>1 DEF Children, RmFilter
  <2> HIDE DEF names
  <2>4. OpInv'
    BY <2>1, <2>2, <1>0, LoopsKeeps
  <2> QED BY <2>1, <2>4, <1>0, StillKeeps
<1>14. ASSUME NEW c \in Paths, RmChild(o, c) PROVE LayersInv' /\ OpInv'
  <2>1. op[o].stage = "children" /\ op[o].kind \in Removals /\ at \in Paths /\ UNCHANGED layers
    BY <1>14, <1>1 DEF RmChild, Goes, OpTyped
  <2>2. LayersInv'
    BY <2>1, <1>0, StillKeeps
  <2>3. CASE View(a, c) # Absent
    <3> DEFINE l == [op[o].left EXCEPT ![at] = @ \ {c}]
    <3>1. op' = [op EXCEPT ![o] = [@ EXCEPT !.stage = "present", !.saw = op[o].saw,
                                            !.at = c, !.left = l]]
      <4>1. op' = [op EXCEPT ![o] = [op[o] EXCEPT !.stage = "present", !.at = c,
                                                  !.left[at] = @ \ {c}]]
        <5>1. op' = [op EXCEPT ![o] = [@ EXCEPT !.stage = "present", !.at = c,
                                                !.left[at] = op[o].left[at] \ {c}]]
          BY <1>14, <2>3 DEF RmChild
        <5> QED BY <5>1, <1>0 DEF OpInv
      <4>2. [op[o] EXCEPT !.stage = "present", !.at = c, !.left[at] = @ \ {c}]
              = [op[o] EXCEPT !.stage = "present", !.saw = op[o].saw, !.at = c, !.left = l]
        BY <1>1 DEF OpStates
      <4> HIDE DEF l
      <4> QED BY <4>1, <4>2
    <3>2. l \in [Paths -> SUBSET Paths] /\ c \in Paths \cup {NoPath} /\ "present" \in Stages
      BY <1>2 DEF Stages
    <3> HIDE DEF l
    <3> QED BY <3>1, <3>2, <2>2, <1>0, <1>1, <1>2, GoesOn
  <2>4. CASE View(a, c) = Absent
    <3> DEFINE names == IF op[o].kind = "rmrf" THEN op[o].left[at] \ {c} ELSE {}
    <3>1. names \in SUBSET Paths /\ Loops(o, "children", at, names)
      BY <1>14, <2>4, <2>1, <1>2 DEF RmChild
    <3> HIDE DEF names
    <3> QED BY <3>1, <2>1, <2>2, <1>0, LoopsKeeps
  <2> QED BY <2>3, <2>4
<1>15. CASE RmDelete(o)
  <2>1. op[o].stage = "children" /\ op[o].kind \in Removals /\ at \in Paths /\ Bury(a, at)
    BY <1>15, <1>1 DEF RmDelete, Goes, OpTyped
  <2>2. LayersInv'
    BY <2>1, <1>0, <1>2, BuryKeeps
  <2>3. CASE Finish(o)
    BY <2>2, <2>3, <1>0, FinishKeeps
  <2>4. ASSUME NEW q \in Above[at], op' = [op EXCEPT ![o] = [@ EXCEPT !.at = q]]
        PROVE  OpInv'
    <3>1. q \in Paths
      BY <2>1, OverlayAssumption
    <3> DEFINE r == [op[o] EXCEPT !.at = q]
               s == "children"
               e == op[o].saw
               l == op[o].left
    <3>2. op' = [op EXCEPT ![o] = r]
      BY <2>4, <1>0 DEF OpInv
    <3>3. r = [op[o] EXCEPT !.stage = s, !.saw = e, !.at = q, !.left = l]
      BY <2>1, <1>1 DEF OpStates
    <3>4. s \in Stages /\ q \in Paths \cup {NoPath}
      BY <3>1 DEF Stages
    <3>5. e \in Entries /\ l \in [Paths -> SUBSET Paths]
      BY <1>1 DEF OpStates
    <3>6. ~(s = "copied" \/ (op[o].kind = "link" /\ s \in {"read", "free", "known"}))
      OBVIOUS
    <3>7. op[o].stage \notin {"new", "done"}
      BY <2>1
    <3> HIDE DEF r, s, e, l
    <3> QED BY <3>1, <3>2, <3>3, <3>4, <3>5, <3>6, <3>7, <1>0, GoesOnTo
  <2> QED BY <1>15, <2>2, <2>3, <2>4 DEF RmDelete
<1>16. CASE CpRead(o)
  <2>1. UNCHANGED layers
        /\ (Finish(o) \/ (To(o, "copied", View(a, p)) /\ View(a, p).kind = "file"))
    BY <1>16 DEF CpRead, Readable
  <2>2. OpInv'
    BY <2>1, <1>0, <1>1, <1>3, FinishKeeps, ToKeeps, EntryKinds DEF Stages
  <2> QED BY <2>1, <2>2, <1>0, StillKeeps
<1>17. CASE CpWrite(o)
  <2>1. op[o].saw # Absent /\ at \in Paths /\ op[o].kind # "link"
    BY <1>17, <1>1 DEF CpWrite, Goes, OpTyped
  <2>2. LayersInv'
    BY <1>17, <2>1, <1>0, <1>2, PutKeeps DEF CpWrite
  <2>3. OpInv'
    BY <1>17, <2>1, <1>0, <1>1, FinishKeeps, ToKeeps, EntryKinds DEF CpWrite, Stages
  <2> QED BY <2>2, <2>3
<1>18. CASE MvRm(o)
  <2>1. UNCHANGED layers
    BY <1>18 DEF MvRm
  <2>2. CASE Finish(o)
    BY <2>1, <2>2, <1>0, FinishKeeps, StillKeeps
  <2>3. CASE op' = [op EXCEPT ![o] = [@ EXCEPT !.stage = "present", !.at = p]]
    <3>1. op' = [op EXCEPT ![o] = [@ EXCEPT !.stage = "present", !.saw = op[o].saw,
                                            !.at = p, !.left = op[o].left]]
      BY <2>3, <1>0, <1>1 DEF OpInv, OpStates
    <3>2. "present" \in Stages /\ p \in Paths \cup {NoPath}
      BY <1>2 DEF Stages
    <3> QED BY <3>1, <3>2, <2>1, <1>0, <1>1, <1>2, GoesOn, StillKeeps
  <2> QED BY <1>18, <2>2, <2>3 DEF MvRm
<1> QED BY <1>4, <1>5, <1>6, <1>7, <1>8, <1>9, <1>10, <1>11, <1>12, <1>13, <1>14,
           <1>15, <1>16, <1>17, <1>18 DEF ContinueOp

-----------------------------------------------------------------------------
(* Everything else.                                                        *)
LEMMA Initially == Init => IInv
<1> SUFFICES ASSUME Init PROVE IInv
  OBVIOUS
<1>1. \A p \in Paths : Empty[p] = Absent
  BY DEF Empty
<1>2. Agree(Empty, {}, {})
  BY <1>1, EntryKinds DEF Agree, Shadows, Tracks
<1>3. LayersInv
  BY <1>2, Constants DEF Init, LayersInv, LayersTyped
<1>4. SavedInv
  BY <1>2, Constants DEF Init, SavedInv, NoSnapshot
<1>5. OpInv /\ MergeInv
  BY Constants DEF Init, OpInv, MergeInv
<1>6. WorldInv
  <2>1. \A p \in InitialFiles : {p} \in SUBSET Data
    BY DEF Data
  <2>2. \A p \in InitialFiles : File({p}) \in Entries
    BY <2>1, EntryKinds
  <2> QED BY <2>2, Constants, EntryKinds DEF Init, WorldInv
<1> QED BY <1>3, <1>4, <1>5, <1>6 DEF IInv

LEMMA Snapshotted ==
  ASSUME IInv, NEW a \in Agents, Snapshot(a)
  PROVE  IInv'
<1>1. LayersInv' /\ OpInv' /\ MergeInv' /\ WorldInv'
  BY StillKeeps DEF Snapshot, IInv, OpInv, MergeInv, WorldInv
<1>2. SavedInv'
  <2> DEFINE r == [local |-> local[a], deleted |-> deleted[a],
                   modified |-> modified[a], taken |-> TRUE]
  <2>1. r \in Layers /\ Agree(r.local, r.deleted, r.modified)
    BY DEF IInv, LayersInv, LayersTyped, Layers
  <2>2. saved' = [saved EXCEPT ![a] = r]
    BY DEF Snapshot
  <2> HIDE DEF r
  <2> QED BY <2>1, <2>2 DEF IInv, SavedInv
<1> QED BY <1>1, <1>2 DEF IInv

LEMMA Restored ==
  ASSUME IInv, NEW a \in Agents, Restore(a)
  PROVE  IInv'
<1>1. OpInv' /\ WorldInv'
  BY DEF Restore, Alone, IInv, OpInv, WorldInv
<1>2. MergeInv'
  <2>1. merge[a] \in Merges /\ merge' = [merge EXCEPT ![a] = [@ EXCEPT !.walked = {}]]
    BY DEF Restore, IInv, MergeInv
  <2>2. \E r \in Merges : /\ merge' = [merge EXCEPT ![a] = r] /\ r.stage = merge[a].stage
                          /\ r.at = merge[a].at /\ r.got = merge[a].got
    <3> DEFINE again == [merge[a] EXCEPT !.walked = {}]
    <3>1. /\ again \in Merges /\ again.stage = merge[a].stage
          /\ again.at = merge[a].at /\ again.got = merge[a].got
      BY <2>1 DEF Merges
    <3>2. merge' = [merge EXCEPT ![a] = again]
      BY <2>1 DEF IInv, MergeInv
    <3> HIDE DEF again
    <3> QED BY <3>1, <3>2
  <2> QED BY <2>2 DEF IInv, MergeInv
<1>3. SavedInv'
  <2>1. Agree(NoSnapshot.local, NoSnapshot.deleted, NoSnapshot.modified)
    BY EntryKinds DEF NoSnapshot, Empty, Agree, Shadows, Tracks
  <2> QED BY <2>1, Constants DEF Restore, IInv, SavedInv
<1>4. LayersInv'
  <2>1. saved[a] \in Layers /\ Agree(saved[a].local, saved[a].deleted, saved[a].modified)
    BY DEF IInv, SavedInv
  <2>2. LayersTyped'
    BY <2>1 DEF Restore, IInv, LayersInv, LayersTyped, Layers
  <2>3. ASSUME NEW b \in Agents PROVE Agree(local'[b], deleted'[b], modified'[b])
    <3>1. CASE b = a
      BY <3>1, <2>1 DEF Restore, IInv, LayersInv, LayersTyped
    <3>2. CASE b # a
      <4>1. local'[b] = local[b] /\ deleted'[b] = deleted[b] /\ modified'[b] = modified[b]
        BY <3>2 DEF Restore, IInv, LayersInv, LayersTyped
      <4> QED BY <4>1 DEF IInv, LayersInv
    <3> QED BY <3>1, <3>2
  <2> QED BY <2>2, <2>3 DEF LayersInv, Agree, Shadows, Tracks
<1> QED BY <1>1, <1>2, <1>3, <1>4 DEF IInv

LEMMA ParentChanged ==
  ASSUME IInv, NEW o \in Ops, NEW p \in Paths, ParentWrite(o, p) \/ ParentRemove(o, p)
  PROVE  IInv'
<1>1. OpInv'
  BY FinishKeeps DEF ParentWrite, ParentRemove, IInv
<1>2. LayersInv' /\ SavedInv' /\ MergeInv'
  BY StillKeeps DEF ParentWrite, ParentRemove, Changed, IInv, SavedInv, MergeInv, layers
<1>3. WorldInv'
  <2>1. /\ agent' = agent /\ before' = before
        /\ alone' = [b \in Agents |-> FALSE]
        /\ steady' = [b \in Agents |-> steady[b] /\ (agent[b] = "new" \/ b = NoAgent)]
    BY DEF ParentWrite, ParentRemove, Changed
  <2>2. \E e \in Entries : parent' = [parent EXCEPT ![p] = e]
    BY EntryKinds DEF ParentWrite, ParentRemove
  <2> QED BY <2>1, <2>2 DEF IInv, WorldInv
<1> QED BY <1>1, <1>2, <1>3 DEF IInv

LEMMA Spawned ==
  ASSUME IInv, NEW a \in Agents, Spawn(a)
  PROVE  IInv'
<1> DEFINE layer == [p \in Paths |-> IF \E s \in Scaffold : p \in Above[s] \cup {s}
                                     THEN Dir ELSE Absent]
<1>1. SavedInv' /\ OpInv' /\ MergeInv' /\ WorldInv'
  BY DEF Spawn, IInv, SavedInv, OpInv, MergeInv, WorldInv
<1>2. layer \in [Paths -> Entries] /\ Agree(layer, {}, Scaffold)
  BY EntryKinds, OverlayAssumption DEF Agree, Shadows, Tracks
<1>3. local' = [local EXCEPT ![a] = layer] /\ modified' = [modified EXCEPT ![a] = Scaffold]
      /\ deleted' = [deleted EXCEPT ![a] = {}]
  BY DEF Spawn
<1> HIDE DEF layer
<1>4. LayersInv'
  BY <1>2, <1>3, OverlayAssumption DEF IInv, LayersInv, LayersTyped, Agree, Shadows, Tracks
<1> QED BY <1>1, <1>4 DEF IInv

LEMMA Merged ==
  ASSUME IInv, NEW a \in Agents, MergeStart(a) \/ MergeStep(a)
  PROVE  IInv'
<1>1. SavedInv' /\ OpInv' /\ LayersInv'
  BY StillKeeps DEF MergeStart, MergeStep, MergeRead, MergeWrite, MergeEnd, Changed,
     IInv, SavedInv, OpInv, layers
<1>2. MergeInv' /\ WorldInv'
  <2>0. merge[a] \in Merges
    BY DEF IInv, MergeInv
  <2>1. CASE MergeStart(a)
    <3>1. WorldInv'
      BY <2>1 DEF MergeStart, IInv, WorldInv
    <3>2. MergeInv'
      BY <2>1, <2>0 DEF MergeStart, IInv, MergeInv, Merges
    <3> QED BY <3>1, <3>2
  <2>2. CASE MergeEnd(a)
    <3>1. WorldInv'
      BY <2>2 DEF MergeEnd, IInv, WorldInv
    <3>2. MergeInv'
      BY <2>2, <2>0 DEF MergeEnd, IInv, MergeInv, Merges
    <3> QED BY <3>1, <3>2
  <2>3. ASSUME NEW p \in Paths, MergeRead(a, p) PROVE MergeInv' /\ WorldInv'
    <3>1. View(a, p) \in Entries
      BY ViewTyped DEF IInv, LayersInv
    <3>2. WorldInv'
      BY <2>3 DEF MergeRead, IInv, WorldInv
    <3>3. MergeInv'
      <4>1. Recoded(View(a, p)) \in Entries /\ Recoded(View(a, p)).kind = "file"
        BY <3>1, RecodedTyped
      <4> QED BY <2>3, <4>1 DEF MergeRead, IInv, MergeInv, Merges
    <3> QED BY <3>2, <3>3
  <2>4. CASE MergeWrite(a)
    <3>1. merge[a].at \in Paths /\ merge[a].got \in Entries
      BY <2>4, <2>0 DEF MergeWrite, IInv, MergeInv, Merges
    <3>2. WorldInv'
      BY <2>4, <3>1 DEF MergeWrite, Changed, IInv, WorldInv
    <3>3. \E r \in Merges : r.stage = "next" /\ merge' = [merge EXCEPT ![a] = r]
      <4> DEFINE q == merge[a].at
                 published == [merge[a] EXCEPT !.stage = "next", !.at = NoPath,
                                 !.got = Absent, !.merged = @ \cup {q}]
                 refused == [merge[a] EXCEPT !.stage = "next", !.at = NoPath,
                               !.got = Absent, !.conflicts = @ \cup {q}]
      <4>1. published \in Merges /\ published.stage = "next"
        BY <2>0, <3>1, EntryKinds DEF Merges
      <4>2. refused \in Merges /\ refused.stage = "next"
        BY <2>0, <3>1, EntryKinds DEF Merges
      <4>3. merge \in [Agents -> Merges]
        BY DEF IInv, MergeInv
      <4>4. merge' \in {[merge EXCEPT ![a] = published], [merge EXCEPT ![a] = refused]}
        <5>1. \/ merge' = [merge EXCEPT ![a] = [@ EXCEPT !.stage = "next", !.at = NoPath,
                                                !.got = Absent,
                          !.merged = merge[a].merged \cup {q}]]
              \/ merge' = [merge EXCEPT ![a] = [@ EXCEPT !.stage = "next", !.at = NoPath,
                                                !.got = Absent,
                          !.conflicts = merge[a].conflicts \cup {q}]]
          BY <2>4 DEF MergeWrite
        <5> QED BY <5>1, <4>3
      <4> HIDE DEF published, refused
      <4> QED BY <4>1, <4>2, <4>4
    <3>4. MergeInv'
      BY <3>3 DEF IInv, MergeInv
    <3> QED BY <3>2, <3>4
  <2> QED BY <2>1, <2>2, <2>3, <2>4 DEF MergeStep
<1> QED BY <1>1, <1>2 DEF IInv

LEMMA Kept == IInv /\ [Next]_vars => IInv'
<1> SUFFICES ASSUME IInv, [Next]_vars PROVE IInv'
  OBVIOUS
<1> USE OverlayAssumption
<1>1. CASE UNCHANGED vars
  BY <1>1, StillKeeps DEF vars, layers, IInv, SavedInv, OpInv, MergeInv, WorldInv
<1>2. ASSUME NEW o \in Ops, BeginOp(o) PROVE IInv'
  BY <1>2, Begun DEF BeginOp
<1>3. ASSUME NEW o \in Ops, ContinueOp(o) PROVE IInv'
  BY <1>3, Continued
<1>4. ASSUME NEW o \in Ops, NEW p \in Targets, ParentWrite(o, p) \/ ParentRemove(o, p)
      PROVE  IInv'
  BY <1>4, ParentChanged
<1>5. ASSUME NEW a \in Agents, Spawn(a) PROVE IInv'
  BY <1>5, Spawned
<1>6. ASSUME NEW a \in Agents, Complete(a) PROVE IInv'
  BY <1>6, StillKeeps DEF Complete, layers, IInv, SavedInv, OpInv, MergeInv, WorldInv
<1>7. ASSUME NEW a \in Agents, Snapshot(a) \/ Restore(a) PROVE IInv'
  BY <1>7, Snapshotted, Restored
<1>8. ASSUME NEW a \in Agents, MergeStart(a) \/ MergeStep(a) PROVE IInv'
  BY <1>8, Merged
<1> QED BY <1>1, <1>2, <1>3, <1>4, <1>5, <1>6, <1>7, <1>8 DEF Next

LEMMA Invariant == Spec => []IInv
<1>1. Init => IInv
  BY Initially
<1>2. IInv /\ [Next]_vars => IInv'
  BY Kept
<1> QED BY <1>1, <1>2, PTL DEF Spec

-----------------------------------------------------------------------------
\* What an operation stores has been read, and what the merge is about to write
\* is the contents of a file.
THEOREM TypeCorrect == Spec => []TypeOK
<1>1. IInv => TypeOK
  BY Regrouped
<1> QED BY <1>1, Invariant, PTL

\* An agent's modified paths are decided in its overlay (CowFs), for any number
\* of overlapping operations.
THEOREM ModifiedIsShadowed == Spec => []ModifiedShadowed
<1>1. IInv => ModifiedShadowed
  BY Regrouped
<1> QED BY <1>1, Invariant, PTL

\* modifiedPaths names every file, link and tombstone of the overlay, so that
\* mergeAgentChanges visits them.
THEOREM ChangesAreTracked == Spec => []ChangesTracked
<1>1. IInv => ChangesTracked
  BY Regrouped
<1> QED BY <1>1, Invariant, PTL

\* A step that changes the parent leaves the layers alone, and what they decide
\* does not depend on the parent.
LEMMA ParentAside ==
  ASSUME Next, parent' # parent PROVE UNCHANGED layers
<1>1. ASSUME NEW o \in Ops, BeginOp(o) PROVE parent' = parent
  <2>1. ASSUME NEW a \in Agents, NEW p \in Targets, NEW d \in Targets, NEW kind,
               \/ Write(o, a, p) \/ Append(o, a, p) \/ SymlinkBegin(o, a, p)
               \/ Mkdir(o, a, p, kind) \/ Chmod(o, a, p, kind) \/ Rm(o, a, p, kind)
               \/ Link(o, a, p, d) \/ Cp(o, a, p, d, kind)
        PROVE  Frame
    BY <2>1 DEF Write, Append, SymlinkBegin, Mkdir, Chmod, Rm, Link, Cp, Begins, Only, Starts
  <2> QED BY <1>1, <2>1 DEF BeginOp, Frame
<1>2. ASSUME NEW o \in Ops, ContinueOp(o) PROVE parent' = parent
  BY <1>2 DEF ContinueOp, AppendEnd, MkdirEnd, UtimesRead, CopyUp, LinkCheck, LinkStat,
              LinkEnd, SymlinkEnd, RmList, RmFilter, RmDelete, RmChild, CpRead, CpWrite,
              MvRm, Step, Frame
<1>3. ASSUME NEW o \in Ops, NEW p \in Targets, ParentWrite(o, p) \/ ParentRemove(o, p)
      PROVE  UNCHANGED layers
  BY <1>3 DEF ParentWrite, ParentRemove, Changed
<1>4. ASSUME NEW a \in Agents, \/ Spawn(a) \/ Complete(a) \/ Snapshot(a) \/ Restore(a)
                               \/ MergeStart(a)
      PROVE  parent' = parent
  BY <1>4 DEF Spawn, Complete, Snapshot, Restore, MergeStart
<1>5. ASSUME NEW a \in Agents, MergeStep(a) PROVE UNCHANGED layers
  BY <1>5 DEF MergeStep, MergeWrite, MergeEnd, MergeRead, Changed
<1> QED BY <1>1, <1>2, <1>3, <1>4, <1>5 DEF Next

\* What the parent becomes shows through no path an agent has modified.
THEOREM IsolationHolds == Spec => Isolation
<1> DEFINE Hidden == parent' # parent =>
       \A a \in Agents : \A p \in modified[a] : View(a, p)' = View(a, p)
<1>1. IInv /\ [Next]_vars => [Hidden]_vars
  <2> SUFFICES ASSUME IInv, Next, parent' # parent, NEW a \in Agents, NEW p \in modified[a]
               PROVE  View(a, p)' = View(a, p)
    BY DEF vars
  <2>1. p \in deleted[a] \/ local[a][p] # Absent
    BY DEF IInv, LayersInv, Agree, Shadows
  <2>2. local' = local /\ deleted' = deleted
    BY ParentAside DEF layers
  <2> QED BY <2>1, <2>2 DEF View
<1> QED BY <1>1, Invariant, PTL DEF Spec, Isolation

-----------------------------------------------------------------------------
(***************************************************************************)
(* The merge.  While nothing else happens, the parent is what it was with  *)
(* the merged paths replaced by what the agent sees: a merged path is one  *)
(* the agent has modified, so that it shows the same whatever the parent   *)
(* becomes, and a path refused once stays refused, because a merge writes  *)
(* files only and so makes no directory.                                   *)
(***************************************************************************)
Decided(a) == merge[a].merged \cup merge[a].conflicts

\* What the iterator has yielded is decided, or about to be.
Walking(a) ==
  merge[a].walked \subseteq
    Decided(a) \cup (IF merge[a].stage = "write" THEN {merge[a].at} ELSE {})

Published(a) ==
  /\ agent[a] # "new" /\ merge[a].merged \subseteq modified[a]
  /\ \A p \in Paths : parent[p] = IF p \in merge[a].merged THEN Recoded(View(a, p))
                                                           ELSE before[a][p]
  /\ \A p \in merge[a].conflicts : ~(Readable(a, p) /\ HasDirectory(p))
  /\ merge[a].conflicts \subseteq modified[a]
  /\ merge[a].stage = "write" =>
       merge[a].at \in modified[a] /\ merge[a].got = Recoded(View(a, merge[a].at))
  /\ merge[a].stage = "done" => modified[a] \subseteq Decided(a)

PublishInv ==
  \A a \in Agents :
    /\ merge[a].stage = "none" =>
         ~alone[a] /\ merge[a].merged = {} /\ merge[a].conflicts = {}
    /\ alone[a] => Published(a)
    /\ Walking(a)

\* What does not touch the parent, a merge or the overlay of an agent that is
\* still alone; a restore, after which it is not, starts the walk again.
Aside ==
  /\ UNCHANGED <<parent, before>>
  /\ \A a \in Agents :
       \/ merge'[a] = merge[a]
       \/ /\ ~alone'[a] /\ merge'[a].walked = {} /\ merge'[a].stage = merge[a].stage
          /\ merge'[a].merged = merge[a].merged
          /\ merge'[a].conflicts = merge[a].conflicts
  /\ \A a \in Agents : agent[a] # "new" => agent'[a] # "new"
  /\ \A a \in Agents : alone'[a] =>
       /\ alone[a]
       /\ local'[a] = local[a] /\ deleted'[a] = deleted[a] /\ modified'[a] = modified[a]

LEMMA AsideKeeps ==
  ASSUME PublishInv, Aside
  PROVE  PublishInv'
<1> SUFFICES ASSUME NEW a \in Agents
             PROVE  /\ merge[a].stage = "none" =>
                         ~alone'[a] /\ merge[a].merged = {} /\ merge[a].conflicts = {}
                    /\ alone'[a] => Published(a)'
                    /\ Walking(a)'
  BY DEF PublishInv, Aside
<1>1. alone'[a] => alone[a]
  BY DEF Aside
<1>2. ASSUME alone'[a] PROVE Published(a)'
  <2>1. \A p : View(a, p)' = View(a, p) /\ (Readable(a, p)' <=> Readable(a, p))
    BY <1>2 DEF Aside, View, Readable
  <2>2. \A p : HasDirectory(p)' <=> HasDirectory(p)
    BY DEF Aside, HasDirectory
  <2> QED BY <1>1, <1>2, <2>1, <2>2 DEF PublishInv, Published, Aside, Decided
<1>3. Walking(a)'
  BY DEF PublishInv, Aside, Walking, Decided
<1> QED BY <1>1, <1>2, <1>3 DEF PublishInv

\* The ways in which operations change layers touch one overlay.
Within(a) ==
  \A b \in Agents \ {a} :
    local'[b] = local[b] /\ deleted'[b] = deleted[b] /\ modified'[b] = modified[b]

LEMMA ChangesWithin ==
  ASSUME LayersTyped, NEW a,
         \/ UNCHANGED layers
         \/ \E p \in Paths : \E e : Put(a, p, e) \/ PutBare(a, p, e) \/ PutCopy(a, p, e)
         \/ \E p \in Paths : Bury(a, p) \/ Touch(a, p)
  PROVE  Within(a)
BY DEF Within, LayersTyped, layers, Put, PutBare, PutCopy, Bury, Touch

LEMMA StepAside ==
  ASSUME WorldInv, NEW a \in Agents, Alone(a), Frame, Within(a)
  PROVE  Aside
BY DEF WorldInv, Alone, Frame, Within, Aside

LEMMA BegunAside ==
  ASSUME IInv, NEW o \in Ops, BeginOp(o)
  PROVE  Aside
<1>0. LayersTyped /\ WorldInv
  BY DEF IInv, LayersInv
<1> SUFFICES ASSUME NEW a \in Agents, NEW p \in Paths,
                    \/ Write(o, a, p) \/ Append(o, a, p) \/ SymlinkBegin(o, a, p)
                    \/ \E kind \in {"mkdir", "mkdirp"} : Mkdir(o, a, p, kind)
                    \/ \E kind \in {"chmod", "utimes"} : Chmod(o, a, p, kind)
                    \/ \E kind \in {"rm", "rmr", "rmrf"} : Rm(o, a, p, kind)
                    \/ \E d \in Paths : \/ Link(o, a, p, d)
                                       \/ \E kind \in {"cp", "mv"} : Cp(o, a, p, d, kind)
             PROVE  Aside
  BY OverlayAssumption DEF BeginOp
<1>1. Frame /\ Alone(a)
  BY DEF Write, Append, SymlinkBegin, Mkdir, Chmod, Rm, Link, Cp, Only, Begins, Starts
<1>2. \/ UNCHANGED layers
      \/ \E e : Put(a, p, e) \/ PutBare(a, p, e)
      \/ Touch(a, p)
  BY DEF Write, Append, SymlinkBegin, Mkdir, Chmod, Rm, Link, Cp
<1> QED BY <1>0, <1>1, <1>2, ChangesWithin, StepAside

LEMMA ContinuedAside ==
  ASSUME IInv, NEW o \in Ops, ContinueOp(o)
  PROVE  Aside
<1> DEFINE a == op[o].agent
<1>0. /\ LayersTyped /\ WorldInv
      /\ op[o].agent \in Agents /\ op[o].path \in Paths
  BY DEF IInv, LayersInv, OpInv, ContinueOp, OpTyped
<1>1. Frame /\ Alone(op[o].agent)
  BY DEF ContinueOp, AppendEnd, MkdirEnd, UtimesRead, CopyUp, LinkCheck, LinkStat,
         LinkEnd, SymlinkEnd, RmList, RmFilter, RmDelete, RmChild, CpRead, CpWrite,
         MvRm, Step
<1>2. /\ op[o].kind \in {"link", "cp", "mv"} \/ op[o].stage \in {"present", "children"}
           => op[o].at \in Paths
  BY DEF IInv, OpInv, OpTyped
<1>3. \/ UNCHANGED layers
      \/ \E p \in Paths : \E e : Put(op[o].agent, p, e) \/ PutBare(op[o].agent, p, e)
                               \/ PutCopy(op[o].agent, p, e)
      \/ \E p \in Paths : Bury(op[o].agent, p)
  <2>1. CASE AppendEnd(o) \/ MkdirEnd(o) \/ UtimesRead(o) \/ CopyUp(o) \/ SymlinkEnd(o)
    BY <2>1, <1>0 DEF AppendEnd, MkdirEnd, UtimesRead, CopyUp, SymlinkEnd
  <2>2. CASE LinkEnd(o) \/ CpWrite(o)
    BY <2>2, <1>2 DEF LinkEnd, CpWrite, Goes
  <2>3. CASE RmList(o) \/ RmDelete(o)
    BY <2>3, <1>2 DEF RmList, RmDelete, Goes
  <2>4. CASE LinkCheck(o) \/ LinkStat(o) \/ RmFilter(o) \/ CpRead(o) \/ MvRm(o)
               \/ \E c \in Paths : RmChild(o, c)
    BY <2>4 DEF LinkCheck, LinkStat, RmFilter, CpRead, MvRm, RmChild
  <2> QED BY <2>1, <2>2, <2>3, <2>4 DEF ContinueOp
<1> QED BY <1>0, <1>1, <1>3, ChangesWithin, StepAside

LEMMA OthersAside ==
  ASSUME IInv, NEW a \in Agents, Complete(a) \/ Snapshot(a) \/ Restore(a)
  PROVE  Aside
<1>1. CASE Complete(a)
  BY <1>1 DEF Complete, Aside, IInv, WorldInv, layers
<1>2. CASE Snapshot(a)
  BY <1>2 DEF Snapshot, Aside, layers
<1>3. CASE Restore(a)
  <2>1. /\ merge \in [Agents -> Merges] /\ merge[a] \in Merges
        /\ merge' = [merge EXCEPT ![a] = [@ EXCEPT !.walked = {}]]
    BY <1>3 DEF Restore, IInv, MergeInv
  <2>2. /\ \A b \in Agents \ {a} : merge'[b] = merge[b]
        /\ merge'[a] = [merge[a] EXCEPT !.walked = {}]
    BY <2>1
  <2>3. /\ merge'[a].walked = {} /\ merge'[a].stage = merge[a].stage
        /\ merge'[a].merged = merge[a].merged /\ merge'[a].conflicts = merge[a].conflicts
    BY <2>1, <2>2 DEF Merges
  <2>4. ~alone'[a]
    BY <1>3 DEF Restore, Alone, IInv, WorldInv
  <2>5. \A b \in Agents : alone'[b] =>
          /\ alone[b]
          /\ local'[b] = local[b] /\ deleted'[b] = deleted[b] /\ modified'[b] = modified[b]
    BY <1>3 DEF Restore, Alone, IInv, WorldInv, LayersInv, LayersTyped
  <2>6. UNCHANGED <<parent, before, agent>>
    BY <1>3 DEF Restore
  <2> QED BY <2>2, <2>3, <2>4, <2>5, <2>6 DEF Aside
<1> QED BY <1>1, <1>2, <1>3

-----------------------------------------------------------------------------
\* A directory is not made by writing a file.
LEMMA NoNewDirectory ==
  ASSUME WorldInv, NEW p \in Paths, NEW e \in Entries, e.kind = "file",
         parent' = [parent EXCEPT ![p] = e], NEW q \in Paths, HasDirectory(q)'
  PROVE  HasDirectory(q)
<1>1. \A r \in Above[q] : r \in Paths
  BY OverlayAssumption
<1>2. \A r \in Paths : parent'[r] = Dir => parent[r] = Dir
  BY EntryKinds DEF WorldInv
<1> QED BY <1>1, <1>2 DEF HasDirectory, Children

\* The parent shows through no path the agent has modified.
LEMMA ModifiedView ==
  ASSUME IInv, UNCHANGED <<local, deleted>>, NEW a \in Agents, NEW p \in modified[a]
  PROVE  View(a, p)' = View(a, p) /\ (Readable(a, p)' <=> Readable(a, p))
<1>1. p \in deleted[a] \/ local[a][p] # Absent
  BY DEF IInv, LayersInv, Agree, Shadows
<1> QED BY <1>1 DEF View, Readable

LEMMA MergeStepKeeps ==
  ASSUME IInv, PublishInv, NEW a \in Agents, MergeStart(a) \/ MergeStep(a)
  PROVE  PublishInv'
<1>0. /\ merge \in [Agents -> Merges] /\ alone \in [Agents -> BOOLEAN]
      /\ parent \in [Paths -> Entries] /\ before \in [Agents -> [Paths -> Entries]]
      /\ local' = local /\ deleted' = deleted /\ modified' = modified /\ agent' = agent
  BY DEF IInv, MergeInv, WorldInv, MergeStart, MergeStep, MergeRead, MergeWrite, MergeEnd,
         Changed, layers
<1>1. CASE parent' = parent /\ before' = before /\ alone' = alone
           /\ (\A b \in Agents \ {a} : merge'[b] = merge[b])
           /\ merge'[a].stage # "none" /\ (alone[a] => Published(a)') /\ Walking(a)'
  <2>1. ASSUME NEW b \in Agents, b # a, alone[b] PROVE Published(b)'
    <3>1. \A p : View(b, p)' = View(b, p) /\ (Readable(b, p)' <=> Readable(b, p))
                   /\ (HasDirectory(p)' <=> HasDirectory(p))
      BY <1>0, <1>1 DEF View, Readable, HasDirectory
    <3>2. Published(b) BY <2>1 DEF PublishInv
    <3>3. merge'[b] = merge[b] BY <1>1, <2>1
    <3> QED BY <3>1, <3>2, <3>3, <1>0, <1>1 DEF Published, Decided
  <2>2. \A b \in Agents \ {a} : Walking(b)'
    BY <1>1 DEF PublishInv, Walking, Decided
  <2> QED BY <1>1, <2>1, <2>2 DEF PublishInv
<1>2. CASE MergeStart(a)
  <2>0. merge[a] \in Merges
    BY <1>0
  <2>1. /\ merge'[a] = [merge[a] EXCEPT !.stage = "next"]
        /\ before'[a] = parent /\ alone'[a] /\ parent' = parent
        /\ merge[a].merged = {} /\ merge[a].conflicts = {} /\ agent[a] # "new"
    BY <1>0, <1>2 DEF MergeStart, PublishInv
  <2>2. /\ merge'[a].merged = {} /\ merge'[a].conflicts = {} /\ merge'[a].stage = "next"
        /\ merge'[a].walked = merge[a].walked /\ merge[a].stage = "none"
    BY <1>2, <2>0, <2>1 DEF MergeStart, Merges
  <2>3. Published(a)'
    BY <2>1, <2>2, <1>0 DEF Published
  <2>4. ASSUME NEW b \in Agents, b # a
        PROVE  merge'[b] = merge[b] /\ before'[b] = before[b] /\ alone'[b] = alone[b]
    BY <2>4, <1>0, <1>2 DEF MergeStart
  <2>5. ASSUME NEW b \in Agents, b # a, alone[b] PROVE Published(b)'
    <3>1. \A p : View(b, p)' = View(b, p) /\ (Readable(b, p)' <=> Readable(b, p))
                   /\ (HasDirectory(p)' <=> HasDirectory(p))
      BY <1>0, <2>1 DEF View, Readable, HasDirectory
    <3>2. Published(b) BY <2>5 DEF PublishInv
    <3> QED BY <3>1, <3>2, <2>1, <2>4, <2>5, <1>0 DEF Published, Decided
  <2>6. ASSUME NEW b \in Agents PROVE Walking(b)'
    <3>1. Walking(b)
      BY DEF PublishInv
    <3>2. CASE b = a
      <4>1. merge[a].merged = {} /\ merge[a].conflicts = {} /\ merge[a].stage = "none"
        BY <2>1, <2>2
      <4>2. merge[a].walked = {}
        BY <3>1, <3>2, <4>1 DEF Walking, Decided
      <4> QED BY <2>2, <3>2, <4>2 DEF Walking
    <3>3. CASE b # a
      <4>1. merge'[b] = merge[b]
        BY <2>4, <3>3
      <4> QED BY <3>1, <4>1 DEF Walking, Decided
    <3> QED BY <3>2, <3>3
  <2> QED BY <2>2, <2>3, <2>4, <2>5, <2>6 DEF PublishInv
<1>3. ASSUME NEW p \in Paths, MergeRead(a, p) PROVE PublishInv'
  <2>0. /\ merge[a] \in Merges /\ merge[a].stage = "next" /\ p \in modified[a]
        /\ Walking(a)
        /\ UNCHANGED <<parent, before, alone>>
        /\ \A b \in Agents \ {a} : merge'[b] = merge[b]
    BY <1>0, <1>3 DEF MergeRead, Ahead, PublishInv
  <2>1. \A q : View(a, q)' = View(a, q) /\ (Readable(a, q)' <=> Readable(a, q))
                 /\ (HasDirectory(q)' <=> HasDirectory(q))
    BY <1>0, <2>0 DEF View, Readable, HasDirectory
  <2>2. CASE Readable(a, p)
    <3>1. merge'[a] = [merge[a] EXCEPT !.stage = "write", !.at = p,
                                       !.got = Recoded(View(a, p)), !.walked = @ \cup {p}]
      BY <1>0, <1>3, <2>2 DEF MergeRead
    <3>2. /\ merge'[a].stage = "write" /\ merge'[a].at = p
          /\ merge'[a].got = Recoded(View(a, p)) /\ merge'[a].merged = merge[a].merged /\ merge'[a].conflicts = merge[a].conflicts
          /\ merge'[a].walked = merge[a].walked \cup {p}
      BY <2>0, <3>1 DEF Merges
    <3>3. alone[a] => Published(a)'
      BY <3>2, <2>0, <2>1, <1>0 DEF PublishInv, Published
    <3>4. Walking(a)'
      BY <3>2, <2>0 DEF Walking, Decided
    <3> QED BY <3>2, <3>3, <3>4, <2>0, <1>1
  <2>3. CASE ~Readable(a, p)
    <3>1. merge'[a] = [merge[a] EXCEPT !.conflicts = @ \cup {p}, !.walked = @ \cup {p}]
      BY <1>0, <1>3, <2>3 DEF MergeRead
    <3>2. /\ merge'[a].stage = "next" /\ merge'[a].merged = merge[a].merged
          /\ merge'[a].conflicts = merge[a].conflicts \cup {p}
          /\ merge'[a].walked = merge[a].walked \cup {p}
      BY <2>0, <3>1 DEF Merges
    <3>3. alone[a] => Published(a)'
      BY <3>2, <2>0, <2>1, <2>3, <1>0 DEF PublishInv, Published
    <3>4. Walking(a)'
      BY <3>2, <2>0 DEF Walking, Decided
    <3> QED BY <3>2, <3>3, <3>4, <2>0, <1>1
  <2> QED BY <2>2, <2>3
<1>4. CASE MergeEnd(a)
  <2>0. /\ merge[a] \in Merges /\ merge[a].stage = "next" /\ modified[a] \subseteq Decided(a)
        /\ UNCHANGED <<parent, before, alone>>
        /\ merge'[a] = [merge[a] EXCEPT !.stage = "done", !.walked = {}]
        /\ \A b \in Agents \ {a} : merge'[b] = merge[b]
    BY <1>0, <1>4 DEF MergeEnd, Ahead, PublishInv, Walking
  <2>1. \A q : View(a, q)' = View(a, q) /\ (Readable(a, q)' <=> Readable(a, q))
                 /\ (HasDirectory(q)' <=> HasDirectory(q))
    BY <1>0, <2>0 DEF View, Readable, HasDirectory
  <2>2. /\ merge'[a].stage = "done" /\ merge'[a].merged = merge[a].merged
        /\ merge'[a].conflicts = merge[a].conflicts /\ merge'[a].walked = {}
    BY <2>0 DEF Merges
  <2>3. alone[a] => Published(a)'
    BY <2>0, <2>1, <2>2, <1>0 DEF PublishInv, Published, Decided
  <2>4. Walking(a)'
    BY <2>2 DEF Walking
  <2> QED BY <2>0, <2>2, <2>3, <2>4, <1>1
<1>5. CASE MergeWrite(a)
  <2> DEFINE p == merge[a].at
  <2>0. /\ merge[a] \in Merges /\ merge[a].stage = "write" /\ p \in Paths
        /\ merge[a].got \in Entries /\ merge[a].got.kind = "file"
    BY <1>0, <1>5 DEF MergeWrite, IInv, MergeInv, Merges
  <2>1. CASE HasDirectory(p)
    <3>1. /\ parent' = [parent EXCEPT ![p] = merge[a].got]
          /\ merge' = [merge EXCEPT ![a] =
                         [@ EXCEPT !.stage = "next", !.at = NoPath,
                                   !.got = Absent, !.merged = merge[a].merged \cup {p}]]
          /\ alone' = [b \in Agents |-> b = a /\ alone[b]]
          /\ before' = before
      BY <1>5, <2>1 DEF MergeWrite, Changed
    <3>2. /\ merge'[a].stage = "next" /\ merge'[a].merged = merge[a].merged \cup {p}
          /\ merge'[a].conflicts = merge[a].conflicts /\ merge'[a].walked = merge[a].walked
      BY <1>0, <2>0, <3>1 DEF Merges
    <3>3. ASSUME alone[a] PROVE Published(a)'
      <4>1. Published(a) /\ p \in modified[a] /\ merge[a].got = Recoded(View(a, p))
        BY <3>3, <2>0 DEF PublishInv, Published
      <4>2. \A q \in modified[a] : View(a, q)' = View(a, q) /\ (Readable(a, q)' <=> Readable(a, q))
        BY <1>0, ModifiedView
      <4>3. \A q \in Paths : parent'[q] = IF q \in merge'[a].merged THEN Recoded(View(a, q)')
                                          ELSE before'[a][q]
        BY <4>1, <4>2, <3>1, <3>2, <1>0 DEF Published
      <4>4. \A q \in merge'[a].conflicts : ~(Readable(a, q)' /\ HasDirectory(q)')
        <5>1. \A q \in Paths : HasDirectory(q)' => HasDirectory(q)
          BY <2>0, <3>1, NoNewDirectory DEF IInv
        <5>2. merge[a].conflicts \subseteq Paths
          BY <2>0 DEF Merges
        <5> QED BY <5>1, <5>2, <4>1, <4>2, <3>2 DEF Published
      <4> QED BY <4>1, <4>3, <4>4, <3>2, <1>0 DEF Published
    <3>4. \A b \in Agents \ {a} : merge'[b] = merge[b] /\ ~alone'[b]
      BY <1>0, <3>1
    <3>5. \A b \in Agents : Walking(b)'
      BY <2>0, <3>2, <3>4 DEF PublishInv, Walking, Decided
    <3> QED BY <3>1, <3>2, <3>3, <3>4, <3>5, <1>0 DEF PublishInv
  <2>2. CASE ~HasDirectory(p)
    <3>1. /\ UNCHANGED <<parent, before, alone>>
          /\ merge' = [merge EXCEPT ![a] =
                       [@ EXCEPT !.stage = "next", !.at = NoPath,
                                 !.got = Absent,
                                 !.conflicts = merge[a].conflicts \cup {p}]]
      BY <1>5, <2>2 DEF MergeWrite
    <3>2. /\ merge'[a].stage = "next" /\ merge'[a].merged = merge[a].merged
          /\ merge'[a].conflicts = merge[a].conflicts \cup {p}
          /\ merge'[a].walked = merge[a].walked
      BY <1>0, <2>0, <3>1 DEF Merges
    <3>3. \A q : View(a, q)' = View(a, q) /\ (Readable(a, q)' <=> Readable(a, q))
                   /\ (HasDirectory(q)' <=> HasDirectory(q))
      BY <1>0, <3>1 DEF View, Readable, HasDirectory
    <3>4. alone[a] => Published(a)'
      BY <2>0, <2>2, <3>1, <3>2, <3>3, <1>0 DEF PublishInv, Published
    <3>5. \A b \in Agents \ {a} : merge'[b] = merge[b]
      BY <1>0, <3>1
    <3>6. Walking(a)'
      BY <2>0, <3>2 DEF PublishInv, Walking, Decided
    <3> QED BY <3>1, <3>2, <3>4, <3>5, <3>6, <1>1
  <2> QED BY <2>1, <2>2
<1> QED BY <1>2, <1>3, <1>4, <1>5 DEF MergeStep

LEMMA PublishKept == IInv /\ PublishInv /\ [Next]_vars => PublishInv'
<1> SUFFICES ASSUME IInv, PublishInv, [Next]_vars PROVE PublishInv'
  OBVIOUS
<1>1. ASSUME NEW o \in Ops, BeginOp(o) \/ ContinueOp(o) PROVE PublishInv'
  BY <1>1, BegunAside, ContinuedAside, AsideKeeps
<1>2. ASSUME NEW o \in Ops, NEW p \in Targets, ParentWrite(o, p) \/ ParentRemove(o, p)
      PROVE  PublishInv'
  BY <1>2 DEF ParentWrite, ParentRemove, PublishInv, Walking, Decided
<1>3. ASSUME NEW a \in Agents, Spawn(a) PROVE PublishInv'
  <2>1. ~alone[a]
    BY <1>3 DEF Spawn, PublishInv, Published
  <2>2. Aside
    BY <1>3, <2>1 DEF Spawn, Aside, IInv, WorldInv, LayersInv, LayersTyped
  <2> QED BY <2>2, AsideKeeps
<1>4. ASSUME NEW a \in Agents, Complete(a) \/ Snapshot(a) \/ Restore(a) PROVE PublishInv'
  BY <1>4, OthersAside, AsideKeeps
<1>5. ASSUME NEW a \in Agents, MergeStart(a) \/ MergeStep(a) PROVE PublishInv'
  BY <1>5, MergeStepKeeps
<1>6. CASE UNCHANGED vars
  <2>1. Aside
    BY <1>6 DEF vars, layers, Aside
  <2> QED BY <2>1, AsideKeeps
<1> QED BY <1>1, <1>2, <1>3, <1>4, <1>5, <1>6 DEF Next

\* A merge that nothing interferes with gives the parent the agent's version of
\* every file the parent has a directory for, and changes nothing else.
THEOREM MergePublishesAll == Spec => []MergePublishes
<1>1. Init => PublishInv
  BY DEF Init, PublishInv, NoMerge, Walking
<1>2. IInv /\ PublishInv => MergePublishes
  <2> SUFFICES ASSUME IInv, PublishInv, NEW a \in Agents, merge[a].stage = "done", alone[a]
               PROVE  /\ \A p \in Paths : parent[p] = IF p \in merge[a].merged
                                                      THEN Recoded(View(a, p)) ELSE before[a][p]
                      /\ \A p \in modified[a] : Readable(a, p) /\ HasDirectory(p)
                                                 => p \in merge[a].merged
    BY DEF MergePublishes
  <2> QED BY DEF PublishInv, Published, Decided
<1> QED BY <1>1, <1>2, PublishKept, Invariant, PTL DEF Spec

\* The step with which a merge ends finds every modified path decided.
MergeDecides ==
  [][\A a \in Agents : merge[a].stage # "done" /\ merge'[a].stage = "done" =>
       modified[a] \subseteq merge'[a].merged \cup merge'[a].conflicts]_vars

\* A merge returns only when every path that the agent has modified by then was merged or
\* is a conflict, whatever the agent, its restores and the parent do meanwhile.
THEOREM MergeDecidesAll == Spec => MergeDecides
<1> DEFINE Ends(a) == merge[a].stage # "done" /\ merge'[a].stage = "done"
           Settled(a) == modified[a] \subseteq merge'[a].merged \cup merge'[a].conflicts
<1>1. ASSUME IInv, PublishInv, Next, NEW a \in Agents, Ends(a) PROVE Settled(a)
  <2>1. merge \in [Agents -> Merges] /\ merge[a] \in Merges
    BY <1>1 DEF IInv, MergeInv
  <2>2. ~Aside
    BY <1>1 DEF Aside
  <2>3. ~\E o \in Ops : BeginOp(o) \/ ContinueOp(o)
    BY <1>1, <2>2, BegunAside, ContinuedAside
  <2>4. ~\E o \in Ops, p \in Targets : ParentWrite(o, p) \/ ParentRemove(o, p)
    BY <1>1 DEF ParentWrite, ParentRemove
  <2>5. ~\E b \in Agents : Spawn(b) \/ Complete(b) \/ Snapshot(b) \/ Restore(b)
    BY <1>1, <2>2, OthersAside DEF Spawn
  <2>6. PICK b \in Agents : MergeStart(b) \/ MergeStep(b)
    BY <1>1, <2>3, <2>4, <2>5 DEF Next
  <2>7. MergeEnd(b) /\ b = a
    <3>1. ASSUME b # a PROVE FALSE
      <4>1. merge'[a] = merge[a]
        BY <2>1, <2>6, <3>1 DEF MergeStart, MergeStep, MergeRead, MergeWrite, MergeEnd
      <4> QED BY <1>1, <4>1
    <3>2. CASE MergeStart(a)
      <4>1. merge'[a] = [merge[a] EXCEPT !.stage = "next"]
        BY <2>1, <3>2 DEF MergeStart
      <4> QED BY <1>1, <2>1, <4>1 DEF Merges
    <3>3. ASSUME NEW p \in Paths, MergeRead(a, p) PROVE FALSE
      <4>1. merge'[a].stage \in {"write", merge[a].stage}
        BY <2>1, <3>3 DEF MergeRead, Merges
      <4> QED BY <1>1, <4>1
    <3>4. CASE MergeWrite(a)
      <4>1. merge'[a].stage = "next"
        <5> DEFINE q == merge[a].at
                   published == [merge[a] EXCEPT !.stage = "next", !.at = NoPath,
                                   !.got = Absent, !.merged = merge[a].merged \cup {q}]
                   refused == [merge[a] EXCEPT !.stage = "next", !.at = NoPath,
                                 !.got = Absent, !.conflicts = merge[a].conflicts \cup {q}]
        <5>1. merge'[a] \in {published, refused}
          BY <2>1, <3>4 DEF MergeWrite
        <5>2. published.stage = "next" /\ refused.stage = "next"
          BY <2>1 DEF Merges
        <5> HIDE DEF published, refused
        <5> QED BY <5>1, <5>2
      <4> QED BY <1>1, <4>1
    <3> QED BY <2>6, <3>1, <3>2, <3>3, <3>4 DEF MergeStep
  <2>8. /\ merge'[a] = [merge[a] EXCEPT !.stage = "done", !.walked = {}]
        /\ merge[a].stage = "next" /\ modified[a] \subseteq merge[a].walked
    BY <2>1, <2>7 DEF MergeEnd, Ahead
  <2>9. merge'[a].merged = merge[a].merged /\ merge'[a].conflicts = merge[a].conflicts
    BY <2>1, <2>8 DEF Merges
  <2> QED BY <1>1, <2>8, <2>9 DEF PublishInv, Walking, Decided
<1>2. IInv /\ PublishInv /\ [Next]_vars => [\A a \in Agents : Ends(a) => Settled(a)]_vars
  BY <1>1
<1>3. Init => PublishInv
  BY DEF Init, PublishInv, NoMerge, Walking
<1> QED BY <1>2, <1>3, PublishKept, Invariant, PTL DEF Spec, MergeDecides

-----------------------------------------------------------------------------
(***************************************************************************)
(* The merge comes to an end.  Two steps for every path that the iterator  *)
(* may still yield, one to write what was read and one to return: a step   *)
(* of the merge is one less, and only a restore, which puts every path     *)
(* behind the iterator, makes them more.                                   *)
(***************************************************************************)
UnderWay(a) == merge[a].stage \in {"next", "write"}

StepsLeft(a) ==
  IF ~UnderWay(a) THEN 0
  ELSE 2 * Cardinality(Paths \ merge[a].walked) + (IF merge[a].stage = "write" THEN 2 ELSE 1)

LEMMA StepsLeftNat ==
  ASSUME IsFiniteSet(Paths), NEW W
  PROVE  /\ Cardinality(Paths \ W) \in Nat
         /\ \A p \in Paths \ W :
              Cardinality(Paths \ (W \cup {p})) = Cardinality(Paths \ W) - 1
<1>1. IsFiniteSet(Paths \ W)
  BY FS_Difference
<1>2. ASSUME NEW p \in Paths \ W
      PROVE  Cardinality(Paths \ (W \cup {p})) = Cardinality(Paths \ W) - 1
  <2>1. Paths \ (W \cup {p}) = (Paths \ W) \ {p}
    OBVIOUS
  <2> QED BY <1>1, <2>1, FS_RemoveElement
<1> QED BY <1>1, <1>2, FS_CardinalityType

\* What a step of the merge does to its stage and to the paths behind the iterator.
LEMMA MergeStepWalks ==
  ASSUME IInv, NEW a \in Agents, MergeStep(a)
  PROVE  \/ /\ merge[a].stage = "next"
            /\ \E p \in Paths \ merge[a].walked : merge'[a].walked = merge[a].walked \cup {p}
            /\ merge'[a].stage \in {"next", "write"}
         \/ /\ merge[a].stage = "write" /\ merge'[a].stage = "next"
            /\ merge'[a].walked = merge[a].walked
         \/ merge[a].stage = "next" /\ merge'[a].stage = "done"
<1>1. merge \in [Agents -> Merges] /\ merge[a] \in Merges /\ modified[a] \subseteq Paths
  BY DEF IInv, MergeInv, LayersInv, LayersTyped
<1>2. ASSUME NEW p \in Paths, MergeRead(a, p)
      PROVE  /\ merge[a].stage = "next" /\ p \in Paths \ merge[a].walked
             /\ merge'[a].walked = merge[a].walked \cup {p}
             /\ merge'[a].stage \in {"next", "write"}
  BY <1>1, <1>2 DEF MergeRead, Ahead, Merges
<1>3. CASE MergeWrite(a)
  <2> DEFINE q == merge[a].at
             published == [merge[a] EXCEPT !.stage = "next", !.at = NoPath,
                             !.got = Absent, !.merged = merge[a].merged \cup {q}]
             refused == [merge[a] EXCEPT !.stage = "next", !.at = NoPath,
                           !.got = Absent, !.conflicts = merge[a].conflicts \cup {q}]
  <2>1. merge[a].stage = "write" /\ merge'[a] \in {published, refused}
    BY <1>1, <1>3 DEF MergeWrite
  <2>2. /\ published.stage = "next" /\ published.walked = merge[a].walked
        /\ refused.stage = "next" /\ refused.walked = merge[a].walked
    BY <1>1 DEF Merges
  <2> HIDE DEF published, refused
  <2> QED BY <2>1, <2>2
<1>4. CASE MergeEnd(a)
  BY <1>1, <1>4 DEF MergeEnd, Merges
<1> QED BY <1>2, <1>3, <1>4 DEF MergeStep

LEMMA MergeStepNearer ==
  ASSUME IsFiniteSet(Paths), IInv, NEW a \in Agents, MergeStep(a)
  PROVE  StepsLeft(a)' \in Nat /\ StepsLeft(a) \in Nat /\ StepsLeft(a)' < StepsLeft(a)
<1> DEFINE left == Cardinality(Paths \ merge[a].walked)
<1>1. left \in Nat
  BY StepsLeftNat
<1>2. ASSUME NEW p \in Paths \ merge[a].walked, merge'[a].walked = merge[a].walked \cup {p}
      PROVE  left' = left - 1 /\ left' \in Nat
  BY <1>2, StepsLeftNat
<1>3. merge'[a].walked = merge[a].walked => left' = left
  OBVIOUS
<1>4. StepsLeft(a) = IF merge[a].stage \notin {"next", "write"} THEN 0
                     ELSE 2 * left + (IF merge[a].stage = "write" THEN 2 ELSE 1)
  BY DEF StepsLeft, UnderWay
<1>5. StepsLeft(a)' = IF merge'[a].stage \notin {"next", "write"} THEN 0
                      ELSE 2 * left' + (IF merge'[a].stage = "write" THEN 2 ELSE 1)
  BY DEF StepsLeft, UnderWay
<1> HIDE DEF left
<1> QED BY <1>1, <1>2, <1>3, <1>4, <1>5, MergeStepWalks

\* Nobody but the merge and a restore of its agent touches the merge.
LEMMA OthersLeaveMerge ==
  ASSUME IInv, Next, NEW a \in Agents, UnderWay(a), ~MergeStep(a), ~Restore(a)
  PROVE  merge'[a] = merge[a]
<1>0. merge \in [Agents -> Merges]
  BY DEF IInv, MergeInv
<1>1. ASSUME NEW o \in Ops, BeginOp(o) PROVE merge' = merge
  <2> SUFFICES ASSUME NEW b \in Agents, NEW p \in Paths,
                      \/ Write(o, b, p) \/ Append(o, b, p) \/ SymlinkBegin(o, b, p)
                      \/ \E kind \in {"mkdir", "mkdirp"} : Mkdir(o, b, p, kind)
                      \/ \E kind \in {"chmod", "utimes"} : Chmod(o, b, p, kind)
                      \/ \E kind \in {"rm", "rmr", "rmrf"} : Rm(o, b, p, kind)
                      \/ \E d \in Paths : \/ Link(o, b, p, d)
                                         \/ \E kind \in {"cp", "mv"} : Cp(o, b, p, d, kind)
               PROVE  merge' = merge
    BY <1>1, OverlayAssumption DEF BeginOp
  <2>1. Frame
    BY DEF Write, Append, SymlinkBegin, Mkdir, Chmod, Rm, Link, Cp, Only, Begins, Starts
  <2> QED BY <2>1 DEF Frame
<1>2. ASSUME NEW o \in Ops, ContinueOp(o) PROVE merge' = merge
  BY <1>2 DEF ContinueOp, AppendEnd, MkdirEnd, UtimesRead, CopyUp, LinkCheck, LinkStat,
              LinkEnd, SymlinkEnd, RmList, RmFilter, RmDelete, RmChild, CpRead, CpWrite,
              MvRm, Step, Frame
<1>3. ASSUME NEW o \in Ops, NEW p \in Targets, ParentWrite(o, p) \/ ParentRemove(o, p)
      PROVE  merge' = merge
  BY <1>3 DEF ParentWrite, ParentRemove
<1>4. ASSUME NEW b \in Agents, Spawn(b) \/ Complete(b) \/ Snapshot(b)
      PROVE  merge' = merge
  BY <1>4 DEF Spawn, Complete, Snapshot
<1>5. ASSUME NEW b \in Agents, Restore(b) \/ MergeStart(b) \/ MergeStep(b)
      PROVE  merge'[a] = merge[a]
  <2>1. b # a
    BY <1>5 DEF MergeStart, UnderWay
  <2> QED BY <1>0, <1>5, <2>1 DEF Restore, MergeStart, MergeStep, MergeRead, MergeWrite,
                                  MergeEnd
<1> QED BY <1>1, <1>2, <1>3, <1>4, <1>5 DEF Next

\* A merge under way comes nearer to its end with each of its steps, and nothing but a
\* restore of its agent takes it back.
MergeComesNearer ==
  [][\A a \in Agents : UnderWay(a) =>
       /\ MergeStep(a) => StepsLeft(a)' < StepsLeft(a)
       /\ Restore(a) \/ StepsLeft(a)' <= StepsLeft(a)]_vars

\* The safety half of MergeEnds, for any finite set of paths: mergeAgentChanges goes over
\* a set that the agent's commands may still change, but not for ever.
THEOREM MergeGoesOn ==
  ASSUME IsFiniteSet(Paths)
  PROVE  Spec => MergeComesNearer
<1> DEFINE Nearer(a) == /\ MergeStep(a) => StepsLeft(a)' < StepsLeft(a)
                        /\ Restore(a) \/ StepsLeft(a)' <= StepsLeft(a)
<1>1. ASSUME IInv, Next, NEW a \in Agents, UnderWay(a) PROVE Nearer(a)
  <2>1. CASE MergeStep(a)
    <3>1. StepsLeft(a)' \in Nat /\ StepsLeft(a) \in Nat /\ StepsLeft(a)' < StepsLeft(a)
      BY <1>1, <2>1, MergeStepNearer
    <3>2. StepsLeft(a)' <= StepsLeft(a)
      BY <3>1
    <3> QED BY <3>1, <3>2
  <2>2. CASE ~MergeStep(a) /\ ~Restore(a)
    <3>1. merge'[a] = merge[a]
      BY <1>1, <2>2, OthersLeaveMerge
    <3>2. StepsLeft(a)' = StepsLeft(a)
      BY <3>1 DEF StepsLeft, UnderWay
    <3>3. StepsLeft(a) \in Nat
      BY StepsLeftNat DEF StepsLeft
    <3> QED BY <2>2, <3>2, <3>3
  <2>3. CASE ~MergeStep(a) /\ Restore(a)
    BY <2>3
  <2> QED BY <2>1, <2>2, <2>3
<1>2. IInv /\ [Next]_vars => [\A a \in Agents : UnderWay(a) => Nearer(a)]_vars
  BY <1>1
<1> QED BY <1>2, Invariant, PTL DEF Spec, MergeComesNearer
=============================================================================
