---------------------------- MODULE AgentOverlays ----------------------------
(***************************************************************************)
(* Sub-agents and their file systems (packages/bash/src/fs/cow-fs.ts and   *)
(* services/AgentManager.ts).  Every agent runs on a CowFs: a local layer  *)
(* and tombstones over the parent's file system, which goes on changing.   *)
(* The paths an agent has modified are merged back on request, one file at *)
(* a time, while the agent may still be running.                           *)
(*                                                                         *)
(* An operation of the overlay is one action for each stretch of code      *)
(* between two awaits.  The contents of a file are the set of operations   *)
(* and initial files whose data it holds; modes and times are left out.    *)
(*                                                                         *)
(* A definition announced as the mutant of the next one is used by no      *)
(* action.                                                                 *)
(***************************************************************************)
EXTENDS Naturals, FiniteSets

CONSTANTS
  Agents,
  Ops,          \* operations on file systems, each performed once at most
  Paths,        \* absolute paths other than /
  Above,        \* Above[p]: the directories on the way to p, without /
  Scaffold,     \* directories that the constructor of a Bash creates
  InitialFiles, \* files of the parent at the start
  InitialDirs,  \* directories of the parent at the start
  Binary,       \* the operations and initial files whose data UTF-8 decoding and
                \* encoding do not give back: no UTF-8, or a byte order mark first
  Replaced,     \* what they are turned into
  MaxSubAgents, \* limits.maxSubAgents
  Kinds,        \* bound: the operations an instance performs, of AllKinds, ...
  Targets,      \* ... and the paths they name
  NoAgent, NoPath

AllKinds == {"write", "append", "mkdir", "mkdirp", "rm", "rmr", "rmrf",
             "chmod", "utimes", "symlink", "link", "cp", "mv"}

ASSUME OverlayAssumption ==
  /\ Above \in [Paths -> SUBSET Paths]
  /\ Scaffold \subseteq Paths
  /\ InitialFiles \cup InitialDirs \subseteq Paths
  /\ Binary \subseteq Ops \cup InitialFiles
  /\ Replaced \notin Ops \cup InitialFiles
  /\ MaxSubAgents \in Nat
  /\ Kinds \subseteq AllKinds /\ Targets \subseteq Paths
  /\ NoAgent \notin Agents /\ NoPath \notin Paths

Data    == Ops \cup InitialFiles \cup {Replaced}
Entries == [kind : {"absent", "file", "dir", "symlink"}, data : SUBSET Data]
Absent  == [kind |-> "absent", data |-> {}]
Dir     == [kind |-> "dir", data |-> {}]
Symlink == [kind |-> "symlink", data |-> {}]
File(d) == [kind |-> "file", data |-> d]

VARIABLES
  parent,   \* the parent's file system
  local,    \* CowFs.local of every agent
  deleted,  \* CowFs.deleted
  modified, \* CowFs.modifiedPaths
  saved,    \* a snapshot of the three, once one was taken
  agent,    \* SubAgent.status, "new" before spawn
  op,       \* the operations, with what they have seen across their awaits
  merge,    \* mergeAgentChanges of every agent
  steady,   \* history: the parent has not changed since the agent was spawned,
            \* but by the agent's merge
  before,   \* history: the parent when the merge began
  alone     \* history: nothing but the merge has changed the overlay or the
            \* parent since the merge began

layers == <<local, deleted, modified>>
vars == <<parent, layers, saved, agent, op, merge, steady, before, alone>>

Stages == {"new", "done", "append", "mkdir", "present", "listing", "children",
           "stat", "copied", "vacant", "read", "free", "known"}
OpStates ==
  [stage : Stages, kind : Kinds \cup {"none"}, agent : Agents \cup {NoAgent},
   path : Paths \cup {NoPath}, at : Paths \cup {NoPath}, saw : Entries,
   left : [Paths -> SUBSET Paths]]
Merges ==
  [stage : {"none", "next", "write", "done"}, at : Paths \cup {NoPath},
   got : Entries, walked : SUBSET Paths,
   merged : SUBSET Paths, conflicts : SUBSET Paths]
Layers ==
  [local : [Paths -> Entries], deleted : SUBSET Paths,
   modified : SUBSET Paths, taken : BOOLEAN]

Empty   == [p \in Paths |-> Absent]
NoLeft  == [p \in Paths |-> {}]
NewOp   == [stage |-> "new", kind |-> "none", agent |-> NoAgent,
            path |-> NoPath, at |-> NoPath, saw |-> Absent,
            left |-> NoLeft]
Done    == [NewOp EXCEPT !.stage = "done"]
NoMerge == [stage |-> "none", at |-> NoPath, got |-> Absent, walked |-> {},
            merged |-> {}, conflicts |-> {}]
NoSnapshot == [local |-> Empty, deleted |-> {}, modified |-> {}, taken |-> FALSE]

Init ==
  /\ parent = [p \in Paths |-> IF p \in InitialFiles THEN File({p})
                               ELSE IF p \in InitialDirs THEN Dir ELSE Absent]
  /\ local    = [a \in Agents |-> Empty]
  /\ deleted  = [a \in Agents |-> {}]
  /\ modified = [a \in Agents |-> {}]
  /\ saved    = [a \in Agents |-> NoSnapshot]
  /\ agent    = [a \in Agents |-> "new"]
  /\ op       = [o \in Ops |-> NewOp]
  /\ merge    = [a \in Agents |-> NoMerge]
  /\ steady   = [a \in Agents |-> TRUE]
  /\ before   = [a \in Agents |-> Empty]
  /\ alone    = [a \in Agents |-> FALSE]

-----------------------------------------------------------------------------
(***************************************************************************)
(* The overlay: what an agent sees, and how its layers change.             *)
(***************************************************************************)
\* Mutant of View: a tombstone without a local entry is overlooked.
ViewForgetsTombstones(a, p) ==
  IF local[a][p] # Absent THEN local[a][p] ELSE parent[p]

\* exists, stat and readFile decide in this order.
View(a, p) ==
  IF p \in deleted[a] THEN Absent
  ELSE IF local[a][p] # Absent THEN local[a][p] ELSE parent[p]

\* readFile and readFileBuffer throw for a directory, and for a symbolic link
\* of the overlay.
Readable(a, p) == View(a, p).kind = "file"

\* A file read as a string by the default encoding, and the string written.
Recoded(e) == File({IF x \in Binary THEN Replaced ELSE x : x \in e.data})

Children(p) == {c \in Paths : Above[c] = Above[p] \cup {p}}

\* The directory of p exists in the parent (InMemoryFs.checkParentExists).
HasDirectory(p) == \A q \in Above[p] : p \in Children(q) => parent[q] = Dir

\* ensureParentDirs, then an entry for p: directories that are missing from
\* the local layer are created there, whatever the parent has, and neither they
\* nor p stay tombstoned.
WithParents(layer, p) ==
  [q \in Paths |-> IF q \in Above[p] /\ layer[q] = Absent THEN Dir ELSE layer[q]]

\* Mutant of Put: an operation forgets modifiedPaths.add.
PutUntracked(a, p, e) ==
  /\ local' = [local EXCEPT ![a] = [WithParents(@, p) EXCEPT ![p] = e]]
  /\ deleted' = [deleted EXCEPT ![a] = @ \ (Above[p] \cup {p})]
  /\ UNCHANGED modified

Put(a, p, e) ==
  /\ local' = [local EXCEPT ![a] = [WithParents(@, p) EXCEPT ![p] = e]]
  /\ deleted' = [deleted EXCEPT ![a] = @ \ (Above[p] \cup {p})]
  /\ modified' = [modified EXCEPT ![a] = @ \cup {p}]

\* mkdir without recursive creates no parents, ...
PutBare(a, p, e) ==
  /\ local' = [local EXCEPT ![a][p] = e]
  /\ deleted' = [deleted EXCEPT ![a] = @ \ {p}]
  /\ modified' = [modified EXCEPT ![a] = @ \cup {p}]

\* ... and chmod and utimes store a copy without lifting a tombstone.
PutCopy(a, p, e) ==
  /\ local' = [local EXCEPT ![a][p] = e]
  /\ modified' = [modified EXCEPT ![a] = @ \cup {p}]
  /\ UNCHANGED deleted

Bury(a, p) ==
  /\ local' = [local EXCEPT ![a][p] = Absent]
  /\ deleted' = [deleted EXCEPT ![a] = @ \cup {p}]
  /\ modified' = [modified EXCEPT ![a] = @ \cup {p}]

Touch(a, p) ==
  /\ modified' = [modified EXCEPT ![a] = @ \cup {p}]
  /\ UNCHANGED <<local, deleted>>

-----------------------------------------------------------------------------
(***************************************************************************)
(* The operations.  Begin is the code up to the first await.               *)
(***************************************************************************)
Alone(a) == alone' = [alone EXCEPT ![a] = FALSE]
Frame == UNCHANGED <<parent, saved, agent, merge, steady, before>>

Starts(o, a, kind) ==
  /\ op[o].stage = "new" /\ kind \in Kinds /\ agent[a] # "new"
  /\ Alone(a) /\ Frame
\* ... an operation that goes on after the await, with what it has seen, ...
Begins(o, a, kind, p, q, s, e) ==
  /\ Starts(o, a, kind)
  /\ op' = [op EXCEPT ![o] = [NewOp EXCEPT !.stage = s, !.kind = kind, !.agent = a,
                                           !.path = p, !.at = q, !.saw = e]]
\* ... and one that is over, with an effect or an error.
Only(o, a, kind) == Starts(o, a, kind) /\ op' = [op EXCEPT ![o] = Done]

Goes(o, kinds, s) == op[o].stage = s /\ op[o].kind \in kinds
To(o, s, e) == op' = [op EXCEPT ![o] = [@ EXCEPT !.stage = s, !.saw = e]]
Finish(o) == op' = [op EXCEPT ![o] = Done]
Step(o) == Alone(op[o].agent) /\ Frame

Write(o, a, p) == Only(o, a, "write") /\ Put(a, p, File({o}))

\* appendFile: what cannot be read, a directory for instance, counts as empty.
Append(o, a, p) ==
  /\ Begins(o, a, "append", p, NoPath, "append",
            File(IF Readable(a, p) THEN View(a, p).data ELSE {}))
  /\ UNCHANGED layers
AppendEnd(o) ==
  /\ Goes(o, {"append"}, "append") /\ Finish(o) /\ Step(o)
  /\ Put(op[o].agent, op[o].path, File(op[o].saw.data \cup {o}))

\* mkdir looks at the local layer and the tombstones, and awaits the parent
\* only when neither decides.
Mkdir(o, a, p, kind) ==
  LET New == IF kind = "mkdirp" THEN Put(a, p, Dir) ELSE PutBare(a, p, Dir) IN
  /\ \/ /\ local[a][p] # Absent
        /\ Only(o, a, kind) /\ UNCHANGED layers
     \/ /\ local[a][p] = Absent /\ p \in deleted[a]
        /\ Only(o, a, kind) /\ New
     \/ /\ local[a][p] = Absent /\ p \notin deleted[a]
        /\ Begins(o, a, kind, p, NoPath, "mkdir", parent[p])
        /\ UNCHANGED layers
MkdirEnd(o) ==
  LET a == op[o].agent  p == op[o].path IN
  /\ Goes(o, {"mkdir", "mkdirp"}, "mkdir") /\ Step(o)
  /\ \/ /\ op[o].saw # Absent /\ Finish(o)
        /\ UNCHANGED layers
     \/ /\ op[o].saw = Absent /\ Finish(o)
        /\ IF op[o].kind = "mkdirp" THEN Put(a, p, Dir) ELSE PutBare(a, p, Dir)

\* chmod and utimes of a file of the parent copy it up; the entry itself does
\* not show the new mode or time.
Chmod(o, a, p, kind) ==
  LET here == p \notin deleted[a] /\ local[a][p] # Absent
      up   == p \notin deleted[a] /\ local[a][p] = Absent
      Fails == Only(o, a, kind) /\ UNCHANGED layers
      Reads(s, e) == Begins(o, a, kind, p, NoPath, s, e) /\ UNCHANGED layers
  IN
  /\ \/ p \in deleted[a] /\ Fails
     \/ here /\ Only(o, a, kind) /\ Touch(a, p)
     \/ up /\ parent[p] = Absent /\ Fails
     \/ up /\ parent[p] = Dir /\ kind = "chmod" /\ Fails
     \/ up /\ parent[p] = Dir /\ kind = "utimes" /\ Reads("copied", Dir)
     \/ up /\ parent[p].kind = "file" /\ kind = "chmod" /\ Reads("copied", parent[p])
     \/ up /\ parent[p].kind = "file" /\ kind = "utimes" /\ Reads("stat", Absent)
UtimesRead(o) ==
  LET e == parent[op[o].path] IN
  /\ Goes(o, {"utimes"}, "stat") /\ Step(o) /\ UNCHANGED layers
  /\ \/ e.kind = "file" /\ To(o, "copied", e)
     \/ e.kind # "file" /\ Finish(o)
CopyUp(o) ==
  /\ Goes(o, {"chmod", "utimes"}, "copied") /\ Finish(o) /\ Step(o)
  /\ PutCopy(op[o].agent, op[o].path, op[o].saw)

-----------------------------------------------------------------------------
\* symlink and link refuse a path that exists, and look only once.
Link(o, a, p, d) ==
  /\ UNCHANGED layers
  /\ \/ /\ Readable(a, p)
        /\ Begins(o, a, "link", p, d, "read", View(a, p))
     \/ ~Readable(a, p) /\ Only(o, a, "link")
LinkCheck(o) ==
  /\ Goes(o, {"link"}, "read") /\ Step(o) /\ UNCHANGED layers
  /\ IF View(op[o].agent, op[o].at) = Absent
     THEN To(o, "free", op[o].saw) ELSE Finish(o)
LinkStat(o) ==
  /\ Goes(o, {"link"}, "free") /\ Step(o) /\ UNCHANGED layers
  /\ IF View(op[o].agent, op[o].path) # Absent
     THEN To(o, "known", op[o].saw) ELSE Finish(o)
LinkEnd(o) ==
  /\ Goes(o, {"link"}, "known") /\ Finish(o) /\ Step(o)
  /\ Put(op[o].agent, op[o].at, op[o].saw)

SymlinkBegin(o, a, p) ==
  /\ IF View(a, p) = Absent
     THEN Begins(o, a, "symlink", p, NoPath, "vacant", Absent)
     ELSE Only(o, a, "symlink")
  /\ UNCHANGED layers
SymlinkEnd(o) ==
  /\ Goes(o, {"symlink"}, "vacant") /\ Finish(o) /\ Step(o)
  /\ Put(op[o].agent, op[o].path, Symlink)

-----------------------------------------------------------------------------
(***************************************************************************)
(* rm: `at` is the path of the innermost call, `left` what is left of the  *)
(* loops of the calls around it.                                           *)
(***************************************************************************)
Removals == {"rm", "rmr", "rmrf", "mv"}
Loops(o, s, p, names) ==
  op' = [op EXCEPT ![o] = [@ EXCEPT !.stage = s, !.left[p] = names]]

Rm(o, a, p, kind) ==
  /\ UNCHANGED layers
  /\ IF View(a, p) = Absent THEN Only(o, a, kind)
     ELSE Begins(o, a, kind, p, p, "present", Absent)

\* Without recursive a directory goes whether or not it is empty.  With it,
\* readdir fails for a path tombstoned meanwhile, and is begun otherwise.
RmList(o) ==
  LET a == op[o].agent  p == op[o].at
      recursive == op[o].kind # "rm"
      gone == p \in deleted[a]
      names == IF parent[p] = Dir THEN {c \in Children(p) : parent[c] # Absent} ELSE {}
  IN
  /\ Goes(o, Removals, "present") /\ Step(o)
  /\ \/ ~recursive /\ Finish(o) /\ Bury(a, p)
     \/ /\ recursive /\ UNCHANGED layers
        /\ IF gone THEN Loops(o, "children", p, {}) ELSE Loops(o, "listing", p, names)

\* The parent's names have arrived: those tombstoned by now are dropped and
\* the local ones are added.
RmFilter(o) ==
  LET a == op[o].agent  p == op[o].at IN
  /\ Goes(o, Removals, "listing") /\ Step(o) /\ UNCHANGED layers
  /\ Loops(o, "children", p, (op[o].left[p] \ deleted[a]) \cup
                               {c \in Children(p) : local[a][c] # Absent})

\* The next child.  One that has gone meanwhile makes rm throw (unless force),
\* and the handler of that error gives up the rest of the loop.
RmChild(o, c) ==
  LET a == op[o].agent  p == op[o].at IN
  /\ Goes(o, Removals, "children") /\ c \in op[o].left[p]
  /\ Step(o) /\ UNCHANGED layers
  /\ IF View(a, c) # Absent
     THEN op' = [op EXCEPT ![o] = [@ EXCEPT !.stage = "present", !.at = c,
                                            !.left[p] = op[o].left[p] \ {c}]]
     ELSE Loops(o, "children", p,
                IF op[o].kind = "rmrf" THEN op[o].left[p] \ {c} ELSE {})

RmDelete(o) ==
  LET a == op[o].agent  p == op[o].at IN
  /\ Goes(o, Removals, "children") /\ op[o].left[p] = {} /\ Step(o)
  /\ Bury(a, p)
  /\ \/ p = op[o].path /\ Finish(o)
     \/ /\ p # op[o].path
        /\ \E q \in Above[p] : p \in Children(q) /\ op' = [op EXCEPT ![o] = [@ EXCEPT !.at = q]]

-----------------------------------------------------------------------------
\* cp and mv of what is not a directory.  cp copies nothing when the source is
\* a symbolic link, and mv removes the source all the same.
Cp(o, a, p, d, kind) ==
  LET e == View(a, p) IN
  /\ e # Dir /\ p # d /\ UNCHANGED layers
  /\ \/ (e = Absent \/ (e = Symlink /\ kind = "cp")) /\ Only(o, a, kind)
     \/ e.kind = "file" /\ Begins(o, a, kind, p, d, "stat", Absent)
     \/ e = Symlink /\ kind = "mv" /\ Begins(o, a, kind, p, d, "free", Absent)
CpRead(o) ==
  LET a == op[o].agent  p == op[o].path IN
  /\ Goes(o, {"cp", "mv"}, "stat") /\ Step(o) /\ UNCHANGED layers
  /\ \/ Readable(a, p) /\ To(o, "copied", View(a, p))
     \/ ~Readable(a, p) /\ Finish(o)
CpWrite(o) ==
  /\ Goes(o, {"cp", "mv"}, "copied") /\ Step(o)
  /\ Put(op[o].agent, op[o].at, op[o].saw)
  /\ \/ op[o].kind = "cp" /\ Finish(o)
     \/ op[o].kind = "mv" /\ To(o, "free", Absent)
\* The rm of mv begins with its own look at the source.
MvRm(o) ==
  LET p == op[o].path IN
  /\ Goes(o, {"mv"}, "free") /\ Step(o) /\ UNCHANGED layers
  /\ IF View(op[o].agent, p) = Absent THEN Finish(o)
     ELSE op' = [op EXCEPT ![o] = [@ EXCEPT !.stage = "present", !.at = p]]

-----------------------------------------------------------------------------
\* snapshot and restore copy the three collections in one turn.
Snapshot(a) ==
  /\ agent[a] # "new" /\ ~saved[a].taken
  /\ saved' = [saved EXCEPT ![a] = [local |-> local[a], deleted |-> deleted[a],
                                    modified |-> modified[a], taken |-> TRUE]]
  /\ UNCHANGED <<parent, layers, agent, op, merge, steady, before, alone>>

\* A snapshot is used once, to bound the model.  clear() and add() put every path
\* behind the iterator of a merge under way, which then walks over all of them.
Restore(a) ==
  /\ saved[a].taken /\ saved' = [saved EXCEPT ![a] = NoSnapshot]
  /\ local' = [local EXCEPT ![a] = saved[a].local]
  /\ deleted' = [deleted EXCEPT ![a] = saved[a].deleted]
  /\ modified' = [modified EXCEPT ![a] = saved[a].modified]
  /\ merge' = [merge EXCEPT ![a].walked = {}]
  /\ Alone(a)
  /\ UNCHANGED <<parent, agent, op, steady, before>>

-----------------------------------------------------------------------------
(***************************************************************************)
(* The parent's own commands: files are written where a directory exists,  *)
(* files are removed.                                                      *)
(***************************************************************************)
Changed(by) ==
  /\ steady' = [a \in Agents |-> steady[a] /\ (agent[a] = "new" \/ a = by)]
  /\ UNCHANGED <<layers, saved, agent, before>>

ParentWrite(o, p) ==
  /\ op[o].stage = "new" /\ HasDirectory(p) /\ parent[p] # Dir
  /\ parent' = [parent EXCEPT ![p] = File({o})]
  /\ Finish(o)
  /\ alone' = [a \in Agents |-> FALSE]
  /\ Changed(NoAgent) /\ UNCHANGED merge
ParentRemove(o, p) ==
  /\ op[o].stage = "new" /\ parent[p].kind = "file"
  /\ parent' = [parent EXCEPT ![p] = Absent]
  /\ Finish(o)
  /\ alone' = [a \in Agents |-> FALSE]
  /\ Changed(NoAgent) /\ UNCHANGED merge

-----------------------------------------------------------------------------
(***************************************************************************)
(* AgentManager.                                                           *)
(***************************************************************************)
\* A new CowFs; the constructor of the agent's Bash makes the standard
\* directories in it (initFilesystem).
Spawn(a) ==
  /\ agent[a] = "new"
  /\ Cardinality({b \in Agents : agent[b] = "running"}) < MaxSubAgents
  /\ agent' = [agent EXCEPT ![a] = "running"]
  /\ local' = [local EXCEPT ![a] = [p \in Paths |->
                 IF \E s \in Scaffold : p \in Above[s] \cup {s} THEN Dir ELSE Absent]]
  /\ deleted' = [deleted EXCEPT ![a] = {}]
  /\ modified' = [modified EXCEPT ![a] = Scaffold]
  /\ UNCHANGED <<parent, saved, op, merge, steady, before, alone>>

\* The command of the agent ends; operations of other callers may go on.
Complete(a) ==
  /\ agent[a] = "running"
  /\ agent' = [agent EXCEPT ![a] = "completed"]
  /\ UNCHANGED <<parent, layers, saved, op, merge, steady, before, alone>>

\* mergeAgentChanges walks over the live set of modified paths: what its iterator has
\* still to yield.  An agent is merged once, to bound the model.
Ahead(a) == modified[a] \ merge[a].walked

MergeStart(a) ==
  /\ agent[a] # "new" /\ merge[a].stage = "none"
  /\ merge' = [merge EXCEPT ![a].stage = "next"]
  /\ before' = [before EXCEPT ![a] = parent]
  /\ alone' = [alone EXCEPT ![a] = TRUE]
  /\ UNCHANGED <<parent, layers, saved, agent, op, steady>>

\* Mutant of MergeRead: the version of the parent's file is taken for the
\* agent's.
MergeReadParent(a, p) ==
  /\ merge[a].stage = "next" /\ p \in Ahead(a)
  /\ IF parent[p].kind = "file"
     THEN merge' = [merge EXCEPT ![a].stage = "write", ![a].at = p,
                                 ![a].got = Recoded(parent[p]),
                                 ![a].walked = @ \cup {p}]
     ELSE merge' = [merge EXCEPT ![a].conflicts = @ \cup {p},
                                 ![a].walked = @ \cup {p}]
  /\ UNCHANGED <<parent, layers, saved, agent, op, steady, before, alone>>

\* Mutant of MergeRead: what cannot be read is not remembered.
MergeReadRetries(a, p) ==
  /\ merge[a].stage = "next" /\ p \in Ahead(a)
  /\ Readable(a, p)
  /\ merge' = [merge EXCEPT ![a].stage = "write", ![a].at = p,
                            ![a].got = Recoded(View(a, p)), ![a].walked = @ \cup {p}]
  /\ UNCHANGED <<parent, layers, saved, agent, op, steady, before, alone>>

\* A path that is no file to the agent (removed, a directory, a link) is a
\* conflict.  The contents pass through a string.
MergeRead(a, p) ==
  /\ merge[a].stage = "next" /\ p \in Ahead(a)
  /\ IF Readable(a, p)
     THEN merge' = [merge EXCEPT ![a].stage = "write", ![a].at = p,
                                 ![a].got = Recoded(View(a, p)),
                                 ![a].walked = @ \cup {p}]
     ELSE merge' = [merge EXCEPT ![a].conflicts = @ \cup {p},
                                 ![a].walked = @ \cup {p}]
  /\ UNCHANGED <<parent, layers, saved, agent, op, steady, before, alone>>

\* A path whose directory the parent lacks is a conflict as well.
MergeWrite(a) ==
  LET p == merge[a].at IN
  /\ merge[a].stage = "write"
  /\ \/ /\ HasDirectory(p)
        /\ parent' = [parent EXCEPT ![p] = merge[a].got]
        /\ merge' = [merge EXCEPT ![a] =
                       [@ EXCEPT !.stage = "next", !.at = NoPath,
                                 !.got = Absent, !.merged = merge[a].merged \cup {p}]]
        /\ alone' = [b \in Agents |-> b = a /\ alone[b]]
        /\ Changed(a) /\ UNCHANGED op
     \/ /\ ~HasDirectory(p)
        /\ merge' = [merge EXCEPT ![a] =
                       [@ EXCEPT !.stage = "next", !.at = NoPath,
                                 !.got = Absent,
                                 !.conflicts = merge[a].conflicts \cup {p}]]
        /\ UNCHANGED <<parent, layers, saved, agent, op, steady, before, alone>>

MergeEnd(a) ==
  /\ merge[a].stage = "next" /\ Ahead(a) = {}
  /\ merge' = [merge EXCEPT ![a].stage = "done", ![a].walked = {}]
  /\ UNCHANGED <<parent, layers, saved, agent, op, steady, before, alone>>

-----------------------------------------------------------------------------
BeginOp(o) ==
  /\ op[o].stage = "new"
  /\ \E a \in Agents, p \in Targets :
       \/ Write(o, a, p) \/ Append(o, a, p) \/ SymlinkBegin(o, a, p)
       \/ \E kind \in {"mkdir", "mkdirp"} : Mkdir(o, a, p, kind)
       \/ \E kind \in {"chmod", "utimes"} : Chmod(o, a, p, kind)
       \/ \E kind \in {"rm", "rmr", "rmrf"} : Rm(o, a, p, kind)
       \/ \E d \in Targets : \/ Link(o, a, p, d)
                            \/ \E kind \in {"cp", "mv"} : Cp(o, a, p, d, kind)

ContinueOp(o) ==
  /\ op[o].stage \notin {"new", "done"}
  /\ \/ AppendEnd(o) \/ MkdirEnd(o) \/ UtimesRead(o) \/ CopyUp(o)
     \/ LinkCheck(o) \/ LinkStat(o) \/ LinkEnd(o) \/ SymlinkEnd(o)
     \/ RmList(o) \/ RmFilter(o) \/ RmDelete(o) \/ \E c \in Paths : RmChild(o, c)
     \/ CpRead(o) \/ CpWrite(o) \/ MvRm(o)

MergeStep(a) == MergeWrite(a) \/ MergeEnd(a) \/ \E p \in Paths : MergeRead(a, p)

Next ==
  \/ \E o \in Ops : \/ BeginOp(o) \/ ContinueOp(o)
                    \/ \E p \in Targets : ParentWrite(o, p) \/ ParentRemove(o, p)
  \/ \E a \in Agents : \/ Spawn(a) \/ Complete(a)
                       \/ Snapshot(a) \/ Restore(a)
                       \/ MergeStart(a) \/ MergeStep(a)

Spec == Init /\ [][Next]_vars
\* Promises of the parent's file system settle, so a merge keeps running.
FairSpec == Spec /\ \A a \in Agents : WF_vars(MergeStep(a))

-----------------------------------------------------------------------------
(***************************************************************************)
(* Properties.                                                             *)
(***************************************************************************)
OpTyped(r) ==
  /\ r.stage \notin {"new", "done"} => r.agent \in Agents /\ r.path \in Paths
  /\ r.kind \in {"link", "cp", "mv"} \/ r.stage \in {"present", "listing", "children"}
       => r.at \in Paths
  /\ r.stage = "copied" \/ (r.kind = "link" /\ r.stage \in {"read", "free", "known"})
       => r.saw # Absent

\* Types.  In particular what is stored has been read: a copy under way is of
\* something, and the merge is about to write the contents of a file.
TypeOK ==
  /\ parent \in [Paths -> Entries]
  /\ local \in [Agents -> [Paths -> Entries]]
  /\ deleted \in [Agents -> SUBSET Paths]
  /\ modified \in [Agents -> SUBSET Paths]
  /\ saved \in [Agents -> Layers]
  /\ agent \in [Agents -> {"new", "running", "completed"}]
  /\ op \in [Ops -> OpStates] /\ \A o \in Ops : OpTyped(op[o])
  /\ merge \in [Agents -> Merges]
  /\ \A a \in Agents : merge[a].stage = "write" =>
                        merge[a].at \in Paths /\ merge[a].got.kind = "file"
  /\ steady \in [Agents -> BOOLEAN]
  /\ before \in [Agents -> [Paths -> Entries]]
  /\ alone \in [Agents -> BOOLEAN]

Shadows(layer, buried, changed) ==
  \A p \in changed : p \in buried \/ layer[p] # Absent

\* What an agent has modified is decided in its overlay, by a local entry or
\* by a tombstone, and never read from the parent: whichever operations overlap
\* on the path, and after a restore as well.
ModifiedShadowed ==
  \A a \in Agents :
    /\ Shadows(local[a], deleted[a], modified[a])
    /\ Shadows(saved[a].local, saved[a].deleted, saved[a].modified)

Tracks(layer, buried, changed) ==
  \A p \in Paths :
    p \in buried \/ layer[p].kind \in {"file", "symlink"} => p \in changed

\* The merge finds everything: a file or link of the overlay and a tombstone
\* is in modifiedPaths.  (Directories made on the way to a file are not.)
ChangesTracked ==
  \A a \in Agents :
    /\ Tracks(local[a], deleted[a], modified[a])
    /\ Tracks(saved[a].local, saved[a].deleted, saved[a].modified)

\* A change of the parent, by its own commands or by the merge of an agent,
\* shows through no path that an agent has modified, removed paths included.
Isolation ==
  [][parent' # parent =>
       \A a \in Agents : \A p \in modified[a] : View(a, p)' = View(a, p)]_vars

\* mergeAgentChanges, when neither the agent nor the parent does anything else
\* meanwhile: the parent then has the agent's version of every merged path (with
\* the bytes that are no UTF-8 text replaced), what it had of every other, and
\* no file of the agent was left out that the parent has a directory for.
MergePublishes ==
  \A a \in Agents : merge[a].stage = "done" /\ alone[a] =>
    /\ \A p \in Paths : parent[p] = IF p \in merge[a].merged THEN Recoded(View(a, p))
                                    ELSE before[a][p]
    /\ \A p \in modified[a] : Readable(a, p) /\ HasDirectory(p)
                               => p \in merge[a].merged

\* mergeAgentChanges returns, although the set it walks over may grow under it and a
\* restore makes it begin again, unless restores never cease.
MergeEnds ==
  \A a \in Agents : \/ []<><<Restore(a)>>_vars
                    \/ merge[a].stage = "next" ~> merge[a].stage = "done"

\* AgentConflictError, "one or more files modified by a sub-agent were also
\* modified in the parent filesystem since the agent was spawned".
ConflictMeansBothModified ==
  \A a \in Agents : merge[a].stage = "done" /\ steady[a] => merge[a].conflicts = {}
=============================================================================
