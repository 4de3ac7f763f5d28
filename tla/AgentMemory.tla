----------------------------- MODULE AgentMemory -----------------------------
(***************************************************************************)
(* The memory of agents and its copy in the filesystem                     *)
(* (packages/bash/src/services/AgentMemory.ts, AgentMemorySync.ts and the  *)
(* part of ServiceContainer.ts that loads and saves it): a bounded map     *)
(* that is filled from files in the background while it is being used, and *)
(* is written back when the services are disposed, for one service         *)
(* container after another, or several at once, over one filesystem.       *)
(*                                                                         *)
(* Every await is the end of a step, but for the one between the contents  *)
(* of a file of entries and its merge.  Of an entry only its identity and  *)
(* the time of its last update are kept: 0 means that there is none.       *)
(*                                                                         *)
(* A definition whose name adds a fault to that of the next one is its     *)
(* mutant: no action uses it.                                              *)
(***************************************************************************)
EXTENDS Naturals, SequencesExt, FiniteSetsExt

CONSTANTS
  Instances,          \* service containers, numbered in the order they are made
  Scopes,             \* ALL_SCOPES, in order
  Ids,                \* entries: records with a scope, a type of agent and a key
  FileOf,             \* sanitizeAgentType: the name of the file of a type of agent
  MaxEntries,
  Faults,             \* of {"read", "write", "crash", "override", "early sync", "overlap"}
  MaxTime             \* bound on the clock

Types    == {id.type : id \in Ids}
Groups   == {[scope |-> id.scope, type |-> id.type] : id \in Ids}
GroupOf(id) == [scope |-> id.scope, type |-> id.type]

ASSUME AgentMemoryAssumption ==
  /\ Scopes \in Seq({id.scope : id \in Ids})
  /\ \A id \in Ids : id.scope \in Range(Scopes)
  /\ DOMAIN FileOf = Types /\ Instances \subseteq Nat
  /\ MaxEntries \in Nat \ {0} /\ MaxTime \in Nat \ {0}

VARIABLES
  now,
  life,       \* of each container; nothing remains in memory of one that has ended
  memory,     \* the Map of each container, in its order
  hydration,  \* what loadMemoryFromFs has still to do
  saving,     \* what dispose has still to do
  syncing,    \* the syncAgentMemory in progress
  files, manifests, \* the filesystem
  promised,   \* history: the entries that a completed save has put on disk
  spoiled     \* history: a memory that was loaded in part, if at all, has been saved

fs   == <<files, manifests>>
vars == <<now, life, memory, hydration, saving, syncing, fs, promised, spoiled>>

Entry == [id : Ids, at : 1..MaxTime]
Paths == {[scope |-> g.scope, file |-> FileOf[g.type]] : g \in Groups}
PathOf(g) == [scope |-> g.scope, file |-> FileOf[g.type]]

NotSaving  == [step |-> "none", entries |-> <<>>, groups |-> {}, scopes |-> {}]
NotSyncing == [step |-> "none"]
\* missed is history: something could not be read.
NotHydrated == [step |-> "none", scopes |-> <<>>, types |-> {}, missed |-> FALSE]

TypeOK ==
  /\ now \in 1..MaxTime
  /\ life \in [Instances -> {"new", "up", "ended"}]
  /\ \A i \in Instances :
       /\ memory[i] \in Seq(Entry) /\ Len(memory[i]) <= MaxEntries
       /\ IsInjective([n \in DOMAIN memory[i] |-> memory[i][n].id])
       /\ hydration[i] \in [step : {"none", "never", "next", "manifest", "file", "done"},
                            scopes : Seq(Range(Scopes)), types : SUBSET Types,
                            missed : BOOLEAN]
       /\ saving[i].step \in {"none", "wait", "groups", "manifests"}
       /\ saving[i].entries \in Seq(Entry)
       /\ saving[i].groups \subseteq Groups /\ saving[i].scopes \subseteq Range(Scopes)
       /\ syncing[i] = NotSyncing \/ syncing[i] \in
            [step : {"file", "read", "manifest"}, group : Groups, entries : Seq(Entry),
             known : SUBSET Types]
  /\ files \in [Paths -> Seq(Entry)]
  /\ manifests \in [Range(Scopes) -> SUBSET Types]
  /\ promised \in [Ids -> 0..MaxTime] /\ spoiled \in BOOLEAN

Init ==
  /\ now = 1
  /\ life = [i \in Instances |-> "new"]
  /\ memory = [i \in Instances |-> <<>>]
  /\ hydration = [i \in Instances |-> NotHydrated]
  /\ saving = [i \in Instances |-> NotSaving]
  /\ syncing = [i \in Instances |-> NotSyncing]
  /\ files = [p \in Paths |-> <<>>] /\ manifests = [s \in Range(Scopes) |-> {}]
  /\ promised = [id \in Ids |-> 0] /\ spoiled = FALSE

-----------------------------------------------------------------------------
(***************************************************************************)
(* The map.                                                                *)
(***************************************************************************)
At(m, id) ==
  LET found == {n \in DOMAIN m : m[n].id = id}
  IN  IF found = {} THEN 0 ELSE m[CHOOSE n \in found : TRUE].at
Has(m, id) == At(m, id) > 0
KnownTypes(m) == {m[n].id.type : n \in DOMAIN m}

\* The entries of some ids, in their order.
Keep(m, ids) ==
  FoldLeft(LAMBDA acc, e : IF e.id \in ids THEN Append(acc, e) ELSE acc, <<>>, m)
Group(m, g) == Keep(m, {id \in Ids : GroupOf(id) = g})

\* write: a new entry evicts the oldest one if the map is full.
WriteOverfull(m, id, at) ==
  IF Has(m, id) THEN [n \in DOMAIN m |-> IF m[n].id = id THEN [id |-> id, at |-> at] ELSE m[n]]
  ELSE Append(IF Len(m) > MaxEntries THEN Tail(m) ELSE m, [id |-> id, at |-> at])
Write(m, id, at) ==
  IF Has(m, id) THEN [n \in DOMAIN m |-> IF m[n].id = id THEN [id |-> id, at |-> at] ELSE m[n]]
  ELSE Append(IF Len(m) >= MaxEntries THEN Tail(m) ELSE m, [id |-> id, at |-> at])

\* The entries of a file are merged into the map: newer ones win.
MergeAlways(m, entries) ==
  FoldLeft(LAMBDA acc, e : Write(acc, e.id, e.at), m, entries)
Newer(m, e) == IF e.at > At(m, e.id) THEN Write(m, e.id, e.at) ELSE m
Merge(m, entries) == FoldLeft(Newer, m, entries)

\* An entry that is evicted or deleted is no longer promised.
Becomes(i, m) ==
  /\ memory' = [memory EXCEPT ![i] = m]
  /\ promised' = [id \in Ids |-> IF Has(memory[i], id) /\ ~Has(m, id) THEN 0 ELSE promised[id]]

\* ensureAgentMemoryInstance: the first access starts the hydration.
Accessed(i) ==
  hydration' = IF hydration[i].step = "none"
               THEN [hydration EXCEPT ![i].step = "next", ![i].scopes = Scopes]
               ELSE hydration

-----------------------------------------------------------------------------
(***************************************************************************)
(* What the users of a container do.                                       *)
(***************************************************************************)
\* A memory that the host provides is never hydrated.
Start(i) ==
  /\ life[i] = "new" /\ \A j \in Instances : j < i => life[j] # "new"
  /\ "overlap" \in Faults \/ \A j \in Instances : life[j] # "up"
  /\ life' = [life EXCEPT ![i] = "up"]
  /\ \/ UNCHANGED hydration
     \/ "override" \in Faults /\ hydration' = [hydration EXCEPT ![i].step = "never"]
  /\ UNCHANGED <<now, memory, saving, syncing, fs, promised, spoiled>>

Tick ==
  /\ now < MaxTime /\ now' = now + 1
  /\ UNCHANGED <<life, memory, hydration, saving, syncing, fs, promised, spoiled>>

\* agent_memory_write and RunLoop.persistMemory, which do not wait for the hydration.
WriteEntry(i, id) ==
  /\ life[i] = "up"
  /\ Accessed(i) /\ Becomes(i, Write(memory[i], id, now))
  /\ UNCHANGED <<now, life, saving, syncing, fs, spoiled>>

DeleteEntry(i, id) ==
  /\ life[i] = "up" /\ Has(memory[i], id)
  /\ Becomes(i, Keep(memory[i], Ids \ {id}))
  /\ UNCHANGED <<now, life, hydration, saving, syncing, fs, spoiled>>

\* agent_memory_read and ensureAgentMemoryHydrated.
Access(i) ==
  /\ life[i] = "up" /\ hydration[i].step = "none" /\ Accessed(i)
  /\ UNCHANGED <<now, life, memory, saving, syncing, fs, promised, spoiled>>

-----------------------------------------------------------------------------
(***************************************************************************)
(* loadMemoryFromFs: for each scope, the files of the types of agents that *)
(* are in memory or in the manifest.                                       *)
(***************************************************************************)
ScopeTypesForgotten(i, scope) == hydration[i].types
ScopeTypes(i, scope) == hydration[i].types \cup manifests[scope]

\* The directory of a scope that nobody has written to may be missing.
Unwritten(scope) ==
  manifests[scope] = {} /\ \A p \in Paths : p.scope = scope => files[p] = <<>>
OnlyHydration == UNCHANGED <<now, life, memory, saving, syncing, fs, promised, spoiled>>

HydrateScope(i) ==
  LET todo == hydration[i].scopes
  IN  /\ life[i] = "up" /\ hydration[i].step = "next" /\ OnlyHydration
      /\ \/ todo = <<>> /\ hydration' = [hydration EXCEPT ![i].step = "done"]
         \/ /\ todo # <<>> /\ Unwritten(Head(todo))
            /\ hydration' = [hydration EXCEPT ![i].scopes = Tail(todo)]
         \/ /\ todo # <<>>
            /\ hydration' = [hydration EXCEPT ![i].step = "manifest",
                                              ![i].types = KnownTypes(memory[i])]

\* A directory that cannot be read ends the hydration, ...
HydrationFails(i) ==
  /\ "read" \in Faults /\ life[i] = "up" /\ OnlyHydration
  /\ hydration[i].step = "next" /\ hydration[i].scopes # <<>>
  /\ hydration' = [hydration EXCEPT ![i].step = "done", ![i].missed = TRUE]

\* ... it goes on without a manifest that cannot, ...
HydrateManifest(i) ==
  /\ life[i] = "up" /\ hydration[i].step = "manifest" /\ OnlyHydration
  /\ \/ hydration' = [hydration EXCEPT ![i].step = "file",
                         ![i].types = ScopeTypes(i, Head(hydration[i].scopes))]
     \/ /\ "read" \in Faults
        /\ hydration' = [hydration EXCEPT ![i].step = "file", ![i].missed = TRUE]

\* ... and a file that cannot counts as empty.
HydrateFile(i, type) ==
  LET g == [scope |-> Head(hydration[i].scopes), type |-> type]
      rest == hydration[i].types \ {type}
  IN  /\ life[i] = "up" /\ hydration[i].step = "file" /\ type \in hydration[i].types
      /\ \/ /\ g \in Groups /\ Becomes(i, Merge(memory[i], files[PathOf(g)]))
            /\ hydration' = [hydration EXCEPT ![i].types = rest]
         \/ /\ g \notin Groups /\ UNCHANGED <<memory, promised>>
            /\ hydration' = [hydration EXCEPT ![i].types = rest]
         \/ /\ "read" \in Faults /\ UNCHANGED <<memory, promised>>
            /\ hydration' = [hydration EXCEPT ![i].types = rest, ![i].missed = TRUE]
      /\ UNCHANGED <<now, life, saving, syncing, fs, spoiled>>

ScopeHydrated(i) ==
  /\ life[i] = "up" /\ hydration[i].step = "file" /\ hydration[i].types = {}
  /\ hydration' = [hydration EXCEPT ![i].step = "next", ![i].scopes = Tail(@)]
  /\ OnlyHydration

-----------------------------------------------------------------------------
(***************************************************************************)
(* dispose: waits for the hydration, then saves what the map holds by      *)
(* then, one file after another and the manifests last.                    *)
(***************************************************************************)
Ends(i) ==
  /\ life' = [life EXCEPT ![i] = "ended"]
  /\ memory' = [memory EXCEPT ![i] = <<>>]
  /\ hydration' = [hydration EXCEPT ![i] = NotHydrated]
  /\ saving' = [saving EXCEPT ![i] = NotSaving]
  /\ syncing' = [syncing EXCEPT ![i] = NotSyncing]

\* The memory lacks what a hydration might have brought.
Partial(i) == hydration[i].missed \/ hydration[i].step = "never"

Saves(i) ==
  /\ IF memory[i] = <<>>
     THEN Ends(i) /\ UNCHANGED spoiled
     ELSE /\ spoiled' = (spoiled \/ Partial(i))
          /\ saving' = [saving EXCEPT ![i] =
               [step |-> "groups", entries |-> memory[i],
                groups |-> {GroupOf(memory[i][n].id) : n \in DOMAIN memory[i]},
                scopes |-> {memory[i][n].id.scope : n \in DOMAIN memory[i]}]]
          /\ UNCHANGED <<life, memory, hydration, syncing>>
  /\ UNCHANGED <<now, fs, promised>>

Dispose(i) ==
  /\ life[i] = "up" /\ saving[i].step = "none"
  /\ "overlap" \in Faults \/ syncing[i].step = "none"
  /\ IF hydration[i].step \in {"none", "never"} THEN Saves(i)
     ELSE /\ saving' = [saving EXCEPT ![i].step = "wait"]
          /\ UNCHANGED <<now, life, memory, hydration, syncing, fs, promised, spoiled>>

WaitedForNothing(i) == TRUE
Waited(i) == hydration[i].step = "done"

SaveBegins(i) == life[i] = "up" /\ saving[i].step = "wait" /\ Waited(i) /\ Saves(i)

SaveGroup(i, g) ==
  /\ life[i] = "up" /\ saving[i].step = "groups" /\ g \in saving[i].groups
  /\ files' = [files EXCEPT ![PathOf(g)] = Group(saving[i].entries, g)]
  /\ saving' = [saving EXCEPT ![i].groups = @ \ {g},
                              ![i].step = IF saving[i].groups = {g} THEN "manifests" ELSE @]
  /\ UNCHANGED <<now, life, memory, hydration, syncing, manifests, promised, spoiled>>

\* The last manifest completes the save: what it saved and the map still holds is
\* promised.
Promised(i, entries) ==
  [id \in Ids |-> IF Has(memory[i], id) THEN Max({promised[id], At(entries, id)})
                                       ELSE promised[id]]
SaveManifest(i, scope) ==
  LET entries == saving[i].entries
      last    == saving[i].scopes = {scope}
  IN  /\ life[i] = "up" /\ saving[i].step = "manifests" /\ scope \in saving[i].scopes
      /\ manifests' = [manifests EXCEPT ![scope] =
           {entries[n].id.type : n \in {m \in DOMAIN entries : entries[m].id.scope = scope}}]
      /\ IF last
         THEN /\ Ends(i)
              /\ promised' = Promised(i, entries)
         ELSE /\ saving' = [saving EXCEPT ![i].scopes = @ \ {scope}]
              /\ UNCHANGED <<life, memory, hydration, syncing, promised>>
      /\ UNCHANGED <<now, files, spoiled>>

\* A write that fails ends the save; dispose goes on and reports it.
SaveFails(i) ==
  /\ "write" \in Faults /\ life[i] = "up" /\ saving[i].step \in {"groups", "manifests"}
  /\ Ends(i)
  /\ UNCHANGED <<now, fs, promised, spoiled>>

\* Bash.destroy does not dispose of the services.
Destroy(i) ==
  life[i] = "up" /\ Ends(i) /\ UNCHANGED <<now, fs, promised, spoiled>>
Crash(i) ==
  /\ "crash" \in Faults /\ life[i] = "up" /\ Ends(i)
  /\ UNCHANGED <<now, fs, promised, spoiled>>

-----------------------------------------------------------------------------
(***************************************************************************)
(* syncAgentMemory: the file of one type of agent, and its place in the    *)
(* manifest.                                                               *)
(***************************************************************************)
SyncEnds(i) ==
  /\ syncing' = [syncing EXCEPT ![i] = NotSyncing]
  /\ promised' = Promised(i, syncing[i].entries)
SyncBegins(i, g) ==
  /\ life[i] = "up" /\ syncing[i].step = "none"
  /\ "early sync" \in Faults \/ hydration[i].step = "done"
  /\ "overlap" \in Faults \/ saving[i].step = "none"
  /\ syncing' = [syncing EXCEPT ![i] =
       [step |-> "file", group |-> g, entries |-> Group(memory[i], g), known |-> {}]]
  /\ spoiled' = (spoiled \/ Partial(i) \/ hydration[i].step # "done")
  /\ UNCHANGED <<now, life, memory, hydration, saving, fs, promised>>

SyncFile(i) ==
  LET s == syncing[i]
  IN  /\ life[i] = "up" /\ s.step = "file"
      /\ files' = [files EXCEPT ![PathOf(s.group)] = s.entries]
      /\ syncing' = [syncing EXCEPT ![i] =
           IF s.entries = <<>> THEN NotSyncing ELSE [@ EXCEPT !.step = "read"]]
      /\ UNCHANGED <<now, life, memory, hydration, saving, manifests, promised, spoiled>>

\* A manifest that names the type already is left alone; one that cannot be read is
\* written anew.
SyncRead(i) ==
  LET s == syncing[i]
      known == manifests[s.group.scope]
      goOn(types) ==
        syncing' = [syncing EXCEPT ![i] = [s EXCEPT !.step = "manifest", !.known = types]]
  IN  /\ life[i] = "up" /\ s.step = "read"
      /\ \/ s.group.type \in known /\ SyncEnds(i) /\ UNCHANGED spoiled
         \/ s.group.type \notin known /\ goOn(known) /\ UNCHANGED <<promised, spoiled>>
         \/ "read" \in Faults /\ goOn({}) /\ spoiled' = TRUE /\ UNCHANGED promised
      /\ UNCHANGED <<now, life, memory, hydration, saving, fs>>

SyncManifest(i) ==
  LET s == syncing[i]
  IN  /\ life[i] = "up" /\ s.step = "manifest" /\ SyncEnds(i)
      /\ manifests' = [manifests EXCEPT ![s.group.scope] = s.known \cup {s.group.type}]
      /\ UNCHANGED <<now, life, memory, hydration, saving, files, spoiled>>

-----------------------------------------------------------------------------
Hydrate(i) ==
  \/ HydrateScope(i) \/ HydrationFails(i) \/ HydrateManifest(i) \/ ScopeHydrated(i)
  \/ \E t \in Types : HydrateFile(i, t)
Save(i) ==
  \/ SaveBegins(i) \/ \E g \in Groups : SaveGroup(i, g)
  \/ \E s \in Range(Scopes) : SaveManifest(i, s)
Sync(i) == SyncFile(i) \/ SyncRead(i) \/ SyncManifest(i)

Next ==
  \/ Tick
  \/ \E i \in Instances :
       \/ Start(i) \/ Access(i) \/ Hydrate(i) \/ Dispose(i) \/ Save(i) \/ SaveFails(i)
       \/ Sync(i) \/ Destroy(i) \/ Crash(i)
       \/ \E id \in Ids : WriteEntry(i, id) \/ DeleteEntry(i, id)
       \/ \E g \in Groups : SyncBegins(i, g)

Spec == Init /\ [][Next]_vars

-----------------------------------------------------------------------------
\* Recoverable: the entry is in its file, and the file is found by way of the manifest.
OnDisk(id, at) ==
  id.type \in manifests[id.scope] /\ At(files[PathOf(GroupOf(id))], id) >= at

\* dispose never saves a partially loaded memory over good data (ServiceContainer.ts):
\* what a completed save has put on disk stays there until it is deleted or evicted.
GoodDataKept == \A id \in Ids : promised[id] > 0 => OnDisk(id, promised[id])

\* It does stay, whatever later containers write, crash or fail to save, as long as none
\* saves a memory that it was given, that misses what could not be read or, by a sync,
\* one that is still being loaded.
PromisesKept == ~spoiled => GoodDataKept

\* A container that has hydrated its memory, from files that could be read, recalls all
\* that earlier ones have saved.
Recalled ==
  ~spoiled =>
    \A i \in Instances : (life[i] = "up" /\ hydration[i].step = "done" /\ ~Partial(i)) =>
      \A id \in Ids : At(memory[i], id) >= promised[id]

\* An entry in memory is never replaced by an older one, although the hydration brings
\* those of the files while the memory is being used; only in a full map may the entries
\* of a file evict it and bring back the older one.
NewerWins ==
  [][\A i \in Instances, id \in Ids :
       Has(memory[i], id) /\ Has(memory'[i], id) =>
         \/ At(memory'[i], id) >= At(memory[i], id)
         \/ hydration[i].step = "file" /\ Len(memory'[i]) = MaxEntries]_vars
=============================================================================
