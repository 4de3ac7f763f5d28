-------------------------- MODULE AgentMemoryProofs --------------------------
(***************************************************************************)
(* Theorems about AgentMemory, for any set of entries and any number of    *)
(* service containers: the maps keep their bound and their types, a newer  *)
(* entry is replaced by an older one in a full map alone, and, for         *)
(* containers one after another, what a completed save has put on disk     *)
(* stays there and is recalled.                                            *)
(***************************************************************************)
EXTENDS AgentMemory, SequenceTheorems, WellFoundedInduction, TLAPS

\* The contents a map of a container can have at a time.
Maps(t) ==
  {m \in Seq([id : Ids, at : 1..t]) :
     Len(m) <= MaxEntries /\ \A j, k \in DOMAIN m : m[j].id = m[k].id => j = k}

Hydrations == [step : {"none", "never", "next", "manifest", "file", "done"},
               scopes : Seq(Range(Scopes)), types : SUBSET Types, missed : BOOLEAN]
Opened(h) == h.step \in {"manifest", "file"} => h.scopes # <<>>
Savings(t) == [step : {"none", "wait", "groups", "manifests"}, entries : Maps(t),
               groups : SUBSET Groups, scopes : SUBSET Range(Scopes)]
Syncings(t) == [step : {"file", "read", "manifest"}, group : Groups, entries : Maps(t),
                known : SUBSET Types]

Typed ==
  /\ now \in 1..MaxTime
  /\ life \in [Instances -> {"new", "up", "ended"}]
  /\ memory \in [Instances -> Maps(now)]
  /\ hydration \in [Instances -> Hydrations]
  /\ \A i \in Instances : Opened(hydration[i])
  /\ saving \in [Instances -> Savings(now)]
  /\ syncing \in [Instances -> {NotSyncing} \cup Syncings(now)]
  /\ files \in [Paths -> Maps(now)]
  /\ manifests \in [Range(Scopes) -> SUBSET Types]
  /\ promised \in [Ids -> 0..now]
  /\ spoiled \in BOOLEAN

-----------------------------------------------------------------------------
(***************************************************************************)
(* Containers one after another, each of which has no sync in progress     *)
(* when it is disposed; and agents whose types have files of their own.    *)
(***************************************************************************)
OneAfterAnother ==
  /\ "overlap" \notin Faults
  /\ \A t, u \in Types : FileOf[t] = FileOf[u] => t = u

Alone == \A i, j \in Instances : life[i] = "up" /\ life[j] = "up" => i = j

\* A hydration that has brought all that there is.
Whole(h) == h.step = "done" /\ ~h.missed

Orderly(i) ==
  /\ life[i] # "up" => /\ hydration[i] = NotHydrated /\ saving[i] = NotSaving
                       /\ syncing[i] = NotSyncing
  /\ hydration[i].step = "none" => memory[i] = <<>>
  /\ saving[i].step \in {"groups", "manifests"} => Whole(hydration[i])
  /\ syncing[i] # NotSyncing => Whole(hydration[i]) /\ saving[i].step = "none"

Filed == \A p \in Paths : \A n \in 1..Len(files[p]) : PathOf(GroupOf(files[p][n].id)) = p

\* A hydration that has merged the file of an entry, or found that there is none.
Loaded(h, id) ==
  /\ ~h.missed
  /\ \/ h.step = "done"
     \/ h.step \in {"next", "manifest", "file"} /\ id.scope \notin Range(h.scopes)
     \/ /\ h.step = "file" /\ id.scope = Head(h.scopes)
        /\ id.scope \notin Range(Tail(h.scopes)) /\ id.type \notin h.types
Recalls(i) == \A id \in Ids : Loaded(hydration[i], id) => At(memory[i], id) >= promised[id]

\* What is being saved is no older than what is promised, nor newer than the map.
Current(entries, i, id) ==
  /\ At(entries, id) >= promised[id]
  /\ Has(memory[i], id) => At(memory[i], id) >= At(entries, id)

SyncRight(i) ==
  syncing[i] # NotSyncing =>
    LET s == syncing[i]
    IN  /\ \A n \in 1..Len(s.entries) : GroupOf(s.entries[n].id) = s.group
        /\ \A id \in Ids : GroupOf(id) = s.group => Current(s.entries, i, id)
        /\ s.step \in {"read", "manifest"} => files[PathOf(s.group)] = s.entries
        /\ s.step = "manifest" => s.known = manifests[s.group.scope]

SaveRight(i) ==
  saving[i].step \in {"groups", "manifests"} =>
    LET s == saving[i]
    IN  /\ \A id \in Ids : Current(s.entries, i, id)
        /\ \A id \in Ids : Has(s.entries, id) =>
             \/ GroupOf(id) \in s.groups
             \/ files[PathOf(GroupOf(id))] = Group(s.entries, GroupOf(id))
        /\ \A id \in Ids : Has(s.entries, id) =>
             id.scope \in s.scopes \/ id.type \in manifests[id.scope]
        /\ s.step = "manifests" => s.groups = {}

IInv ==
  /\ Alone /\ Filed /\ GoodDataKept
  /\ \A i \in Instances : Orderly(i) /\ Recalls(i) /\ SyncRight(i) /\ SaveRight(i)

\* All of this holds until a memory that was loaded in part is saved.
Unspoilt == ~spoiled => IInv

-----------------------------------------------------------------------------
(***************************************************************************)
(* The operators of the map.                                               *)
(***************************************************************************)
LEMMA MapFacts ==
  ASSUME NEW t, NEW m \in Maps(t)
  PROVE  /\ m \in Seq([id : Ids, at : 1..t])
         /\ Len(m) \in Nat /\ Len(m) <= MaxEntries /\ DOMAIN m = 1..Len(m)
         /\ \A n \in 1..Len(m) : /\ m[n] \in [id : Ids, at : 1..t]
                                 /\ m[n].id \in Ids /\ m[n].at \in 1..t
         /\ \A j, k \in 1..Len(m) : m[j].id = m[k].id => j = k
<1>1. /\ m \in Seq([id : Ids, at : 1..t]) /\ Len(m) <= MaxEntries
      /\ \A j, k \in DOMAIN m : m[j].id = m[k].id => j = k
  BY DEF Maps
<1>2. Len(m) \in Nat /\ DOMAIN m = 1..Len(m) BY <1>1, LenProperties
<1>3. \A n \in 1..Len(m) : m[n] \in [id : Ids, at : 1..t] BY <1>1, ElementOfSeq
<1>. QED BY <1>1, <1>2, <1>3

LEMMA AMap ==
  ASSUME NEW t, NEW m \in Seq([id : Ids, at : 1..t]), Len(m) <= MaxEntries,
         \A j, k \in 1..Len(m) : m[j].id = m[k].id => j = k
  PROVE  m \in Maps(t)
<1>1. DOMAIN m = 1..Len(m) BY LenProperties
<1>. QED BY <1>1 DEF Maps

LEMMA AtFacts ==
  ASSUME NEW t \in Nat, NEW m \in Maps(t)
  PROVE  /\ \A n \in 1..Len(m) : At(m, m[n].id) = m[n].at /\ Has(m, m[n].id)
         /\ \A id : At(m, id) \in 0..t
         /\ \A id : Has(m, id) <=> At(m, id) # 0
         /\ \A id : Has(m, id) => \E n \in 1..Len(m) : m[n].id = id /\ m[n].at = At(m, id)
<1>0. /\ DOMAIN m = 1..Len(m)
      /\ \A n \in 1..Len(m) : m[n].at \in 1..t
      /\ \A j, k \in 1..Len(m) : m[j].id = m[k].id => j = k
  BY MapFacts
<1>1. ASSUME NEW id, NEW n \in 1..Len(m), m[n].id = id PROVE At(m, id) = m[n].at
  <2>1. {k \in DOMAIN m : m[k].id = id} = {n} BY <1>0, <1>1
  <2>2. (CHOOSE k \in {n} : TRUE) = n OBVIOUS
  <2>. QED BY <2>1, <2>2 DEF At
<1>2. ASSUME NEW id, \A n \in 1..Len(m) : m[n].id # id PROVE At(m, id) = 0
  <2>1. {k \in DOMAIN m : m[k].id = id} = {} BY <1>0, <1>2
  <2>. QED BY <2>1 DEF At
<1>3. \A n \in 1..Len(m) : At(m, m[n].id) = m[n].at BY <1>1
<1>4. ASSUME NEW id
      PROVE  /\ At(m, id) \in 0..t
             /\ At(m, id) # 0 => \E n \in 1..Len(m) : m[n].id = id /\ m[n].at = At(m, id)
  <2>1. CASE \E n \in 1..Len(m) : m[n].id = id
    <3>1. PICK n \in 1..Len(m) : m[n].id = id BY <2>1
    <3>2. At(m, id) = m[n].at BY <1>1, <3>1
    <3>3. m[n].at \in 0..t BY <1>0
    <3>. QED BY <3>1, <3>2, <3>3
  <2>2. CASE ~ \E n \in 1..Len(m) : m[n].id = id BY <2>2, <1>2
  <2>. QED BY <2>1, <2>2
<1>5. \A id : Has(m, id) <=> At(m, id) # 0 BY <1>4 DEF Has
<1>6. \A n \in 1..Len(m) : Has(m, m[n].id)
  <2>. TAKE n \in 1..Len(m)
  <2>1. m[n].at # 0 BY <1>0
  <2>. QED BY <1>3, <1>5, <2>1
<1>. QED BY <1>3, <1>4, <1>5, <1>6

\* An entry of the map is what the map holds of its id.
LEMMA EntryAt ==
  ASSUME NEW t \in Nat, NEW m \in Maps(t), NEW n \in 1..Len(m), NEW id, m[n].id = id
  PROVE  At(m, id) = m[n].at /\ Has(m, id)
<1>1. At(m, m[n].id) = m[n].at /\ Has(m, m[n].id) BY AtFacts
<1>. QED BY <1>1

LEMMA AtRange ==
  ASSUME NEW t \in Nat, NEW m \in Maps(t)
  PROVE  \A id : At(m, id) \in 0..t /\ (Has(m, id) <=> At(m, id) # 0)
BY AtFacts

LEMMA EntryOf ==
  ASSUME NEW t \in Nat, NEW m \in Maps(t), NEW id, Has(m, id)
  PROVE  \E n \in 1..Len(m) : m[n].id = id /\ m[n].at = At(m, id)
BY AtFacts

\* Two maps agree on an id if they hold the same entry of it, or none.
LEMMA SameAt ==
  ASSUME NEW t \in Nat, NEW m \in Maps(t), NEW w \in Maps(t), NEW id,
         \A n \in 1..Len(m) : m[n].id = id => \E k \in 1..Len(w) : w[k] = m[n],
         \A k \in 1..Len(w) : w[k].id = id => \E n \in 1..Len(m) : m[n] = w[k]
  PROVE  At(w, id) = At(m, id)
<1>1. CASE Has(m, id)
  <2>1. PICK n \in 1..Len(m) : m[n].id = id /\ m[n].at = At(m, id) BY <1>1, AtFacts
  <2>2. PICK k \in 1..Len(w) : w[k] = m[n] BY <2>1
  <2>3. At(w, w[k].id) = w[k].at BY AtFacts
  <2>. QED BY <2>1, <2>2, <2>3
<1>2. CASE ~Has(m, id)
  <2>1. \A n \in 1..Len(m) : m[n].id # id BY <1>2, AtFacts
  <2>2. \A k \in 1..Len(w) : w[k].id # id BY <2>1
  <2>3. ASSUME Has(w, id) PROVE FALSE BY <2>2, <2>3, EntryOf
  <2>4. ~Has(w, id) BY <2>3
  <2>. QED BY <1>2, <2>4, AtFacts
<1>. QED BY <1>1, <1>2

\* write, for an entry that the map has, ...
LEMMA Updated ==
  ASSUME NEW t \in Nat, NEW m \in Maps(t), NEW id \in Ids, NEW at \in 1..t, Has(m, id)
  PROVE  LET w == Write(m, id, at)
         IN  /\ w \in Maps(t) /\ Len(w) = Len(m)
             /\ \A n \in 1..Len(m) : w[n].id = m[n].id
             /\ At(w, id) = at /\ Has(w, id)
             /\ \A j \in Ids \ {id} : At(w, j) = At(m, j)
<1>. DEFINE w == Write(m, id, at)
            e == [id |-> id, at |-> at]
            E == [id : Ids, at : 1..t]
<1>0. /\ Len(m) \in Nat /\ Len(m) <= MaxEntries /\ DOMAIN m = 1..Len(m)
      /\ \A n \in 1..Len(m) : m[n] \in E
      /\ \A j, k \in 1..Len(m) : m[j].id = m[k].id => j = k
  BY MapFacts
<1>1. w = [n \in 1..Len(m) |-> IF m[n].id = id THEN e ELSE m[n]] BY <1>0 DEF Write
<1>2. e \in E OBVIOUS
<1>3. w \in [1..Len(m) -> E] BY <1>0, <1>1, <1>2
<1>4. w \in Seq(E) /\ Len(w) = Len(m)
  <2>. HIDE DEF w, E
  <2>1. Len(m) \in Nat BY <1>0
  <2>. QED BY <1>3, <2>1, SeqDef
<1>5. \A n \in 1..Len(m) : w[n].id = m[n].id BY <1>1
<1>6. w \in Maps(t) BY <1>0, <1>4, <1>5, AMap
<1>7. At(w, id) = at /\ Has(w, id)
  <2>1. PICK n \in 1..Len(m) : m[n].id = id BY EntryOf
  <2>2. w[n] = e BY <1>1, <2>1
  <2>3. n \in 1..Len(w) BY <1>4
  <2>4. w[n].id = id /\ w[n].at = at BY <2>2
  <2>. HIDE DEF w, e, E
  <2>. QED BY <1>6, <2>3, <2>4, EntryAt
<1>8. ASSUME NEW j \in Ids \ {id} PROVE At(w, j) = At(m, j)
  <2>1. \A n \in 1..Len(m) : m[n].id = j => w[n] = m[n] BY <1>1
  <2>2. \A n \in 1..Len(w) : w[n].id = j => w[n] = m[n] BY <1>1, <1>4, <1>5
  <2>. QED BY <2>1, <2>2, <1>4, <1>6, SameAt
<1>. HIDE DEF w
<1>9. QED BY <1>4, <1>5, <1>6, <1>7, <1>8 DEF w

\* ... for one that it has room for, ...
LEMMA Added ==
  ASSUME NEW t \in Nat, NEW m \in Maps(t), NEW id \in Ids, NEW at \in 1..t, ~Has(m, id),
         Len(m) < MaxEntries, MaxEntries \in Nat
  PROVE  LET w == Write(m, id, at)
         IN  /\ w \in Maps(t) /\ Len(w) = Len(m) + 1
             /\ \A n \in 1..Len(m) : w[n] = m[n]
             /\ w[Len(w)].id = id
             /\ At(w, id) = at /\ Has(w, id)
             /\ \A j \in Ids \ {id} : At(w, j) = At(m, j)
<1>. DEFINE w == Write(m, id, at)
            e == [id |-> id, at |-> at]
            E == [id : Ids, at : 1..t]
<1>0. /\ Len(m) \in Nat /\ Len(m) <= MaxEntries /\ DOMAIN m = 1..Len(m) /\ m \in Seq(E)
      /\ \A n \in 1..Len(m) : m[n] \in E /\ m[n].id \in Ids
      /\ \A j, k \in 1..Len(m) : m[j].id = m[k].id => j = k
  BY MapFacts
<1>a. ~(Len(m) >= MaxEntries) BY <1>0
<1>1. w = Append(m, e) BY <1>a DEF Write
<1>2. e \in E /\ e.id = id /\ e.at = at OBVIOUS
<1>. HIDE DEF e, E
<1>3. /\ w \in Seq(E) /\ Len(w) = Len(m) + 1 /\ w[Len(m) + 1] = e
      /\ \A n \in 1..Len(m) : w[n] = m[n]
  BY <1>0, <1>1, <1>2, AppendProperties
<1>. HIDE DEF w
<1>4. \A n \in 1..Len(m) : m[n].id # id BY AtFacts
<1>5. \A n \in 1..Len(w) : n \in 1..Len(m) \/ n = Len(m) + 1 BY <1>3, <1>0
<1>6. \A j, k \in 1..Len(w) : w[j].id = w[k].id => j = k
  BY <1>0, <1>2, <1>3, <1>4, <1>5
<1>7. w \in Maps(t)
  <2>1. Len(w) <= MaxEntries BY <1>0, <1>3
  <2>2. w \in Seq([id : Ids, at : 1..t]) BY <1>3 DEF E
  <2>. QED BY <2>1, <2>2, <1>6, AMap
<1>8. At(w, id) = at /\ Has(w, id)
  <2>1. Len(m) + 1 \in 1..Len(w) BY <1>0, <1>3
  <2>2. w[Len(m) + 1].id = id /\ w[Len(m) + 1].at = at BY <1>2, <1>3
  <2>. QED BY <2>1, <2>2, <1>7, EntryAt
<1>9. ASSUME NEW j \in Ids \ {id} PROVE At(w, j) = At(m, j)
  <2>1. \A n \in 1..Len(m) : n \in 1..Len(w) BY <1>0, <1>3
  <2>2. \A n \in 1..Len(w) : w[n].id = j => n \in 1..Len(m) BY <1>2, <1>3, <1>5
  <2>. QED BY <2>1, <2>2, <1>3, <1>7, SameAt
<1>10. w[Len(w)].id = id BY <1>2, <1>3
<1>11. QED BY <1>3, <1>7, <1>8, <1>9, <1>10 DEF w

\* ... and for one that evicts the oldest.
LEMMA Evicted ==
  ASSUME NEW t \in Nat, NEW m \in Maps(t), NEW id \in Ids, NEW at \in 1..t, ~Has(m, id),
         Len(m) >= MaxEntries, MaxEntries \in Nat \ {0}
  PROVE  LET w == Write(m, id, at)
         IN  /\ w \in Maps(t) /\ Len(m) = MaxEntries /\ Len(w) = Len(m)
             /\ \A n \in 1..Len(m) - 1 : w[n] = m[n + 1]
             /\ w[Len(w)].id = id
             /\ At(w, id) = at /\ Has(w, id)
             /\ \A j \in Ids \ {id} : j # m[1].id => At(w, j) = At(m, j)
             /\ At(w, m[1].id) = 0
<1>. DEFINE w == Write(m, id, at)
            e == [id |-> id, at |-> at]
            E == [id : Ids, at : 1..t]
<1>0. /\ Len(m) \in Nat /\ Len(m) <= MaxEntries /\ DOMAIN m = 1..Len(m) /\ m \in Seq(E)
      /\ \A n \in 1..Len(m) : m[n] \in E /\ m[n].id \in Ids
      /\ \A j, k \in 1..Len(m) : m[j].id = m[k].id => j = k
  BY MapFacts
<1>1. w = Append(Tail(m), e) BY DEF Write
<1>2. e \in E /\ e.id = id /\ e.at = at OBVIOUS
<1>. HIDE DEF e, E
<1>a. Len(m) = MaxEntries /\ Len(m) > 0
  <2>1. Len(m) \in Nat /\ Len(m) <= MaxEntries BY <1>0
  <2>. QED BY <2>1
<1>b. m # <<>> BY <1>a
<1>c. /\ Tail(m) \in Seq(E) /\ Len(Tail(m)) = Len(m) - 1
      /\ \A n \in 1..Len(Tail(m)) : Tail(m)[n] = m[n + 1]
  BY <1>0, <1>b, HeadTailProperties
<1>3. /\ w \in Seq(E) /\ Len(w) = Len(m) /\ w[Len(m)] = e
      /\ \A n \in 1..Len(m) - 1 : w[n] = m[n + 1]
  <2>1. /\ w \in Seq(E) /\ Len(w) = Len(Tail(m)) + 1 /\ w[Len(Tail(m)) + 1] = e
        /\ \A n \in 1..Len(Tail(m)) : w[n] = Tail(m)[n]
    BY <1>1, <1>2, <1>c, AppendProperties
  <2>. QED BY <2>1, <1>c, <1>0
<1>. HIDE DEF w
<1>4. \A n \in 1..Len(m) : m[n].id # id BY AtFacts
<1>5. \A n \in 1..Len(w) : (n \in 1..Len(m) - 1 /\ n + 1 \in 1..Len(m)) \/ n = Len(m)
  BY <1>3, <1>0
<1>6. \A j, k \in 1..Len(w) : w[j].id = w[k].id => j = k
  <2>. SUFFICES ASSUME NEW j \in 1..Len(w), NEW k \in 1..Len(w), w[j].id = w[k].id
                PROVE  j = k
    OBVIOUS
  <2>1. CASE j = Len(m) \/ k = Len(m) BY <2>1, <1>2, <1>3, <1>4, <1>5
  <2>2. CASE j # Len(m) /\ k # Len(m)
    <3>1. m[j + 1].id = m[k + 1].id /\ j + 1 \in 1..Len(m) /\ k + 1 \in 1..Len(m)
      BY <2>2, <1>3, <1>5
    <3>. QED BY <3>1, <1>0
  <2>. QED BY <2>1, <2>2
<1>7. w \in Maps(t) BY <1>0, <1>3, <1>6, AMap DEF E
<1>8. At(w, id) = at /\ Has(w, id)
  <2>1. Len(m) \in 1..Len(w) BY <1>a, <1>3
  <2>. QED BY <2>1, <1>2, <1>3, <1>7, AtFacts
<1>9. ASSUME NEW j \in Ids \ {id}, j # m[1].id PROVE At(w, j) = At(m, j)
  <2>1. ASSUME NEW n \in 1..Len(m), m[n].id = j PROVE \E k \in 1..Len(w) : w[k] = m[n]
    <3>1. n # 1 BY <2>1, <1>9
    <3>2. n - 1 \in 1..Len(m) - 1 /\ n - 1 \in 1..Len(w) /\ (n - 1) + 1 = n BY <3>1, <1>0, <1>3
    <3>3. w[n - 1] = m[(n - 1) + 1] BY <3>2, <1>3
    <3>. QED BY <3>2, <3>3
  <2>2. ASSUME NEW n \in 1..Len(w), w[n].id = j PROVE \E k \in 1..Len(m) : m[k] = w[n]
    BY <2>2, <1>2, <1>3, <1>5
  <2>. QED BY <2>1, <2>2, <1>7, SameAt
<1>10. At(w, m[1].id) = 0
  <2>1. 1 \in 1..Len(m) BY <1>a
  <2>2. ASSUME NEW n \in 1..Len(w) PROVE w[n].id # m[1].id
    <3>1. CASE n = Len(m) BY <3>1, <1>2, <1>3, <1>4, <2>1
    <3>2. CASE n # Len(m)
      <4>1. n + 1 \in 1..Len(m) /\ n + 1 # 1 /\ w[n] = m[n + 1] BY <3>2, <1>3, <1>5
      <4>. QED BY <4>1, <2>1, <1>0
    <3>. QED BY <3>1, <3>2
  <2>3. ASSUME Has(w, m[1].id) PROVE FALSE BY <2>2, <2>3, <1>7, EntryOf
  <2>4. ~Has(w, m[1].id) BY <2>3
  <2>. QED BY <2>4, <1>7, AtFacts
<1>11. w[Len(w)].id = id BY <1>2, <1>3
<1>12. QED BY <1>3, <1>7, <1>8, <1>9, <1>10, <1>11, <1>a DEF w

LEMMA WriteFacts ==
  ASSUME NEW t \in Nat, NEW m \in Maps(t), NEW id \in Ids, NEW at \in 1..t,
         MaxEntries \in Nat \ {0}
  PROVE  LET w == Write(m, id, at)
         IN  /\ w \in Maps(t)
             /\ At(w, id) = at /\ Has(w, id)
             /\ \A j \in Ids \ {id} :
                  At(w, j) = At(m, j) \/ (At(w, j) = 0 /\ Len(w) = MaxEntries)
<1>0. MaxEntries \in Nat OBVIOUS
<1>1. CASE Has(m, id) BY <1>1, Updated
<1>2. CASE ~Has(m, id) /\ Len(m) < MaxEntries
  <2>. DEFINE w == Write(m, id, at)
  <2>1. /\ w \in Maps(t) /\ At(w, id) = at /\ Has(w, id)
        /\ \A j \in Ids \ {id} : At(w, j) = At(m, j)
    BY <1>0, <1>2, Added
  <2>. QED BY <2>1
<1>3. CASE ~Has(m, id) /\ Len(m) >= MaxEntries
  <2>. DEFINE w == Write(m, id, at)
  <2>1. /\ w \in Maps(t) /\ At(w, id) = at /\ Has(w, id) /\ Len(w) = MaxEntries
        /\ \A j \in Ids \ {id} : j # m[1].id => At(w, j) = At(m, j)
        /\ At(w, m[1].id) = 0
    BY <1>3, Evicted
  <2>. QED BY <2>1
<1>4. Len(m) < MaxEntries \/ Len(m) >= MaxEntries BY MapFacts
<1>. QED BY <1>1, <1>2, <1>3, <1>4

-----------------------------------------------------------------------------
(***************************************************************************)
(* Folds.  FoldLeft is a function of the sets of indices, of which the     *)
(* largest is taken first: it exists, and at 1..n it has the value of the  *)
(* first n elements.                                                       *)
(***************************************************************************)
LEMMA Least ==
  ASSUME NEW T \in SUBSET Nat, T # {}
  PROVE  \E m \in T : \A k \in T : m <= k
<1>. DEFINE R == {ss \in Nat \X Nat : ss[1] < ss[2]}
<1>1. IsWellFoundedOn(R, Nat) BY NatLessThanWellFounded DEF OpToRel
<1>2. PICK m \in T : \A k \in T : ~(<<k, m>> \in R) BY <1>1, WFMin
<1>3. ASSUME NEW k \in T PROVE m <= k
  <2>1. <<k, m>> \in Nat \X Nat /\ ~(<<k, m>> \in R) BY <1>2
  <2>2. ~(k < m) BY <2>1
  <2>. QED BY <2>2
<1>. QED BY <1>3

LEMMA CountsUp ==
  ASSUME NEW N \in Nat, NEW S, 0 \in S, \A n \in 0..N - 1 : n \in S => n + 1 \in S
  PROVE  \A n \in 0..N : n \in S
<1>. DEFINE T == {n \in 0..N : n \notin S}
<1>1. SUFFICES T = {} OBVIOUS
<1>2. SUFFICES ASSUME T # {} PROVE FALSE OBVIOUS
<1>3. T \in SUBSET Nat OBVIOUS
<1>4. PICK m \in T : \A k \in T : m <= k BY <1>2, <1>3, Least
<1>5. m \in 0..N /\ m \notin S /\ m # 0 OBVIOUS
<1>6. m - 1 \in 0..N - 1 /\ m - 1 \in 0..N /\ (m - 1) + 1 = m /\ ~(m <= m - 1) BY <1>5
<1>7. m - 1 \in S BY <1>4, <1>6
<1>. QED BY <1>5, <1>6, <1>7

LEMMA MaxIn ==
  ASSUME NEW N \in Nat, NEW s \in SUBSET (1..N), s # {}
  PROVE  Max(s) \in s /\ \A k \in s : Max(s) >= k
<1>. DEFINE U == {N - k : k \in s}
<1>1. \A k \in s : N - k \in Nat OBVIOUS
<1>2. U \in SUBSET Nat BY <1>1
<1>3. U # {} OBVIOUS
<1>4. PICK u \in U : \A k \in U : u <= k BY <1>2, <1>3, Least
<1>5. PICK x \in s : u = N - x OBVIOUS
<1>6. ASSUME NEW k \in s PROVE x >= k
  <2>1. N - k \in U OBVIOUS
  <2>2. N - x <= N - k BY <1>4, <1>5, <2>1
  <2>3. x \in Int /\ k \in Int OBVIOUS
  <2>. QED BY <2>2, <2>3
<1>. QED BY <1>6 DEF Max

LEMMA MaxOfInitial ==
  ASSUME NEW n \in Nat \ {0}
  PROVE  Max(1..n) = n /\ (1..n) \ {n} = 1..n - 1
<1>2. n \in 1..n OBVIOUS
<1>0. n \in Nat /\ 1..n \in SUBSET (1..n) /\ 1..n # {} BY <1>2
<1>1. Max(1..n) \in 1..n /\ \A k \in 1..n : Max(1..n) >= k BY <1>0, MaxIn
<1>3. Max(1..n) >= n BY <1>1, <1>2
<1>. QED BY <1>1, <1>3

IsFold(H, op, base, seq, n) ==
  \A s \in SUBSET (1..n) :
    H[s] = IF s = {} THEN base ELSE op[<<H[s \ {Max(s)}], seq[Max(s)]>>]

LEMMA FoldExists ==
  ASSUME NEW A, NEW B, NEW op \in [A \X B -> A], NEW base \in A, NEW seq \in Seq(B)
  PROVE  \E H \in [SUBSET (1..Len(seq)) -> A] : IsFold(H, op, base, seq, Len(seq))
<1>. USE DEF IsFold
<1>. DEFINE Folds(H, n) == IsFold(H, op, base, seq, n)
            S == {n \in 0..Len(seq) : \E H \in [SUBSET (1..n) -> A] : Folds(H, n)}
<1>0. Len(seq) \in Nat BY LenProperties
<1>1. 0 \in S
  <2>1. [s \in SUBSET (1..0) |-> base] \in [SUBSET (1..0) -> A] OBVIOUS
  <2>2. \A s \in SUBSET (1..0) : s = {} OBVIOUS
  <2>3. Folds([s \in SUBSET (1..0) |-> base], 0) BY <2>2
  <2>4. 0 \in 0..Len(seq) BY <1>0
  <2>5. \E H \in [SUBSET (1..0) -> A] : Folds(H, 0) BY <2>1, <2>3
  <2>. HIDE DEF Folds
  <2>. QED BY <2>4, <2>5
<1>2. ASSUME NEW n \in 0..Len(seq) - 1, n \in S PROVE n + 1 \in S
  <2>1. PICK H \in [SUBSET (1..n) -> A] : Folds(H, n) BY <1>2
  <2>. DEFINE G == [s \in SUBSET (1..n + 1) |->
                      IF n + 1 \in s THEN op[<<H[s \ {n + 1}], seq[n + 1]>>] ELSE H[s]]
  <2>2. n + 1 \in 1..Len(seq) /\ n + 1 \in 0..Len(seq) BY <1>0
  <2>3. seq[n + 1] \in B BY <2>2, ElementOfSeq
  <2>4. \A s \in SUBSET (1..n + 1) : s \ {n + 1} \in SUBSET (1..n) OBVIOUS
  <2>5. \A s \in SUBSET (1..n + 1) : n + 1 \notin s => s \in SUBSET (1..n) OBVIOUS
  <2>6. \A s \in SUBSET (1..n) : H[s] \in A OBVIOUS
  <2>7. G \in [SUBSET (1..n + 1) -> A]
    <3>. SUFFICES ASSUME NEW s \in SUBSET (1..n + 1)
                  PROVE  (IF n + 1 \in s THEN op[<<H[s \ {n + 1}], seq[n + 1]>>] ELSE H[s]) \in A
      OBVIOUS
    <3>1. CASE n + 1 \in s
      <4>1. H[s \ {n + 1}] \in A BY <2>4, <2>6
      <4>. QED BY <3>1, <4>1, <2>3
    <3>2. CASE n + 1 \notin s BY <3>2, <2>5, <2>6
    <3>. QED BY <3>1, <3>2
  <2>8. Folds(G, n + 1)
    <3>. SUFFICES ASSUME NEW s \in SUBSET (1..n + 1)
                  PROVE  G[s] = IF s = {} THEN base ELSE op[<<G[s \ {Max(s)}], seq[Max(s)]>>]
      OBVIOUS
    <3>1. CASE n + 1 \in s
      <4>0. n + 1 \in Nat /\ s # {} BY <3>1
      <4>1. Max(s) \in s /\ \A k \in s : Max(s) >= k BY <4>0, MaxIn
      <4>a. Max(s) \in 1..n + 1 /\ Max(s) >= n + 1 BY <3>1, <4>1
      <4>2. Max(s) = n + 1 BY <4>a
      <4>3. s \ {n + 1} \in SUBSET (1..n + 1) /\ n + 1 \notin s \ {n + 1} OBVIOUS
      <4>4. G[s \ {n + 1}] = H[s \ {n + 1}] BY <4>3
      <4>. QED BY <3>1, <4>2, <4>4
    <3>2. CASE n + 1 \notin s
      <4>1. s \in SUBSET (1..n) BY <3>2
      <4>2. H[s] = IF s = {} THEN base ELSE op[<<H[s \ {Max(s)}], seq[Max(s)]>>] BY <4>1, <2>1
      <4>3. s \ {Max(s)} \in SUBSET (1..n + 1) /\ n + 1 \notin s \ {Max(s)} BY <3>2
      <4>4. G[s \ {Max(s)}] = H[s \ {Max(s)}] BY <4>3
      <4>5. G[s] = H[s] BY <3>2
      <4>. QED BY <4>2, <4>4, <4>5
    <3>. QED BY <3>1, <3>2
  <2>. QED BY <2>2, <2>7, <2>8
<1>3. Len(seq) \in S
  <2>. HIDE DEF S
  <2>1. \A n \in 0..Len(seq) : n \in S BY <1>0, <1>1, <1>2, CountsUp
  <2>. QED BY <2>1, <1>0
<1>. QED BY <1>3

LEMMA NewerInMaps ==
  ASSUME NEW t \in Nat, NEW m \in Maps(t), NEW e \in [id : Ids, at : 1..t],
         MaxEntries \in Nat \ {0}
  PROVE  Newer(m, e) \in Maps(t)
<1>1. e.id \in Ids /\ e.at \in 1..t OBVIOUS
<1>2. Write(m, e.id, e.at) \in Maps(t) BY <1>1, WriteFacts
<1>. QED BY <1>2 DEF Newer

\* The entries of a file are merged one after another.
LEMMA MergeSteps ==
  ASSUME NEW t \in Nat, NEW m \in Maps(t), NEW es \in Maps(t), MaxEntries \in Nat \ {0}
  PROVE  \E h \in [0..Len(es) -> Maps(t)] :
           /\ h[0] = m /\ h[Len(es)] = Merge(m, es)
           /\ \A n \in 1..Len(es) : h[n] = Newer(h[n - 1], es[n])
<1>. DEFINE E == [id : Ids, at : 1..t]
            N == Len(es)
            A == Maps(t)
            op == [x \in A \X E |-> Newer(x[1], x[2])]
            iter == CHOOSE f : f = [s \in SUBSET (1..N) |->
                                      IF s = {} THEN m
                                      ELSE Newer(f[s \ {Max(s)}], es[Max(s)])]
<1>0. es \in Seq(E) /\ N \in Nat /\ DOMAIN es = 1..N /\ \A n \in 1..N : es[n] \in E
  BY MapFacts
<1>1. Merge(m, es) = iter[1..N]
  BY <1>0 DEF Merge, FoldLeft, MapThenFoldSet
<1>2. op \in [A \X E -> A]
  <2>. HIDE DEF E, A
  <2>1. \A x \in A \X E : x[1] \in A /\ x[2] \in E OBVIOUS
  <2>2. \A x \in A \X E : Newer(x[1], x[2]) \in A BY <2>1, NewerInMaps DEF A, E
  <2>. QED BY <2>2
<1>3. PICK H \in [SUBSET (1..N) -> A] : IsFold(H, op, m, es, N)
  <2>. HIDE DEF op, A, E
  <2>1. m \in A BY DEF A
  <2>2. es \in Seq(E) BY <1>0
  <2>. QED BY <1>2, <2>1, <2>2, FoldExists
<1>4. ASSUME NEW s \in SUBSET (1..N), s # {}
      PROVE  H[s] = Newer(H[s \ {Max(s)}], es[Max(s)])
  <2>1. Max(s) \in 1..N BY <1>0, <1>4, MaxIn
  <2>2. es[Max(s)] \in E BY <2>1, <1>0
  <2>3. H[s \ {Max(s)}] \in A OBVIOUS
  <2>4. H[s] = op[<<H[s \ {Max(s)}], es[Max(s)]>>] BY <1>3, <1>4 DEF IsFold
  <2>5. \A a \in A, e \in E : op[<<a, e>>] = Newer(a, e)
    <3>. HIDE DEF A, E
    <3>. QED OBVIOUS
  <2>. QED BY <2>2, <2>3, <2>4, <2>5
<1>5. H = [s \in SUBSET (1..N) |->
             IF s = {} THEN m ELSE Newer(H[s \ {Max(s)}], es[Max(s)])]
  BY <1>3, <1>4 DEF IsFold
<1>6. iter = [s \in SUBSET (1..N) |->
                IF s = {} THEN m ELSE Newer(iter[s \ {Max(s)}], es[Max(s)])]
  BY <1>5
<1>. HIDE DEF iter
<1>. DEFINE h == [n \in 0..N |-> iter[1..n]]
<1>7. h[0] = m
  <2>1. 1..0 = {} /\ 0 \in 0..N BY <1>0
  <2>2. {} \in SUBSET (1..N) OBVIOUS
  <2>. QED BY <2>1, <2>2, <1>6
<1>8. ASSUME NEW n \in 1..N PROVE h[n] = Newer(h[n - 1], es[n])
  <2>1. n \in Nat \ {0} /\ n \in 0..N /\ n - 1 \in 0..N BY <1>0
  <2>2. 1..n \in SUBSET (1..N) /\ 1..n # {}
    <3>1. n \in 1..n BY <2>1
    <3>2. \A k \in 1..n : k \in 1..N BY <1>0
    <3>. QED BY <3>1, <3>2
  <2>3. Max(1..n) = n /\ (1..n) \ {n} = 1..n - 1 BY <2>1, MaxOfInitial
  <2>4. iter[1..n] = Newer(iter[(1..n) \ {Max(1..n)}], es[Max(1..n)]) BY <2>2, <1>6
  <2>. QED BY <2>1, <2>3, <2>4
<1>9. h \in [0..N -> A]
  <2>. DEFINE S == {n \in 0..N : h[n] \in A}
  <2>1. 0 \in S BY <1>0, <1>7
  <2>2. ASSUME NEW n \in 0..N - 1, n \in S PROVE n + 1 \in S
    <3>1. n + 1 \in 1..N /\ n + 1 \in 0..N /\ (n + 1) - 1 = n BY <1>0
    <3>2. h[n + 1] = Newer(h[n], es[n + 1]) BY <3>1, <1>8
    <3>3. h[n] \in A /\ es[n + 1] \in E BY <2>2, <3>1, <1>0
    <3>4. Newer(h[n], es[n + 1]) \in A
      <4>. HIDE DEF h
      <4>. QED BY <3>3, NewerInMaps
    <3>. QED BY <3>1, <3>2, <3>4
  <2>3. \A n \in 0..N : n \in S
    <3>. HIDE DEF S
    <3>. QED BY <2>1, <2>2, <1>0, CountsUp
  <2>. QED BY <2>3
<1>10. h[N] = Merge(m, es) BY <1>0, <1>1
<1>. QED BY <1>7, <1>8, <1>9, <1>10

\* Nor do the entries that are kept come otherwise than one after another.
KeepOne(acc, e, ids) == IF e.id \in ids THEN Append(acc, e) ELSE acc

LEMMA KeepSteps ==
  ASSUME NEW t \in Nat, NEW m \in Maps(t), NEW ids
  PROVE  \E h \in [0..Len(m) -> Seq([id : Ids, at : 1..t])] :
           /\ h[0] = <<>> /\ h[Len(m)] = Keep(m, ids)
           /\ \A n \in 1..Len(m) : h[n] = KeepOne(h[n - 1], m[n], ids)
<1>. DEFINE E == [id : Ids, at : 1..t]
            N == Len(m)
            A == Seq(E)
            op == [x \in A \X E |-> KeepOne(x[1], x[2], ids)]
            iter == CHOOSE f : f = [s \in SUBSET (1..N) |->
                                      IF s = {} THEN <<>>
                                      ELSE KeepOne(f[s \ {Max(s)}], m[Max(s)], ids)]
<1>0. m \in Seq(E) /\ N \in Nat /\ DOMAIN m = 1..N /\ \A n \in 1..N : m[n] \in E
  BY MapFacts
<1>1. Keep(m, ids) = iter[1..N]
  BY <1>0 DEF Keep, KeepOne, FoldLeft, MapThenFoldSet
<1>k. \A a \in A, e \in E : KeepOne(a, e, ids) \in A
  <2>. HIDE DEF E
  <2>. QED BY AppendProperties DEF KeepOne
<1>2. op \in [A \X E -> A]
  <2>. HIDE DEF E, A
  <2>1. \A x \in A \X E : x[1] \in A /\ x[2] \in E OBVIOUS
  <2>. QED BY <2>1, <1>k
<1>3. PICK H \in [SUBSET (1..N) -> A] : IsFold(H, op, <<>>, m, N)
  <2>1. <<>> \in A OBVIOUS
  <2>. HIDE DEF op, A, E
  <2>2. m \in Seq(E) BY <1>0
  <2>. QED BY <1>2, <2>1, <2>2, FoldExists
<1>4. ASSUME NEW s \in SUBSET (1..N), s # {}
      PROVE  H[s] = KeepOne(H[s \ {Max(s)}], m[Max(s)], ids)
  <2>1. Max(s) \in 1..N BY <1>0, <1>4, MaxIn
  <2>2. m[Max(s)] \in E BY <2>1, <1>0
  <2>3. H[s \ {Max(s)}] \in A OBVIOUS
  <2>4. H[s] = op[<<H[s \ {Max(s)}], m[Max(s)]>>] BY <1>3, <1>4 DEF IsFold
  <2>5. \A a \in A, e \in E : op[<<a, e>>] = KeepOne(a, e, ids)
    <3>. HIDE DEF A, E
    <3>. QED OBVIOUS
  <2>. QED BY <2>2, <2>3, <2>4, <2>5
<1>5. H = [s \in SUBSET (1..N) |->
             IF s = {} THEN <<>> ELSE KeepOne(H[s \ {Max(s)}], m[Max(s)], ids)]
  BY <1>3, <1>4 DEF IsFold
<1>6. iter = [s \in SUBSET (1..N) |->
                IF s = {} THEN <<>> ELSE KeepOne(iter[s \ {Max(s)}], m[Max(s)], ids)]
  BY <1>5
<1>. HIDE DEF iter
<1>. DEFINE h == [n \in 0..N |-> iter[1..n]]
<1>7. h[0] = <<>>
  <2>1. 1..0 = {} /\ 0 \in 0..N BY <1>0
  <2>2. {} \in SUBSET (1..N) OBVIOUS
  <2>. QED BY <2>1, <2>2, <1>6
<1>8. ASSUME NEW n \in 1..N PROVE h[n] = KeepOne(h[n - 1], m[n], ids)
  <2>1. n \in Nat \ {0} /\ n \in 0..N /\ n - 1 \in 0..N BY <1>0
  <2>2. 1..n \in SUBSET (1..N) /\ 1..n # {}
    <3>1. n \in 1..n BY <2>1
    <3>2. \A k \in 1..n : k \in 1..N BY <1>0
    <3>. QED BY <3>1, <3>2
  <2>3. Max(1..n) = n /\ (1..n) \ {n} = 1..n - 1 BY <2>1, MaxOfInitial
  <2>4. iter[1..n] = KeepOne(iter[(1..n) \ {Max(1..n)}], m[Max(1..n)], ids) BY <2>2, <1>6
  <2>. QED BY <2>1, <2>3, <2>4
<1>9. h \in [0..N -> A]
  <2>. DEFINE S == {n \in 0..N : h[n] \in A}
  <2>1. 0 \in S
    <3>1. <<>> \in A /\ 0 \in 0..N BY <1>0, EmptySeq
    <3>. HIDE DEF A, h
    <3>. QED BY <3>1, <1>7
  <2>2. ASSUME NEW n \in 0..N - 1, n \in S PROVE n + 1 \in S
    <3>1. n + 1 \in 1..N /\ n + 1 \in 0..N /\ (n + 1) - 1 = n BY <1>0
    <3>2. h[n + 1] = KeepOne(h[n], m[n + 1], ids) BY <3>1, <1>8
    <3>3. h[n] \in A /\ m[n + 1] \in E BY <2>2, <3>1, <1>0
    <3>4. KeepOne(h[n], m[n + 1], ids) \in A
      <4>. HIDE DEF h, A, E
      <4>. QED BY <3>3, <1>k
    <3>. QED BY <3>1, <3>2, <3>4
  <2>3. \A n \in 0..N : n \in S
    <3>. HIDE DEF S
    <3>. QED BY <2>1, <2>2, <1>0, CountsUp
  <2>. QED BY <2>3
<1>10. h[N] = Keep(m, ids) BY <1>0, <1>1
<1>. QED BY <1>7, <1>8, <1>9, <1>10

\* What is kept of a map is a map of the entries with the ids.
LEMMA KeepFacts ==
  ASSUME NEW t \in Nat, NEW m \in Maps(t), NEW ids, MaxEntries \in Nat
  PROVE  /\ Keep(m, ids) \in Maps(t)
         /\ \A n \in 1..Len(Keep(m, ids)) : Keep(m, ids)[n].id \in ids
         /\ \A id \in ids : At(Keep(m, ids), id) = At(m, id)
         /\ \A id : id \notin ids => At(Keep(m, ids), id) = 0
<1>. DEFINE E == [id : Ids, at : 1..t]
            N == Len(m)
<1>0. /\ N \in Nat /\ N <= MaxEntries /\ \A n \in 1..N : m[n] \in E
      /\ \A j, k \in 1..N : m[j].id = m[k].id => j = k
  BY MapFacts
<1>1. PICK h \in [0..N -> Seq(E)] :
        /\ h[0] = <<>> /\ h[N] = Keep(m, ids)
        /\ \A n \in 1..N : h[n] = KeepOne(h[n - 1], m[n], ids)
  BY KeepSteps
<1>. DEFINE Kept(n) ==
              /\ Len(h[n]) <= n
              /\ \A k \in 1..n : m[k].id \in ids => \E j \in 1..Len(h[n]) : h[n][j] = m[k]
              /\ \A j \in 1..Len(h[n]) : \E k \in 1..n : h[n][j] = m[k] /\ m[k].id \in ids
              /\ \A j, k \in 1..Len(h[n]) : h[n][j].id = h[n][k].id => j = k
            S == {n \in 0..N : Kept(n)}
<1>2. 0 \in S
  <2>1. Len(h[0]) = 0 BY <1>1
  <2>. QED BY <2>1, <1>0
<1>3. ASSUME NEW n \in 0..N - 1, n \in S PROVE n + 1 \in S
  <2>. DEFINE a == h[n]
              b == h[n + 1]
              e == m[n + 1]
  <2>1. n \in Nat /\ n + 1 \in 1..N /\ n + 1 \in 0..N /\ n \in 0..N /\ (n + 1) - 1 = n BY <1>0
  <2>2. a \in Seq(E) /\ e \in E /\ b = KeepOne(a, e, ids) BY <2>1, <1>0, <1>1
  <2>3. Kept(n) BY <1>3
  <2>4. Len(a) \in Nat BY <2>2, LenProperties
  <2>5. \A k \in 1..n + 1 : k \in 1..n \/ k = n + 1 BY <2>1
  <2>6. \A k \in 1..n : k \in 1..n + 1 /\ k \in 1..N /\ k # n + 1 BY <2>1, <1>0
  <2>7. CASE e.id \notin ids
    <3>1. b = a BY <2>2, <2>7 DEF KeepOne
    <3>2. Len(b) <= n + 1 BY <2>1, <2>3, <2>4, <3>1
    <3>3. ASSUME NEW k \in 1..n + 1, m[k].id \in ids PROVE \E j \in 1..Len(b) : b[j] = m[k]
      <4>1. k \in 1..n BY <2>5, <2>7, <3>3
      <4>2. \E j \in 1..Len(a) : a[j] = m[k] BY <2>3, <3>3, <4>1
      <4>. QED BY <3>1, <4>2
    <3>4. ASSUME NEW j \in 1..Len(b)
          PROVE  \E k \in 1..n + 1 : b[j] = m[k] /\ m[k].id \in ids
      <4>1. PICK k \in 1..n : a[j] = m[k] /\ m[k].id \in ids BY <2>3, <3>1
      <4>2. k \in 1..n + 1 BY <2>6
      <4>. QED BY <3>1, <4>1, <4>2
    <3>5. \A j, k \in 1..Len(b) : b[j].id = b[k].id => j = k BY <2>3, <3>1
    <3>. QED BY <2>1, <3>2, <3>3, <3>4, <3>5
  <2>8. CASE e.id \in ids
    <3>0. b = Append(a, e) BY <2>2, <2>8 DEF KeepOne
    <3>1. /\ Len(b) = Len(a) + 1 /\ b[Len(a) + 1] = e
          /\ \A j \in 1..Len(a) : b[j] = a[j]
      <4>. HIDE DEF a, b, e, E
      <4>. QED BY <2>2, <3>0, AppendProperties
    <3>2. Len(b) <= n + 1 BY <2>1, <2>3, <2>4, <3>1
    <3>j. /\ \A j \in 1..Len(b) : j \in 1..Len(a) \/ j = Len(a) + 1
          /\ \A j \in 1..Len(a) : j \in 1..Len(b)
          /\ Len(a) + 1 \in 1..Len(b)
      BY <2>4, <3>1
    <3>3. ASSUME NEW k \in 1..n + 1, m[k].id \in ids PROVE \E j \in 1..Len(b) : b[j] = m[k]
      <4>1. CASE k = n + 1 BY <4>1, <3>1, <3>j
      <4>2. CASE k \in 1..n
        <5>1. PICK j \in 1..Len(a) : a[j] = m[k] BY <4>2, <3>3, <2>3
        <5>. QED BY <5>1, <3>1, <3>j
      <4>. QED BY <4>1, <4>2, <2>5
    <3>4. ASSUME NEW j \in 1..Len(b)
          PROVE  \E k \in 1..n + 1 : b[j] = m[k] /\ m[k].id \in ids
      <4>1. CASE j = Len(a) + 1
        <5>1. n + 1 \in 1..n + 1 BY <2>1
        <5>. QED BY <5>1, <4>1, <3>1, <2>8
      <4>2. CASE j \in 1..Len(a)
        <5>1. PICK k \in 1..n : a[j] = m[k] /\ m[k].id \in ids BY <4>2, <2>3
        <5>. QED BY <5>1, <4>2, <3>1, <2>6
      <4>. QED BY <4>1, <4>2, <3>j
    <3>5. ASSUME NEW j \in 1..Len(a) PROVE b[j].id # e.id
      <4>1. PICK k \in 1..n : a[j] = m[k] BY <2>3
      <4>2. m[k].id # m[n + 1].id BY <2>1, <2>6, <1>0
      <4>. QED BY <4>1, <4>2, <3>1
    <3>6. ASSUME NEW j \in 1..Len(b), NEW k \in 1..Len(b), b[j].id = b[k].id
          PROVE  j = k
      <4>. HIDE DEF a, b, e
      <4>1. j \in 1..Len(a) => k \in 1..Len(a) BY <3>1, <3>j, <3>5, <3>6
      <4>2. k \in 1..Len(a) => j \in 1..Len(a) BY <3>1, <3>j, <3>5, <3>6
      <4>3. CASE j \in 1..Len(a) /\ k \in 1..Len(a)
        <5>1. \A x, y \in 1..Len(a) : a[x].id = a[y].id => x = y BY <2>3 DEF a
        <5>. QED BY <5>1, <4>3, <3>1, <3>6
      <4>4. CASE j = Len(a) + 1 /\ k = Len(a) + 1 BY <4>4
      <4>. QED BY <4>1, <4>2, <4>3, <4>4, <3>j
    <3>. QED BY <2>1, <3>2, <3>3, <3>4, <3>6
  <2>. QED BY <2>7, <2>8
<1>4. Kept(N)
  <2>1. \A n \in 0..N : n \in S
    <3>. HIDE DEF S
    <3>. QED BY <1>0, <1>2, <1>3, CountsUp
  <2>2. N \in 0..N BY <1>0
  <2>3. N \in S BY <2>1, <2>2
  <2>. HIDE DEF Kept
  <2>. QED BY <2>3
<1>. DEFINE w == Keep(m, ids)
<1>5. /\ w \in Seq(E) /\ Len(w) <= N
      /\ \A k \in 1..N : m[k].id \in ids => \E j \in 1..Len(w) : w[j] = m[k]
      /\ \A j \in 1..Len(w) : \E k \in 1..N : w[j] = m[k] /\ m[k].id \in ids
      /\ \A j, k \in 1..Len(w) : w[j].id = w[k].id => j = k
  <2>0. N \in 0..N BY <1>0
  <2>1. h[N] \in Seq(E) BY <2>0
  <2>. QED BY <2>1, <1>1, <1>4
<1>. HIDE DEF w
<1>6. w \in Maps(t)
  <2>1. Len(w) \in Nat BY <1>5, LenProperties
  <2>2. Len(w) <= MaxEntries BY <2>1, <1>0, <1>5
  <2>. QED BY <2>2, <1>5, AMap
<1>7. \A n \in 1..Len(w) : w[n].id \in ids BY <1>5
<1>8. ASSUME NEW id \in ids PROVE At(w, id) = At(m, id)
  <2>1. \A n \in 1..Len(m) : m[n].id = id => \E k \in 1..Len(w) : w[k] = m[n] BY <1>5
  <2>2. \A k \in 1..Len(w) : w[k].id = id => \E n \in 1..Len(m) : m[n] = w[k] BY <1>5
  <2>. QED BY <2>1, <2>2, <1>6, SameAt
<1>9. ASSUME NEW id, id \notin ids PROVE At(w, id) = 0
  <2>1. ASSUME Has(w, id) PROVE FALSE
    <3>1. PICK n \in 1..Len(w) : w[n].id = id BY <2>1, <1>6, EntryOf
    <3>. QED BY <3>1, <1>7, <1>9
  <2>. QED BY <2>1, <1>6, AtFacts
<1>. QED BY <1>6, <1>7, <1>8, <1>9 DEF w

-----------------------------------------------------------------------------
(***************************************************************************)
(* What a merge does.                                                      *)
(***************************************************************************)
LEMMA NewerFacts ==
  ASSUME NEW t \in Nat, NEW m \in Maps(t), NEW e \in [id : Ids, at : 1..t],
         MaxEntries \in Nat \ {0}
  PROVE  LET w == Newer(m, e)
         IN  /\ w \in Maps(t) /\ Has(w, e.id)
             /\ At(w, e.id) >= e.at /\ At(w, e.id) >= At(m, e.id)
             /\ \A j \in Ids \ {e.id} :
                  At(w, j) = At(m, j) \/ (At(w, j) = 0 /\ Len(w) = MaxEntries)
             /\ Len(m) = MaxEntries => Len(w) = MaxEntries
             /\ \A p \in 1..Len(m) : p > 1 \/ Len(m) < MaxEntries =>
                  \E q \in 1..Len(w) : w[q].id = m[p].id /\ Len(w) - q <= Len(m) - p + 1
             /\ ~Has(m, e.id) => Len(w) \in 1..Len(w) /\ w[Len(w)].id = e.id
<1>. DEFINE w == Newer(m, e)
<1>0. /\ e.id \in Ids /\ e.at \in 1..t /\ MaxEntries \in Nat
      /\ Len(m) \in Nat /\ Len(m) <= MaxEntries
      /\ At(m, e.id) \in 0..t /\ (Has(m, e.id) <=> At(m, e.id) # 0)
  BY MapFacts, AtFacts
<1>1. CASE ~(e.at > At(m, e.id))
  <2>1. w = m BY <1>1 DEF Newer
  <2>2. At(m, e.id) >= e.at /\ At(m, e.id) # 0 /\ At(m, e.id) >= At(m, e.id) BY <1>0, <1>1
  <2>3. \A p \in 1..Len(m) : Len(m) - p <= Len(m) - p + 1 BY <1>0
  <2>4. Has(m, e.id) BY <1>0, <2>2
  <2>. QED BY <2>1, <2>2, <2>3, <2>4
<1>2. CASE e.at > At(m, e.id)
  <2>1. w = Write(m, e.id, e.at) BY <1>2 DEF Newer
  <2>2. /\ w \in Maps(t) /\ At(w, e.id) = e.at /\ Has(w, e.id)
        /\ \A j \in Ids \ {e.id} :
             At(w, j) = At(m, j) \/ (At(w, j) = 0 /\ Len(w) = MaxEntries)
    BY <1>0, <2>1, WriteFacts
  <2>3. At(w, e.id) >= e.at /\ At(w, e.id) >= At(m, e.id) BY <2>2, <1>0, <1>2
  <2>a. Len(w) \in Nat BY <2>2, MapFacts
  <2>4. CASE Has(m, e.id)
    <3>1. Len(w) = Len(m) /\ \A n \in 1..Len(m) : w[n].id = m[n].id
      BY <1>0, <2>1, <2>4, Updated
    <3>2. ASSUME NEW p \in 1..Len(m)
          PROVE  p \in 1..Len(w) /\ w[p].id = m[p].id /\ Len(w) - p <= Len(m) - p + 1
      BY <3>1, <1>0
    <3>. HIDE DEF w
    <3>. QED BY <2>2, <2>3, <2>4, <3>1, <3>2 DEF w
  <2>5. CASE ~Has(m, e.id) /\ Len(m) < MaxEntries
    <3>1. /\ Len(w) = Len(m) + 1 /\ w[Len(w)].id = e.id
          /\ \A n \in 1..Len(m) : w[n] = m[n]
      BY <1>0, <2>1, <2>5, Added
    <3>2. ASSUME NEW p \in 1..Len(m)
          PROVE  p \in 1..Len(w) /\ w[p].id = m[p].id /\ Len(w) - p <= Len(m) - p + 1
      BY <3>1, <1>0
    <3>3. Len(w) \in 1..Len(w) /\ ~(Len(m) = MaxEntries) BY <3>1, <1>0, <2>5
    <3>. HIDE DEF w
    <3>. QED BY <2>2, <2>3, <2>5, <3>1, <3>2, <3>3 DEF w
  <2>6. CASE ~Has(m, e.id) /\ Len(m) >= MaxEntries
    <3>1. /\ Len(m) = MaxEntries /\ Len(w) = Len(m) /\ w[Len(w)].id = e.id
          /\ \A n \in 1..Len(m) - 1 : w[n] = m[n + 1]
      BY <1>0, <2>1, <2>6, Evicted
    <3>2. ASSUME NEW p \in 1..Len(m), p > 1
          PROVE  \E q \in 1..Len(w) : w[q].id = m[p].id /\ Len(w) - q <= Len(m) - p + 1
      <4>1. /\ p - 1 \in 1..Len(m) - 1 /\ p - 1 \in 1..Len(w) /\ (p - 1) + 1 = p
            /\ Len(w) - (p - 1) <= Len(m) - p + 1
        BY <3>1, <3>2, <1>0
      <4>2. w[p - 1] = m[(p - 1) + 1] BY <4>1, <3>1
      <4>. QED BY <4>1, <4>2
    <3>3. Len(w) \in 1..Len(w) /\ ~(Len(m) < MaxEntries) BY <3>1, <1>0
    <3>. HIDE DEF w
    <3>. QED BY <2>2, <2>3, <2>6, <3>1, <3>2, <3>3 DEF w
  <2>. QED BY <2>4, <2>5, <2>6, <1>0
<1>. QED BY <1>1, <1>2, <1>0

\* A file fits into the map, so that none of its entries evicts another one of them that
\* was not in the map before; and only a full map loses entries.
LEMMA MergeFacts ==
  ASSUME NEW t \in Nat, NEW m \in Maps(t), NEW es \in Maps(t), MaxEntries \in Nat \ {0}
  PROVE  LET w == Merge(m, es)
         IN  /\ w \in Maps(t)
             /\ \A id \in Ids : Has(es, id) /\ Has(w, id) => At(w, id) >= At(es, id)
             /\ \A id \in Ids : Has(es, id) /\ ~Has(m, id) => Has(w, id)
             /\ \A id \in Ids : ~Has(es, id) => At(w, id) = 0 \/ At(w, id) = At(m, id)
             /\ Len(w) = MaxEntries \/ \A id \in Ids : At(w, id) >= At(m, id)
<1>. DEFINE E == [id : Ids, at : 1..t]
            N == Len(es)
<1>0. /\ N \in Nat /\ N <= MaxEntries
      /\ \A n \in 1..N : es[n] \in E /\ es[n].id \in Ids /\ es[n].at \in 1..t
      /\ \A j, k \in 1..N : es[j].id = es[k].id => j = k
  BY MapFacts
<1>1. PICK h \in [0..N -> Maps(t)] :
        /\ h[0] = m /\ h[N] = Merge(m, es)
        /\ \A n \in 1..N : h[n] = Newer(h[n - 1], es[n])
  BY MergeSteps
<1>. DEFINE Come(n) == \A id \in Ids : Has(h[n], id) =>
                         Has(m, id) \/ \E k \in 1..n : es[k].id = id
            New(n)  == \A k \in 1..n : Has(h[n], es[k].id) =>
                         At(h[n], es[k].id) >= es[k].at
            Late(n) == \A k \in 1..n : ~Has(m, es[k].id) =>
                         \E p \in 1..Len(h[n]) :
                           h[n][p].id = es[k].id /\ Len(h[n]) - p <= n - k
            Old(n)  == \A id \in Ids : (\A k \in 1..n : es[k].id # id) =>
                         At(h[n], id) = 0 \/ At(h[n], id) = At(m, id)
            Full(n) == Len(h[n]) = MaxEntries \/ \A id \in Ids : At(h[n], id) >= At(m, id)
            S == {n \in 0..N : Come(n) /\ New(n) /\ Late(n) /\ Old(n) /\ Full(n)}
<1>2. 0 \in S
  <2>1. 0 \in 0..N /\ 1..0 = {} BY <1>0
  <2>2. \A id \in Ids : At(m, id) \in 0..t BY AtFacts
  <2>3. Full(0) BY <1>1, <2>2
  <2>4. Come(0) /\ New(0) /\ Late(0) /\ Old(0) BY <1>1, <2>1
  <2>. QED BY <2>1, <2>3, <2>4
<1>3. ASSUME NEW n \in 0..N - 1, n \in S PROVE n + 1 \in S
  <2>. DEFINE a == h[n]
              e == es[n + 1]
              w == Newer(a, e)
  <2>1. /\ n \in Nat /\ n + 1 \in 1..N /\ n + 1 \in 0..N /\ n \in 0..N /\ (n + 1) - 1 = n
        /\ \A k \in 1..n + 1 : k \in 1..n \/ k = n + 1
        /\ \A k \in 1..n : k \in 1..n + 1 /\ k \in 1..N /\ k # n + 1
        /\ n + 1 \in 1..n + 1
    BY <1>0
  <2>2. /\ a \in Maps(t) /\ w \in Maps(t) /\ h[n + 1] = w
        /\ e \in E /\ e.id \in Ids /\ e.at \in 1..t
    <3>1. e \in E /\ e.id \in Ids /\ e.at \in 1..t BY <2>1, <1>0
    <3>2. h[n + 1] = Newer(h[(n + 1) - 1], es[n + 1]) BY <2>1, <1>1
    <3>3. h[n + 1] = w BY <3>2, <2>1
    <3>4. h[n] \in Maps(t) /\ h[n + 1] \in Maps(t) BY <2>1, <1>1
    <3>. QED BY <3>1, <3>3, <3>4
  <2>3. Come(n) /\ New(n) /\ Late(n) /\ Old(n) /\ Full(n) BY <1>3
  <2>4. /\ Has(w, e.id) /\ At(w, e.id) >= e.at /\ At(w, e.id) >= At(a, e.id)
        /\ \A j \in Ids \ {e.id} :
             At(w, j) = At(a, j) \/ (At(w, j) = 0 /\ Len(w) = MaxEntries)
        /\ Len(a) = MaxEntries => Len(w) = MaxEntries
        /\ \A p \in 1..Len(a) : p > 1 \/ Len(a) < MaxEntries =>
             \E q \in 1..Len(w) : w[q].id = a[p].id /\ Len(w) - q <= Len(a) - p + 1
        /\ ~Has(a, e.id) => Len(w) \in 1..Len(w) /\ w[Len(w)].id = e.id
    <3>. HIDE DEF a, e
    <3>. QED BY <2>2, NewerFacts
  <2>5. /\ Len(a) \in Nat /\ Len(a) <= MaxEntries /\ Len(w) \in Nat
        /\ \A id : At(a, id) \in 0..t /\ (Has(a, id) <=> At(a, id) # 0)
        /\ \A id : At(w, id) \in 0..t /\ (Has(w, id) <=> At(w, id) # 0)
        /\ \A id : At(m, id) \in 0..t
    <3>. HIDE DEF a, w, e
    <3>1. a \in Maps(t) /\ w \in Maps(t) BY <2>2
    <3>2. Len(a) \in Nat /\ Len(a) <= MaxEntries BY <3>1, MapFacts
    <3>3. Len(w) \in Nat BY <3>1, MapFacts
    <3>4. \A id : At(a, id) \in 0..t /\ (Has(a, id) <=> At(a, id) # 0) BY <3>1, AtRange
    <3>5. \A id : At(w, id) \in 0..t /\ (Has(w, id) <=> At(w, id) # 0) BY <3>1, AtRange
    <3>6. \A id : At(m, id) \in 0..t BY AtRange
    <3>. QED BY <3>2, <3>3, <3>4, <3>5, <3>6
  <2>6. \A k \in 1..n : es[k].id # e.id /\ es[k].id \in Ids /\ es[k].at \in 1..t
    BY <2>1, <1>0
  <2>. HIDE DEF w
  <2>7. Come(n + 1)
    <3>. SUFFICES ASSUME NEW id \in Ids, Has(w, id), ~Has(m, id)
                  PROVE  \E k \in 1..n + 1 : es[k].id = id
      BY <2>2
    <3>1. CASE id = e.id BY <3>1, <2>1
    <3>2. CASE id # e.id
      <4>1. Has(a, id) BY <3>2, <2>4, <2>5
      <4>2. PICK k \in 1..n : es[k].id = id BY <4>1, <2>3
      <4>. QED BY <4>2, <2>1
    <3>. QED BY <3>1, <3>2
  <2>8. New(n + 1)
    <3>. SUFFICES ASSUME NEW k \in 1..n + 1, Has(w, es[k].id)
                  PROVE  At(w, es[k].id) >= es[k].at
      BY <2>2
    <3>1. CASE k = n + 1 BY <3>1, <2>4
    <3>2. CASE k \in 1..n
      <4>1. At(w, es[k].id) = At(a, es[k].id) /\ Has(a, es[k].id)
        BY <3>2, <2>4, <2>5, <2>6
      <4>. QED BY <3>2, <4>1, <2>3
    <3>. QED BY <3>1, <3>2, <2>1
  <2>9. Late(n + 1)
    <3>. SUFFICES ASSUME NEW k \in 1..n + 1, ~Has(m, es[k].id)
                  PROVE  \E q \in 1..Len(w) : w[q].id = es[k].id /\ Len(w) - q <= (n + 1) - k
      BY <2>2
    <3>1. CASE k = n + 1
      <4>1. ~Has(a, e.id)
        <5>1. \A j \in 1..n : es[j].id # e.id BY <2>6
        <5>. QED BY <5>1, <3>1, <2>2, <2>3
      <4>2. Len(w) - Len(w) <= (n + 1) - k BY <3>1, <2>1, <2>5
      <4>. QED BY <3>1, <4>1, <4>2, <2>4
    <3>2. CASE k \in 1..n
      <4>1. PICK p \in 1..Len(a) : a[p].id = es[k].id /\ Len(a) - p <= n - k BY <3>2, <2>3
      <4>2. p > 1 \/ Len(a) < MaxEntries BY <4>1, <3>2, <2>1, <2>5, <1>0
      <4>3. PICK q \in 1..Len(w) : w[q].id = a[p].id /\ Len(w) - q <= Len(a) - p + 1
        BY <4>2, <2>4
      <4>4. Len(w) - q <= (n + 1) - k
        <5>1. q \in Int /\ p \in Int /\ k \in Int OBVIOUS
        <5>. QED BY <5>1, <4>1, <4>3, <2>1, <2>5
      <4>. QED BY <4>1, <4>3, <4>4
    <3>. QED BY <3>1, <3>2, <2>1
  <2>10. Old(n + 1)
    <3>. SUFFICES ASSUME NEW id \in Ids, \A k \in 1..n + 1 : es[k].id # id
                  PROVE  At(w, id) = 0 \/ At(w, id) = At(m, id)
      BY <2>2
    <3>1. id # e.id /\ \A k \in 1..n : es[k].id # id BY <2>1
    <3>2. At(a, id) = 0 \/ At(a, id) = At(m, id) BY <3>1, <2>3
    <3>. QED BY <3>1, <3>2, <2>4
  <2>11. Full(n + 1)
    <3>. SUFFICES ASSUME Len(w) # MaxEntries, NEW id \in Ids PROVE At(w, id) >= At(m, id)
      BY <2>2
    <3>1. At(a, id) >= At(m, id) BY <2>3, <2>4
    <3>2. At(w, id) >= At(a, id)
      <4>1. CASE id = e.id BY <4>1, <2>4
      <4>2. CASE id # e.id
        <5>1. At(w, id) = At(a, id) BY <4>2, <2>4
        <5>. QED BY <5>1, <2>5
      <4>. QED BY <4>1, <4>2
    <3>. QED BY <3>1, <3>2, <2>5
  <2>. HIDE DEF Come, New, Late, Old, Full
  <2>. QED BY <2>1, <2>7, <2>8, <2>9, <2>10, <2>11
<1>4. Come(N) /\ New(N) /\ Late(N) /\ Old(N) /\ Full(N)
  <2>1. \A n \in 0..N : n \in S
    <3>. HIDE DEF S
    <3>. QED BY <1>0, <1>2, <1>3, CountsUp
  <2>2. N \in 0..N BY <1>0
  <2>3. N \in S BY <2>1, <2>2
  <2>. HIDE DEF Come, New, Late, Old, Full
  <2>. QED BY <2>3
<1>. DEFINE w == Merge(m, es)
<1>5. w = h[N] /\ w \in Maps(t)
  <2>1. N \in 0..N BY <1>0
  <2>. QED BY <2>1, <1>1
<1>6. \A id : (Has(w, id) <=> At(w, id) # 0) /\ At(w, id) \in 0..t
  <2>. HIDE DEF w
  <2>. QED BY <1>5, AtFacts
<1>7. ASSUME NEW id \in Ids, Has(es, id)
      PROVE  /\ Has(w, id) => At(w, id) >= At(es, id)
             /\ ~Has(m, id) => Has(w, id)
  <2>1. PICK k \in 1..N : es[k].id = id /\ es[k].at = At(es, id) BY <1>7, EntryOf
  <2>2. Has(w, id) => At(w, id) >= At(es, id) BY <1>4, <1>5, <2>1
  <2>3. ASSUME ~Has(m, id) PROVE Has(w, id)
    <3>1. PICK p \in 1..Len(w) : w[p].id = id BY <2>1, <2>3, <1>4, <1>5
    <3>. HIDE DEF w
    <3>. QED BY <3>1, <1>5, AtFacts
  <2>. QED BY <2>2, <2>3
<1>8. ASSUME NEW id \in Ids, ~Has(es, id)
      PROVE  At(w, id) = 0 \/ At(w, id) = At(m, id)
  <2>1. \A k \in 1..N : es[k].id # id BY <1>8, AtFacts
  <2>. QED BY <2>1, <1>4, <1>5
<1>9. Len(w) = MaxEntries \/ \A id \in Ids : At(w, id) >= At(m, id) BY <1>4, <1>5
<1>. HIDE DEF w
<1>. QED BY <1>5, <1>7, <1>8, <1>9 DEF w

-----------------------------------------------------------------------------
(***************************************************************************)
(* Types.                                                                  *)
(***************************************************************************)
LEMMA Constants ==
  /\ MaxEntries \in Nat \ {0} /\ MaxTime \in Nat \ {0} /\ 1 \in 1..MaxTime
  /\ Scopes \in Seq(Range(Scopes))
  /\ \A id \in Ids : GroupOf(id) \in Groups /\ id.type \in Types /\ id.scope \in Range(Scopes)
                     /\ GroupOf(id).scope = id.scope /\ GroupOf(id).type = id.type
  /\ \A g \in Groups : g.scope \in Range(Scopes) /\ g.type \in Types /\ PathOf(g) \in Paths
<1>1. \A id \in Ids : GroupOf(id) \in Groups /\ id.type \in Types /\ id.scope \in Range(Scopes)
                      /\ GroupOf(id).scope = id.scope /\ GroupOf(id).type = id.type
  BY AgentMemoryAssumption DEF GroupOf, Groups, Types
<1>2. ASSUME NEW g \in Groups
      PROVE  g.scope \in Range(Scopes) /\ g.type \in Types /\ PathOf(g) \in Paths
  <2>1. PICK id \in Ids : g = [scope |-> id.scope, type |-> id.type] BY DEF Groups
  <2>2. g.scope = id.scope /\ g.type = id.type BY <2>1
  <2>3. PathOf(g) \in Paths BY DEF PathOf, Paths
  <2>. QED BY <1>1, <2>2, <2>3
<1>3. Scopes \in Seq(Range(Scopes))
  <2>1. Scopes \in Seq({id.scope : id \in Ids}) BY AgentMemoryAssumption
  <2>2. Len(Scopes) \in Nat /\ DOMAIN Scopes = 1..Len(Scopes)
        /\ Scopes \in [1..Len(Scopes) -> {id.scope : id \in Ids}]
    BY <2>1, LenProperties
  <2>3. Scopes \in [1..Len(Scopes) -> Range(Scopes)] BY <2>2 DEF Range
  <2>. QED BY <2>2, <2>3, SeqDef
<1>4. MaxEntries \in Nat \ {0} /\ MaxTime \in Nat \ {0} /\ 1 \in 1..MaxTime
  BY AgentMemoryAssumption
<1>. QED BY <1>1, <1>2, <1>3, <1>4

LEMMA NoEntries == \A t \in Nat : <<>> \in Maps(t) /\ \A id : At(<<>>, id) = 0 /\ ~Has(<<>>, id)
<1>1. ASSUME NEW t \in Nat PROVE <<>> \in Maps(t)
  <2>1. <<>> \in Seq([id : Ids, at : 1..t]) /\ Len(<<>>) = 0 BY EmptySeq
  <2>2. Len(<<>>) <= MaxEntries BY <2>1, Constants
  <2>3. 1..Len(<<>>) = {} BY <2>1
  <2>. QED BY <2>1, <2>2, <2>3, AMap
<1>2. ASSUME NEW id PROVE At(<<>>, id) = 0
  <2>1. {n \in DOMAIN <<>> : <<>>[n].id = id} = {} OBVIOUS
  <2>. QED BY <2>1 DEF At
<1>. QED BY <1>1, <1>2 DEF Has

LEMMA Later ==
  ASSUME NEW t \in Nat, NEW m \in Maps(t)
  PROVE  m \in Maps(t + 1)
<1>1. \A n \in 1..Len(m) : m[n] \in [id : Ids, at : 1..t + 1]
  <2>1. \A n \in 1..Len(m) : m[n] \in [id : Ids, at : 1..t] BY MapFacts
  <2>2. \A a \in 1..t : a \in 1..t + 1 OBVIOUS
  <2>. QED BY <2>1, <2>2
<1>2. Len(m) \in Nat /\ DOMAIN m = 1..Len(m) /\ m \in Seq([id : Ids, at : 1..t]) BY MapFacts
<1>3. m \in [1..Len(m) -> [id : Ids, at : 1..t + 1]]
  <2>1. m \in [1..Len(m) -> [id : Ids, at : 1..t]] BY <1>2, LenProperties
  <2>. QED BY <2>1, <1>1
<1>4. m \in Seq([id : Ids, at : 1..t + 1])
  <2>. DEFINE E == [id : Ids, at : 1..t + 1]
  <2>1. m \in [1..Len(m) -> E] BY <1>3
  <2>. HIDE DEF E
  <2>2. m \in Seq(E) BY <2>1, <1>2, SeqDef
  <2>. QED BY <2>2 DEF E
<1>. QED BY <1>4, MapFacts, AMap

LEMMA MaxOfTwo ==
  ASSUME NEW a \in Nat, NEW b \in Nat
  PROVE  Max({a, b}) = IF a >= b THEN a ELSE b
BY DEF Max

LEMMA NothingTyped ==
  /\ NotHydrated \in Hydrations /\ Opened(NotHydrated)
  /\ \A t \in Nat : NotSaving \in Savings(t)
<1>1. <<>> \in Seq(Range(Scopes)) BY EmptySeq
<1>2. NotHydrated \in Hydrations /\ Opened(NotHydrated)
  BY <1>1 DEF NotHydrated, Hydrations, Opened
<1>3. \A t \in Nat : <<>> \in Maps(t) BY NoEntries
<1>. QED BY <1>2, <1>3 DEF NotSaving, Savings

LEMMA TypedInit == Init => Typed
<1>. SUFFICES ASSUME Init PROVE Typed OBVIOUS
<1>. USE DEF Init
<1>1. now \in 1..MaxTime /\ now \in Nat BY Constants
<1>2. <<>> \in Maps(now) BY <1>1, NoEntries
<1>3. memory \in [Instances -> Maps(now)] /\ files \in [Paths -> Maps(now)] BY <1>2
<1>4. hydration \in [Instances -> Hydrations] /\ saving \in [Instances -> Savings(now)]
  BY <1>1, NothingTyped
<1>5. \A i \in Instances : Opened(hydration[i]) BY NothingTyped
<1>6. promised \in [Ids -> 0..now] BY <1>1
<1>. QED BY <1>1, <1>3, <1>4, <1>5, <1>6 DEF Typed

LEMMA BecomesTyped ==
  ASSUME Typed, NEW i \in Instances, NEW m \in Maps(now), Becomes(i, m)
  PROVE  memory' \in [Instances -> Maps(now)] /\ promised' \in [Ids -> 0..now]
<1>1. promised \in [Ids -> 0..now] /\ memory \in [Instances -> Maps(now)] /\ now \in Nat
  BY DEF Typed
<1>2. 0 \in 0..now BY <1>1
<1>. QED BY <1>1, <1>2 DEF Becomes

LEMMA HydrationTyped ==
  ASSUME Typed, NEW i \in Instances, NEW h \in Hydrations, Opened(h),
         hydration' = [hydration EXCEPT ![i] = h]
  PROVE  /\ hydration' \in [Instances -> Hydrations]
         /\ \A j \in Instances : Opened(hydration'[j])
BY DEF Typed

LEMMA AccessedTyped ==
  ASSUME Typed, NEW i \in Instances, Accessed(i)
  PROVE  /\ hydration' \in [Instances -> Hydrations]
         /\ \A j \in Instances : Opened(hydration'[j])
<1>. DEFINE h == [hydration[i] EXCEPT !.step = "next", !.scopes = Scopes]
<1>1. hydration[i] \in Hydrations BY DEF Typed
<1>2. h \in Hydrations /\ Opened(h) BY <1>1, Constants DEF Hydrations, Opened
<1>3. CASE hydration' = hydration BY <1>3 DEF Typed
<1>4. CASE hydration' = [hydration EXCEPT ![i] = h]
  <2>. HIDE DEF h
  <2>. QED BY <1>2, <1>4, HydrationTyped
<1>. QED BY <1>3, <1>4 DEF Accessed

LEMMA EndsTyped ==
  ASSUME Typed, NEW i \in Instances, Ends(i), now' = now
  PROVE  /\ life' \in [Instances -> {"new", "up", "ended"}]
         /\ memory' \in [Instances -> Maps(now)]
         /\ hydration' \in [Instances -> Hydrations]
         /\ \A j \in Instances : Opened(hydration'[j])
         /\ saving' \in [Instances -> Savings(now)]
         /\ syncing' \in [Instances -> {NotSyncing} \cup Syncings(now)]
<1>1. now \in Nat BY DEF Typed
<1>2. /\ <<>> \in Maps(now) /\ NotSaving \in Savings(now)
      /\ NotHydrated \in Hydrations /\ Opened(NotHydrated)
  BY <1>1, NoEntries, NothingTyped
<1>. QED BY <1>2 DEF Ends, Typed

LEMMA PromisedTyped ==
  ASSUME Typed, NEW i \in Instances, NEW entries \in Maps(now)
  PROVE  Promised(i, entries) \in [Ids -> 0..now]
<1>1. now \in Nat /\ promised \in [Ids -> 0..now] BY DEF Typed
<1>2. \A id \in Ids : At(entries, id) \in 0..now BY <1>1, AtFacts
<1>3. ASSUME NEW id \in Ids PROVE Max({promised[id], At(entries, id)}) \in 0..now
  <2>1. promised[id] \in 0..now /\ At(entries, id) \in 0..now BY <1>1, <1>2
  <2>2. promised[id] \in Nat /\ At(entries, id) \in Nat BY <2>1
  <2>3. Max({promised[id], At(entries, id)}) \in {promised[id], At(entries, id)}
    BY <2>2, MaxOfTwo
  <2>. QED BY <2>1, <2>3
<1>. QED BY <1>1, <1>3 DEF Promised

\* The start of a save, by dispose or once it has waited.
LEMMA TypedSaves ==
  ASSUME Typed, NEW i \in Instances, Saves(i)
  PROVE  Typed'
<1>0. /\ now \in Nat /\ memory[i] \in Maps(now) /\ spoiled \in BOOLEAN
      /\ saving \in [Instances -> Savings(now)] /\ hydration[i] \in Hydrations
  BY DEF Typed
<1>p. Partial(i) \in BOOLEAN BY <1>0 DEF Partial, Hydrations
<1>1. CASE memory[i] = <<>>
  <2>1. Ends(i) /\ now' = now /\ UNCHANGED <<fs, promised, spoiled>> BY <1>1 DEF Saves
  <2>. QED BY <2>1, EndsTyped DEF Typed, fs
<1>2. CASE memory[i] # <<>>
  <2>. DEFINE s == [step |-> "groups", entries |-> memory[i],
              groups |-> {GroupOf(memory[i][n].id) : n \in DOMAIN memory[i]},
              scopes |-> {memory[i][n].id.scope : n \in DOMAIN memory[i]}]
  <2>1. saving' = [saving EXCEPT ![i] = s] /\ spoiled' = (spoiled \/ Partial(i))
    BY <1>2 DEF Saves
  <2>2. \A n \in DOMAIN memory[i] : memory[i][n].id \in Ids BY <1>0, MapFacts
  <2>3. s \in Savings(now) BY <2>2, <1>0, Constants DEF Savings
  <2>4. saving' \in [Instances -> Savings(now)] BY <2>1, <2>3, <1>0
  <2>5. spoiled' \in BOOLEAN BY <1>0, <1>p, <2>1
  <2>. QED BY <1>2, <2>4, <2>5 DEF Saves, Typed, fs
<1>. QED BY <1>1, <1>2

LEMMA TypedUse ==
  ASSUME Typed, NEW i \in Instances,
         \/ Start(i) \/ Access(i) \/ Dispose(i)
         \/ \E id \in Ids : WriteEntry(i, id) \/ DeleteEntry(i, id)
  PROVE  Typed'
<1>0. now \in 1..MaxTime /\ now \in Nat /\ memory[i] \in Maps(now) BY DEF Typed
<1>1. CASE Start(i)
  <2>. DEFINE h == [hydration[i] EXCEPT !.step = "never"]
  <2>1. h \in Hydrations /\ Opened(h)
    <3>1. hydration[i] \in Hydrations BY DEF Typed
    <3>. QED BY <3>1 DEF Hydrations, Opened
  <2>2. /\ hydration' \in [Instances -> Hydrations]
        /\ \A j \in Instances : Opened(hydration'[j])
    <3>1. CASE UNCHANGED hydration BY <3>1 DEF Typed
    <3>2. CASE hydration' = [hydration EXCEPT ![i] = h]
      <4>. HIDE DEF h
      <4>. QED BY <2>1, <3>2, HydrationTyped
    <3>. QED BY <1>1, <3>1, <3>2 DEF Start
  <2>. QED BY <1>1, <2>2 DEF Start, Typed, fs
<1>2. CASE Access(i)
  <2>1. Accessed(i) BY <1>2 DEF Access
  <2>. QED BY <1>2, <2>1, AccessedTyped DEF Access, Typed, fs
<1>3. CASE Dispose(i) /\ hydration[i].step \notin {"none", "never"}
  <2>1. saving[i] \in Savings(now) BY DEF Typed
  <2>2. [saving[i] EXCEPT !.step = "wait"] \in Savings(now) BY <2>1 DEF Savings
  <2>3. saving' = [saving EXCEPT ![i] = [saving[i] EXCEPT !.step = "wait"]] BY <1>3 DEF Dispose
  <2>4. saving' \in [Instances -> Savings(now)] BY <2>2, <2>3 DEF Typed
  <2>. QED BY <1>3, <2>4 DEF Dispose, Typed, fs
<1>6. CASE Dispose(i) /\ hydration[i].step \in {"none", "never"}
  BY <1>6, TypedSaves DEF Dispose
<1>4. ASSUME NEW id \in Ids, WriteEntry(i, id) PROVE Typed'
  <2>1. Write(memory[i], id, now) \in Maps(now) BY <1>0, Constants, WriteFacts
  <2>2. Accessed(i) /\ Becomes(i, Write(memory[i], id, now)) BY <1>4 DEF WriteEntry
  <2>3. memory' \in [Instances -> Maps(now)] /\ promised' \in [Ids -> 0..now]
    BY <2>1, <2>2, BecomesTyped
  <2>. QED BY <1>4, <2>2, <2>3, AccessedTyped DEF WriteEntry, Typed, fs
<1>5. ASSUME NEW id \in Ids, DeleteEntry(i, id) PROVE Typed'
  <2>1. Keep(memory[i], Ids \ {id}) \in Maps(now) BY <1>0, Constants, KeepFacts
  <2>2. Becomes(i, Keep(memory[i], Ids \ {id})) BY <1>5 DEF DeleteEntry
  <2>3. memory' \in [Instances -> Maps(now)] /\ promised' \in [Ids -> 0..now]
    BY <2>1, <2>2, BecomesTyped
  <2>. QED BY <1>5, <2>3 DEF DeleteEntry, Typed, fs
<1>. QED BY <1>1, <1>2, <1>3, <1>4, <1>5, <1>6

LEMMA TypedHydrate ==
  ASSUME Typed, NEW i \in Instances, Hydrate(i)
  PROVE  Typed'
<1>0. /\ now \in Nat /\ memory[i] \in Maps(now) /\ hydration[i] \in Hydrations
      /\ Opened(hydration[i])
  BY DEF Typed
<1>h. /\ hydration[i].step \in {"none", "never", "next", "manifest", "file", "done"}
      /\ hydration[i].scopes \in Seq(Range(Scopes)) /\ hydration[i].types \in SUBSET Types
      /\ hydration[i].missed \in BOOLEAN
  BY <1>0 DEF Hydrations
<1>1. ASSUME NEW h \in Hydrations, Opened(h), hydration' = [hydration EXCEPT ![i] = h],
             OnlyHydration
      PROVE  Typed'
  BY <1>1, HydrationTyped DEF OnlyHydration, Typed, fs
<1>2. ASSUME hydration[i].scopes # <<>>
      PROVE  /\ Head(hydration[i].scopes) \in Range(Scopes)
             /\ Tail(hydration[i].scopes) \in Seq(Range(Scopes))
  BY <1>h, <1>2, HeadTailProperties
<1>3. CASE HydrateScope(i)
  <2>. DEFINE done == [hydration[i] EXCEPT !.step = "done"]
              skip == [hydration[i] EXCEPT !.scopes = Tail(hydration[i].scopes)]
              open == [hydration[i] EXCEPT !.step = "manifest", !.types = KnownTypes(memory[i])]
  <2>1. done \in Hydrations /\ Opened(done) BY <1>0 DEF Hydrations, Opened
  <2>2. hydration[i].scopes # <<>> /\ hydration[i].step = "next" =>
          skip \in Hydrations /\ Opened(skip)
    BY <1>0, <1>2 DEF Hydrations, Opened
  <2>3. KnownTypes(memory[i]) \in SUBSET Types
    <3>1. \A n \in DOMAIN memory[i] : memory[i][n].id \in Ids BY <1>0, MapFacts
    <3>. QED BY <3>1, Constants DEF KnownTypes
  <2>4. hydration[i].scopes # <<>> => open \in Hydrations /\ Opened(open)
    BY <1>0, <2>3 DEF Hydrations, Opened
  <2>5. /\ OnlyHydration /\ hydration[i].step = "next"
        /\ \/ hydration' = [hydration EXCEPT ![i] = done]
           \/ hydration[i].scopes # <<>> /\ hydration' = [hydration EXCEPT ![i] = skip]
           \/ hydration[i].scopes # <<>> /\ hydration' = [hydration EXCEPT ![i] = open]
    BY <1>3 DEF HydrateScope
  <2>. HIDE DEF done, skip, open
  <2>. QED BY <2>1, <2>2, <2>4, <2>5, <1>1
<1>4. CASE HydrationFails(i)
  <2>. DEFINE h == [hydration[i] EXCEPT !.step = "done", !.missed = TRUE]
  <2>1. h \in Hydrations /\ Opened(h) BY <1>0 DEF Hydrations, Opened
  <2>2. OnlyHydration /\ hydration' = [hydration EXCEPT ![i] = h] BY <1>4 DEF HydrationFails
  <2>. HIDE DEF h
  <2>. QED BY <2>1, <2>2, <1>1
<1>5. CASE HydrateManifest(i)
  <2>. DEFINE scope == Head(hydration[i].scopes)
              full == [hydration[i] EXCEPT !.step = "file", !.types = ScopeTypes(i, scope)]
              less == [hydration[i] EXCEPT !.step = "file", !.missed = TRUE]
  <2>1. /\ OnlyHydration /\ hydration[i].step = "manifest"
        /\ \/ hydration' = [hydration EXCEPT ![i] = full]
           \/ hydration' = [hydration EXCEPT ![i] = less]
    BY <1>5 DEF HydrateManifest
  <2>2. hydration[i].scopes # <<>> BY <2>1, <1>0 DEF Opened
  <2>3. manifests[scope] \in SUBSET Types BY <1>2, <2>2 DEF Typed
  <2>4. ScopeTypes(i, scope) \in SUBSET Types BY <1>h, <2>3 DEF ScopeTypes
  <2>5. full \in Hydrations /\ Opened(full) BY <1>0, <2>2, <2>4 DEF Hydrations, Opened
  <2>6. less \in Hydrations /\ Opened(less) BY <1>0, <2>2 DEF Hydrations, Opened
  <2>. HIDE DEF full, less
  <2>. QED BY <2>1, <2>5, <2>6, <1>1
<1>6. CASE ScopeHydrated(i)
  <2>. DEFINE h == [hydration[i] EXCEPT !.step = "next", !.scopes = Tail(hydration[i].scopes)]
  <2>1. /\ OnlyHydration /\ hydration[i].step = "file"
        /\ hydration' = [hydration EXCEPT ![i] = h]
    BY <1>6 DEF ScopeHydrated
  <2>2. hydration[i].scopes # <<>> BY <2>1, <1>0 DEF Opened
  <2>3. h \in Hydrations /\ Opened(h) BY <1>0, <1>2, <2>2 DEF Hydrations, Opened
  <2>. HIDE DEF h
  <2>. QED BY <2>1, <2>3, <1>1
<1>7. ASSUME NEW type \in Types, HydrateFile(i, type) PROVE Typed'
  <2>. DEFINE g == [scope |-> Head(hydration[i].scopes), type |-> type]
              rest == hydration[i].types \ {type}
              h == [hydration[i] EXCEPT !.types = rest]
              l == [hydration[i] EXCEPT !.types = rest, !.missed = TRUE]
  <2>1. hydration[i].step = "file"
        /\ (hydration' = [hydration EXCEPT ![i] = h] \/ hydration' = [hydration EXCEPT ![i] = l])
    BY <1>7 DEF HydrateFile
  <2>2. hydration[i].scopes # <<>> BY <2>1, <1>0 DEF Opened
  <2>3. h \in Hydrations /\ Opened(h) BY <1>0, <2>2 DEF Hydrations, Opened
  <2>4. l \in Hydrations /\ Opened(l) BY <1>0, <2>2 DEF Hydrations, Opened
  <2>5. /\ hydration' \in [Instances -> Hydrations]
        /\ \A j \in Instances : Opened(hydration'[j])
    <3>. HIDE DEF h, l
    <3>. QED BY <2>1, <2>3, <2>4, HydrationTyped
  <2>6. memory' \in [Instances -> Maps(now)] /\ promised' \in [Ids -> 0..now]
    <3>1. CASE g \in Groups /\ Becomes(i, Merge(memory[i], files[PathOf(g)]))
      <4>1. files[PathOf(g)] \in Maps(now) BY <3>1, Constants DEF Typed
      <4>2. Merge(memory[i], files[PathOf(g)]) \in Maps(now)
        BY <4>1, <1>0, Constants, MergeFacts
      <4>. QED BY <4>2, <3>1, BecomesTyped
    <3>2. CASE UNCHANGED <<memory, promised>> BY <3>2 DEF Typed
    <3>. QED BY <1>7, <3>1, <3>2 DEF HydrateFile
  <2>. QED BY <1>7, <2>5, <2>6 DEF HydrateFile, Typed, fs
<1>. QED BY <1>3, <1>4, <1>5, <1>6, <1>7 DEF Hydrate

LEMMA TypedSave ==
  ASSUME Typed, NEW i \in Instances, Save(i) \/ SaveFails(i) \/ Destroy(i) \/ Crash(i)
  PROVE  Typed'
<1>0. /\ now \in Nat /\ memory[i] \in Maps(now) /\ saving[i] \in Savings(now)
      /\ saving \in [Instances -> Savings(now)]
  BY DEF Typed
<1>s. /\ saving[i].step \in {"none", "wait", "groups", "manifests"}
      /\ saving[i].entries \in Maps(now)
      /\ saving[i].groups \in SUBSET Groups /\ saving[i].scopes \in SUBSET Range(Scopes)
  BY <1>0 DEF Savings
<1>1. CASE SaveBegins(i) BY <1>1, TypedSaves DEF SaveBegins
<1>2. ASSUME NEW g \in Groups, SaveGroup(i, g) PROVE Typed'
  <2>. DEFINE s == [saving[i] EXCEPT !.groups = @ \ {g},
                         !.step = IF saving[i].groups = {g} THEN "manifests" ELSE @]
  <2>1. saving' = [saving EXCEPT ![i] = s] BY <1>2 DEF SaveGroup
  <2>2. s \in Savings(now) BY <1>0, <1>s DEF Savings
  <2>3. saving' \in [Instances -> Savings(now)] BY <2>1, <2>2, <1>0
  <2>4. Group(saving[i].entries, g) \in Maps(now) BY <1>0, <1>s, Constants, KeepFacts DEF Group
  <2>5. files' \in [Paths -> Maps(now)] BY <1>2, <2>4 DEF SaveGroup, Typed
  <2>. QED BY <1>2, <2>3, <2>5 DEF SaveGroup, Typed
<1>3. ASSUME NEW scope \in Range(Scopes), SaveManifest(i, scope) PROVE Typed'
  <2>. DEFINE entries == saving[i].entries
              kept == {entries[n].id.type :
                         n \in {m \in DOMAIN entries : entries[m].id.scope = scope}}
  <2>1. \A n \in DOMAIN entries : entries[n].id \in Ids BY <1>0, <1>s, MapFacts
  <2>2. kept \in SUBSET Types BY <2>1, Constants
  <2>3. manifests' = [manifests EXCEPT ![scope] = kept] BY <1>3 DEF SaveManifest
  <2>4. manifests' \in [Range(Scopes) -> SUBSET Types]
    <3>. HIDE DEF kept
    <3>. QED BY <2>2, <2>3 DEF Typed
  <2>5. CASE saving[i].scopes = {scope}
    <3>1. Ends(i) /\ promised' = Promised(i, entries) /\ now' = now
      BY <1>3, <2>5 DEF SaveManifest
    <3>2. promised' \in [Ids -> 0..now] BY <3>1, <1>s, PromisedTyped
    <3>. QED BY <1>3, <2>4, <3>1, <3>2, EndsTyped DEF SaveManifest, Typed
  <2>6. CASE saving[i].scopes # {scope}
    <3>1. saving' = [saving EXCEPT ![i] = [saving[i] EXCEPT !.scopes = @ \ {scope}]]
      BY <1>3, <2>6 DEF SaveManifest
    <3>2. [saving[i] EXCEPT !.scopes = @ \ {scope}] \in Savings(now)
      BY <1>0, <1>s DEF Savings
    <3>3. saving' \in [Instances -> Savings(now)] BY <3>1, <3>2, <1>0
    <3>. QED BY <1>3, <2>4, <2>6, <3>3 DEF SaveManifest, Typed
  <2>. QED BY <2>5, <2>6
<1>4. CASE SaveFails(i)
  <2>1. Ends(i) /\ now' = now BY <1>4 DEF SaveFails
  <2>. QED BY <1>4, <2>1, EndsTyped DEF SaveFails, Typed, fs
<1>5. CASE Destroy(i)
  <2>1. Ends(i) /\ now' = now BY <1>5 DEF Destroy
  <2>. QED BY <1>5, <2>1, EndsTyped DEF Destroy, Typed, fs
<1>6. CASE Crash(i)
  <2>1. Ends(i) /\ now' = now BY <1>6 DEF Crash
  <2>. QED BY <1>6, <2>1, EndsTyped DEF Crash, Typed, fs
<1>. QED BY <1>1, <1>2, <1>3, <1>4, <1>5, <1>6 DEF Save

LEMMA TypedSync ==
  ASSUME Typed, NEW i \in Instances, Sync(i) \/ \E g \in Groups : SyncBegins(i, g)
  PROVE  Typed'
<1>0. /\ now \in Nat /\ memory[i] \in Maps(now)
      /\ syncing \in [Instances -> {NotSyncing} \cup Syncings(now)]
  BY DEF Typed
<1>. DEFINE s == syncing[i]
<1>s. ASSUME s.step # "none"
      PROVE  /\ s \in Syncings(now) /\ s.step \in {"file", "read", "manifest"}
             /\ s.group \in Groups /\ s.entries \in Maps(now) /\ s.known \in SUBSET Types
             /\ s.group.scope \in Range(Scopes) /\ s.group.type \in Types
             /\ PathOf(s.group) \in Paths
  <2>1. s # NotSyncing BY <1>s DEF NotSyncing
  <2>2. s \in Syncings(now) BY <2>1, <1>0
  <2>3. /\ s.step \in {"file", "read", "manifest"}
        /\ s.group \in Groups /\ s.entries \in Maps(now) /\ s.known \in SUBSET Types
    BY <2>2 DEF Syncings
  <2>. QED BY <2>2, <2>3, Constants
<1>1. ASSUME NEW g \in Groups, SyncBegins(i, g) PROVE Typed'
  <2>. DEFINE z == [step |-> "file", group |-> g, entries |-> Group(memory[i], g), known |-> {}]
  <2>1. Group(memory[i], g) \in Maps(now) BY <1>0, Constants, KeepFacts DEF Group
  <2>2. z \in Syncings(now) BY <2>1 DEF Syncings
  <2>3. syncing' = [syncing EXCEPT ![i] = z] BY <1>1 DEF SyncBegins
  <2>4. syncing' \in [Instances -> {NotSyncing} \cup Syncings(now)]
    <3>. HIDE DEF z
    <3>. QED BY <2>2, <2>3, <1>0
  <2>5. spoiled' \in BOOLEAN
    <3>1. hydration[i] \in Hydrations /\ spoiled \in BOOLEAN BY DEF Typed
    <3>2. Partial(i) \in BOOLEAN BY <3>1 DEF Partial, Hydrations
    <3>. QED BY <1>1, <3>1, <3>2 DEF SyncBegins
  <2>. QED BY <1>1, <2>4, <2>5 DEF SyncBegins, Typed, fs
<1>e. ASSUME SyncEnds(i), s.step # "none"
      PROVE  /\ syncing' \in [Instances -> {NotSyncing} \cup Syncings(now)]
             /\ promised' \in [Ids -> 0..now]
  <2>1. promised' = Promised(i, s.entries) /\ syncing' = [syncing EXCEPT ![i] = NotSyncing]
    BY <1>e DEF SyncEnds
  <2>. QED BY <2>1, <1>0, <1>e, <1>s, PromisedTyped
<1>2. CASE SyncFile(i)
  <2>1. s.step = "file" /\ files' = [files EXCEPT ![PathOf(s.group)] = s.entries]
    BY <1>2 DEF SyncFile
  <2>2. files' \in [Paths -> Maps(now)] BY <2>1, <1>s DEF Typed
  <2>. DEFINE z == IF s.entries = <<>> THEN NotSyncing ELSE [s EXCEPT !.step = "read"]
  <2>3. z \in {NotSyncing} \cup Syncings(now) BY <2>1, <1>s DEF Syncings
  <2>4. syncing' = [syncing EXCEPT ![i] = z] BY <1>2 DEF SyncFile
  <2>5. syncing' \in [Instances -> {NotSyncing} \cup Syncings(now)]
    <3>. HIDE DEF z
    <3>. QED BY <2>3, <2>4, <1>0
  <2>. QED BY <1>2, <2>2, <2>5 DEF SyncFile, Typed
<1>3. CASE SyncRead(i)
  <2>1. s.step = "read" BY <1>3 DEF SyncRead
  <2>2. CASE SyncEnds(i) /\ UNCHANGED spoiled
    BY <1>3, <2>1, <2>2, <1>e DEF SyncRead, Typed, fs
  <2>3. ASSUME NEW types \in SUBSET Types, spoiled' \in BOOLEAN, UNCHANGED promised,
               syncing' = [syncing EXCEPT ![i] = [s EXCEPT !.step = "manifest", !.known = types]]
        PROVE  Typed'
    <3>. DEFINE z == [s EXCEPT !.step = "manifest", !.known = types]
    <3>1. z \in Syncings(now) BY <2>1, <1>s DEF Syncings
    <3>2. syncing' \in [Instances -> {NotSyncing} \cup Syncings(now)]
      <4>1. syncing' = [syncing EXCEPT ![i] = z] BY <2>3
      <4>. HIDE DEF z
      <4>. QED BY <3>1, <4>1, <1>0
    <3>. QED BY <1>3, <2>3, <3>2 DEF SyncRead, Typed, fs
  <2>4. manifests[s.group.scope] \in SUBSET Types /\ {} \in SUBSET Types
        /\ spoiled \in BOOLEAN
    BY <2>1, <1>s DEF Typed
  <2>. QED BY <1>3, <2>2, <2>3, <2>4 DEF SyncRead
<1>4. CASE SyncManifest(i)
  <2>1. /\ s.step = "manifest" /\ SyncEnds(i)
        /\ manifests' = [manifests EXCEPT ![s.group.scope] = s.known \cup {s.group.type}]
    BY <1>4 DEF SyncManifest
  <2>2. s.known \cup {s.group.type} \in SUBSET Types BY <2>1, <1>s
  <2>3. manifests' \in [Range(Scopes) -> SUBSET Types] BY <2>1, <2>2 DEF Typed
  <2>. QED BY <1>4, <2>1, <2>3, <1>e DEF SyncManifest, Typed
<1>. QED BY <1>1, <1>2, <1>3, <1>4 DEF Sync

LEMMA TypedTick == Typed /\ Tick => Typed'
<1>. SUFFICES ASSUME Typed, Tick PROVE Typed' OBVIOUS
<1>0. now \in Nat /\ now \in 1..MaxTime /\ now < MaxTime /\ now' = now + 1
  BY Constants DEF Typed, Tick
<1>1. now' \in 1..MaxTime BY <1>0, Constants
<1>2. \A m \in Maps(now) : m \in Maps(now + 1) BY <1>0, Later
<1>3. \A s \in Savings(now) : s \in Savings(now + 1) BY <1>2 DEF Savings
<1>4. \A s \in Syncings(now) : s \in Syncings(now + 1) BY <1>2 DEF Syncings
<1>5. \A p \in 0..now : p \in 0..now + 1 BY <1>0
<1>6. /\ memory' \in [Instances -> Maps(now')] /\ files' \in [Paths -> Maps(now')]
      /\ saving' \in [Instances -> Savings(now')]
      /\ syncing' \in [Instances -> {NotSyncing} \cup Syncings(now')]
      /\ promised' \in [Ids -> 0..now']
  BY <1>0, <1>2, <1>3, <1>4, <1>5 DEF Typed, Tick, fs
<1>. QED BY <1>1, <1>6 DEF Typed, Tick, fs

LEMMA TypedStep == Typed /\ [Next]_vars => Typed'
<1>. SUFFICES ASSUME Typed, [Next]_vars PROVE Typed' OBVIOUS
<1>1. CASE Tick BY <1>1, TypedTick
<1>2. ASSUME NEW i \in Instances,
             \/ Start(i) \/ Access(i) \/ Hydrate(i) \/ Dispose(i) \/ Save(i) \/ SaveFails(i)
             \/ Sync(i) \/ Destroy(i) \/ Crash(i)
             \/ \E id \in Ids : WriteEntry(i, id) \/ DeleteEntry(i, id)
             \/ \E g \in Groups : SyncBegins(i, g)
      PROVE  Typed'
  BY <1>2, TypedUse, TypedHydrate, TypedSave, TypedSync
<1>3. CASE UNCHANGED vars BY <1>3 DEF vars, fs, Typed
<1>. QED BY <1>1, <1>2, <1>3 DEF Next

LEMMA InTime ==
  ASSUME Typed, NEW m \in Maps(now)
  PROVE  /\ m \in Seq(Entry) /\ Len(m) <= MaxEntries
         /\ IsInjective([n \in DOMAIN m |-> m[n].id])
<1>0. now \in 1..MaxTime /\ MaxTime \in Nat BY Constants DEF Typed
<1>1. /\ m \in Seq([id : Ids, at : 1..now]) /\ Len(m) \in Nat /\ DOMAIN m = 1..Len(m)
      /\ Len(m) <= MaxEntries /\ \A j, k \in 1..Len(m) : m[j].id = m[k].id => j = k
  BY MapFacts
<1>2. [id : Ids, at : 1..now] \subseteq Entry
  <2>1. 1..now \subseteq 1..MaxTime BY <1>0
  <2>. QED BY <2>1 DEF Entry
<1>3. m \in Seq(Entry) BY <1>1, <1>2, SeqMonotonic
<1>4. IsInjective([n \in DOMAIN m |-> m[n].id]) BY <1>1 DEF IsInjective
<1>. QED BY <1>1, <1>3, <1>4

LEMMA TypedGivesTypeOK == Typed => TypeOK
<1>. SUFFICES ASSUME Typed PROVE TypeOK OBVIOUS
<1>0. now \in 1..MaxTime /\ MaxTime \in Nat BY Constants DEF Typed
<1>1. ASSUME NEW i \in Instances
      PROVE  /\ memory[i] \in Seq(Entry) /\ Len(memory[i]) <= MaxEntries
             /\ IsInjective([n \in DOMAIN memory[i] |-> memory[i][n].id])
  <2>1. memory[i] \in Maps(now) BY DEF Typed
  <2>. QED BY <2>1, InTime
<1>2. ASSUME NEW i \in Instances
      PROVE  hydration[i] \in [step : {"none", "never", "next", "manifest", "file", "done"},
                               scopes : Seq(Range(Scopes)), types : SUBSET Types,
                               missed : BOOLEAN]
  BY DEF Typed, Hydrations
<1>3. ASSUME NEW i \in Instances
      PROVE  /\ saving[i].step \in {"none", "wait", "groups", "manifests"}
             /\ saving[i].entries \in Seq(Entry)
             /\ saving[i].groups \subseteq Groups /\ saving[i].scopes \subseteq Range(Scopes)
  <2>1. saving[i] \in Savings(now) BY DEF Typed
  <2>2. /\ saving[i].step \in {"none", "wait", "groups", "manifests"}
        /\ saving[i].entries \in Maps(now)
        /\ saving[i].groups \subseteq Groups /\ saving[i].scopes \subseteq Range(Scopes)
    BY <2>1 DEF Savings
  <2>. QED BY <2>2, InTime
<1>4. ASSUME NEW i \in Instances, syncing[i] # NotSyncing
      PROVE  syncing[i] \in [step : {"file", "read", "manifest"}, group : Groups,
                             entries : Seq(Entry), known : SUBSET Types]
  <2>1. syncing[i] \in Syncings(now) BY <1>4 DEF Typed
  <2>2. \A m \in Maps(now) : m \in Seq(Entry) BY InTime
  <2>. HIDE DEF Entry
  <2>. QED BY <2>1, <2>2 DEF Syncings
<1>5. files \in [Paths -> Seq(Entry)]
  <2>1. files \in [Paths -> Maps(now)] BY DEF Typed
  <2>2. \A m \in Maps(now) : m \in Seq(Entry) BY InTime
  <2>. QED BY <2>1, <2>2
<1>6. promised \in [Ids -> 0..MaxTime]
  <2>1. promised \in [Ids -> 0..now] BY DEF Typed
  <2>2. \A p \in 0..now : p \in 0..MaxTime BY <1>0
  <2>. QED BY <2>1, <2>2
<1>7. /\ life \in [Instances -> {"new", "up", "ended"}]
      /\ manifests \in [Range(Scopes) -> SUBSET Types] /\ spoiled \in BOOLEAN
  BY DEF Typed
<1>. QED BY <1>0, <1>1, <1>2, <1>3, <1>4, <1>5, <1>6, <1>7 DEF TypeOK

\* Every variable of AgentMemory keeps its type: a map never holds more than MaxEntries
\* entries, nor two of one key (AgentMemory.write evicts, Map.set replaces), whatever the
\* hydration, the tools and other containers do meanwhile.
THEOREM TypeCorrect == Spec => []TypeOK
<1>1. Spec => []Typed BY TypedInit, TypedStep, PTL DEF Spec
<1>. QED BY <1>1, TypedGivesTypeOK, PTL

-----------------------------------------------------------------------------
(***************************************************************************)
(* Newer entries win.                                                      *)
(***************************************************************************)
NewerWinsOnce ==
  \A i \in Instances, id \in Ids :
    Has(memory[i], id) /\ Has(memory'[i], id) =>
      \/ At(memory'[i], id) >= At(memory[i], id)
      \/ hydration[i].step = "file" /\ Len(memory'[i]) = MaxEntries

\* A step that gives one container another map, whose entries are no older.
LEMMA OneMapChanges ==
  ASSUME Typed, NEW i \in Instances, NEW m, memory' = [memory EXCEPT ![i] = m],
         \/ \A id \in Ids : Has(m, id) /\ Has(memory[i], id) => At(m, id) >= At(memory[i], id)
         \/ hydration[i].step = "file" /\ Len(m) = MaxEntries
  PROVE  NewerWinsOnce
<1>1. now \in Nat /\ memory \in [Instances -> Maps(now)] BY DEF Typed
<1>2. \A j \in Instances, id \in Ids : At(memory[j], id) \in 0..now
  <2>. TAKE j \in Instances, id \in Ids
  <2>1. memory[j] \in Maps(now) BY <1>1
  <2>. QED BY <2>1, <1>1, AtFacts
<1>3. \A j \in Instances, id \in Ids : At(memory[j], id) >= At(memory[j], id) BY <1>2
<1>4. \A j \in Instances : memory'[j] = IF j = i THEN m ELSE memory[j] BY <1>1
<1>. QED BY <1>3, <1>4 DEF NewerWinsOnce

LEMMA NewerWinsStep == Typed /\ [Next]_vars => NewerWinsOnce
<1>. SUFFICES ASSUME Typed, [Next]_vars PROVE NewerWinsOnce OBVIOUS
<1>0. /\ now \in Nat /\ now \in 1..now /\ memory \in [Instances -> Maps(now)]
      /\ files \in [Paths -> Maps(now)]
  BY DEF Typed
<1>m. \A i \in Instances, id \in Ids : At(memory[i], id) \in 0..now
  <2>. TAKE i \in Instances, id \in Ids
  <2>1. memory[i] \in Maps(now) BY <1>0
  <2>. QED BY <2>1, <1>0, AtFacts
<1>1. CASE memory' = memory
  <2>1. \A i \in Instances, id \in Ids : At(memory[i], id) >= At(memory[i], id) BY <1>m
  <2>. QED BY <2>1, <1>1 DEF NewerWinsOnce
<1>2. ASSUME NEW i \in Instances, NEW id \in Ids, WriteEntry(i, id) PROVE NewerWinsOnce
  <2>. DEFINE w == Write(memory[i], id, now)
  <2>1. memory' = [memory EXCEPT ![i] = w] BY <1>2 DEF WriteEntry, Becomes
  <2>2. /\ w \in Maps(now) /\ At(w, id) = now
        /\ \A j \in Ids \ {id} : At(w, j) = At(memory[i], j) \/ At(w, j) = 0
    BY <1>0, Constants, WriteFacts
  <2>. HIDE DEF w
  <2>3. \A j \in Ids : Has(w, j) => At(w, j) # 0 BY <2>2, <1>0, AtFacts
  <2>4. \A j \in Ids : Has(w, j) /\ Has(memory[i], j) => At(w, j) >= At(memory[i], j)
    <3>. SUFFICES ASSUME NEW j \in Ids, Has(w, j) PROVE At(w, j) >= At(memory[i], j) OBVIOUS
    <3>1. At(w, j) # 0 /\ At(memory[i], j) \in 0..now BY <2>3, <1>m
    <3>2. At(w, j) = now \/ At(w, j) = At(memory[i], j) BY <2>2, <3>1
    <3>. QED BY <3>1, <3>2, <1>0
  <2>. QED BY <2>1, <2>4, OneMapChanges
<1>3. ASSUME NEW i \in Instances, NEW id \in Ids, DeleteEntry(i, id) PROVE NewerWinsOnce
  <2>. DEFINE w == Keep(memory[i], Ids \ {id})
  <2>1. memory' = [memory EXCEPT ![i] = w] BY <1>3 DEF DeleteEntry, Becomes
  <2>2. /\ w \in Maps(now) /\ \A j \in Ids \ {id} : At(w, j) = At(memory[i], j)
        /\ At(w, id) = 0
    BY <1>0, Constants, KeepFacts
  <2>. HIDE DEF w
  <2>3. ~Has(w, id) BY <2>2, <1>0, AtFacts
  <2>4. \A j \in Ids : Has(w, j) /\ Has(memory[i], j) => At(w, j) >= At(memory[i], j)
    BY <2>2, <2>3, <1>m
  <2>. QED BY <2>1, <2>4, OneMapChanges
<1>4. ASSUME NEW i \in Instances, NEW type \in Types, HydrateFile(i, type)
      PROVE  NewerWinsOnce
  <2>. DEFINE g == [scope |-> Head(hydration[i].scopes), type |-> type]
              w == Merge(memory[i], files[PathOf(g)])
  <2>1. CASE memory' = memory BY <2>1, <1>1
  <2>2. CASE g \in Groups /\ Becomes(i, w)
    <3>1. memory' = [memory EXCEPT ![i] = w] BY <2>2 DEF Becomes
    <3>2. files[PathOf(g)] \in Maps(now) BY <2>2, <1>0, Constants
    <3>3. Len(w) = MaxEntries \/ \A id \in Ids : At(w, id) >= At(memory[i], id)
      BY <3>2, <1>0, Constants, MergeFacts
    <3>4. hydration[i].step = "file" BY <1>4 DEF HydrateFile
    <3>. HIDE DEF w
    <3>. QED BY <3>1, <3>3, <3>4, OneMapChanges
  <2>. QED BY <1>4, <2>1, <2>2 DEF HydrateFile
<1>5. ASSUME NEW i \in Instances, Ends(i) PROVE NewerWinsOnce
  <2>1. memory' = [memory EXCEPT ![i] = <<>>] BY <1>5 DEF Ends
  <2>2. \A id \in Ids : ~Has(<<>>, id) BY <1>0, NoEntries
  <2>. QED BY <2>1, <2>2, OneMapChanges
<1>6. ASSUME NEW i \in Instances,
             Dispose(i) \/ Save(i) \/ SaveFails(i) \/ Destroy(i) \/ Crash(i)
      PROVE  memory' = memory \/ Ends(i)
  BY <1>6 DEF Dispose, Save, SaveBegins, Saves, SaveGroup, SaveManifest, SaveFails, Destroy,
              Crash
<1>7. CASE Tick BY <1>7, <1>1 DEF Tick
<1>8. ASSUME NEW i \in Instances, Start(i) \/ Access(i) PROVE memory' = memory
  BY <1>8 DEF Start, Access
<1>9. ASSUME NEW i \in Instances, Sync(i) \/ \E g \in Groups : SyncBegins(i, g)
      PROVE  memory' = memory
  BY <1>9 DEF Sync, SyncFile, SyncRead, SyncManifest, SyncBegins
<1>10. ASSUME NEW i \in Instances, Hydrate(i)
       PROVE  memory' = memory \/ \E type \in Types : HydrateFile(i, type)
  BY <1>10 DEF Hydrate, HydrateScope, HydrationFails, HydrateManifest, ScopeHydrated,
               OnlyHydration
<1>11. CASE UNCHANGED vars BY <1>11, <1>1 DEF vars
<1>12. CASE Next
  BY <1>12, <1>1, <1>2, <1>3, <1>4, <1>5, <1>6, <1>7, <1>8, <1>9, <1>10 DEF Next
<1>. QED BY <1>11, <1>12

\* No merge, write or deletion leaves an older entry under a key than the map had, unless
\* the hydration merges a file into a map that is then full: there a newer entry may have
\* been evicted by the entries of the file before its older version came (loadMemoryFromFs
\* compares with what the map holds by then).
THEOREM NewerEntriesWin == Spec => NewerWins
<1>1. Spec => []Typed BY TypedInit, TypedStep, PTL DEF Spec
<1>2. Typed /\ [Next]_vars =>
        [\A i \in Instances, id \in Ids :
           Has(memory[i], id) /\ Has(memory'[i], id) =>
             \/ At(memory'[i], id) >= At(memory[i], id)
             \/ hydration[i].step = "file" /\ Len(memory'[i]) = MaxEntries]_vars
  BY NewerWinsStep DEF NewerWinsOnce
<1>. QED BY <1>1, <1>2, PTL DEF Spec, NewerWins

-----------------------------------------------------------------------------
(***************************************************************************)
(* Promises are kept.                                                      *)
(***************************************************************************)
LEMMA PathsApart ==
  ASSUME OneAfterAnother, NEW g \in Groups, NEW h \in Groups, PathOf(g) = PathOf(h)
  PROVE  g = h
<1>1. PICK a \in Ids : g = [scope |-> a.scope, type |-> a.type] BY DEF Groups
<1>2. PICK b \in Ids : h = [scope |-> b.scope, type |-> b.type] BY DEF Groups
<1>3. PathOf(g).scope = PathOf(h).scope /\ PathOf(g).file = PathOf(h).file OBVIOUS
<1>4. g.scope = h.scope /\ FileOf[g.type] = FileOf[h.type] BY <1>3 DEF PathOf
<1>5. g.type = h.type BY <1>4, Constants DEF OneAfterAnother
<1>6. a.scope = b.scope /\ a.type = b.type BY <1>1, <1>2, <1>4, <1>5
<1>. QED BY <1>1, <1>2, <1>6

\* The invariant has to be shown of the one container that is up.
LEMMA OnlyHere ==
  ASSUME IInv, NEW i \in Instances, life[i] = "up",
         \A j \in Instances \ {i} :
           /\ life'[j] = life[j] /\ memory'[j] = memory[j] /\ hydration'[j] = hydration[j]
           /\ saving'[j] = saving[j] /\ syncing'[j] = syncing[j],
         Orderly(i)', Recalls(i)', SyncRight(i)', SaveRight(i)', Filed', GoodDataKept'
  PROVE  IInv'
<1>1. ASSUME NEW j \in Instances \ {i}
      PROVE  /\ life[j] # "up" /\ memory[j] = <<>> /\ hydration[j] = NotHydrated
             /\ saving[j] = NotSaving /\ syncing[j] = NotSyncing
  <2>1. life[j] # "up" BY DEF IInv, Alone
  <2>2. Orderly(j) BY DEF IInv
  <2>3. NotHydrated.step = "none" BY DEF NotHydrated
  <2>. QED BY <2>1, <2>2, <2>3 DEF Orderly
<1>2. Alone' BY <1>1 DEF IInv, Alone
<1>3. ASSUME NEW j \in Instances \ {i}
      PROVE  Orderly(j)' /\ Recalls(j)' /\ SyncRight(j)' /\ SaveRight(j)'
  <2>1. /\ life'[j] # "up" /\ memory'[j] = <<>> /\ hydration'[j] = NotHydrated
        /\ saving'[j] = NotSaving /\ syncing'[j] = NotSyncing
    BY <1>1
  <2>2. NotHydrated.step = "none" /\ NotSaving.step = "none" BY DEF NotHydrated, NotSaving
  <2>3. Orderly(j)' BY <2>1, <2>2 DEF Orderly
  <2>4. Recalls(j)' BY <2>1, <2>2 DEF Recalls, Loaded
  <2>5. SyncRight(j)' BY <2>1 DEF SyncRight
  <2>6. SaveRight(j)' BY <2>1, <2>2 DEF SaveRight
  <2>. QED BY <2>3, <2>4, <2>5, <2>6
<1>4. \A j \in Instances : Orderly(j)' /\ Recalls(j)' /\ SyncRight(j)' /\ SaveRight(j)'
  BY <1>3
<1>. QED BY <1>2, <1>4 DEF IInv

LEMMA PromisesInit == Init => IInv
<1>. SUFFICES ASSUME Init PROVE IInv OBVIOUS
<1>. USE DEF Init
<1>1. Alone BY DEF Alone
<1>2. Filed BY EmptySeq DEF Filed
<1>3. GoodDataKept BY DEF GoodDataKept
<1>4. NotHydrated.step = "none" /\ NotSaving.step = "none" BY DEF NotHydrated, NotSaving
<1>5. ASSUME NEW i \in Instances PROVE Orderly(i) /\ Recalls(i) /\ SyncRight(i) /\ SaveRight(i)
  BY <1>4 DEF Orderly, Recalls, Loaded, SyncRight, SaveRight
<1>. QED BY <1>1, <1>2, <1>3, <1>5 DEF IInv

\* What a step of the users or of the hydration does to the map of a container.
LEMMA MapChanges ==
  ASSUME Typed, IInv, NEW i \in Instances, life[i] = "up",
         NEW m \in Maps(now), Becomes(i, m),
         NEW h, hydration' = [hydration EXCEPT ![i] = h], h.step # "none",
         Whole(hydration[i]) =>
           /\ Whole(h)
           /\ \A id \in Ids : Has(m, id) => At(m, id) = At(memory[i], id) \/ At(m, id) = now,
         \A id \in Ids : Loaded(h, id) => At(m, id) >= promised'[id],
         UNCHANGED <<life, saving, syncing, files, manifests>>
  PROVE  IInv'
<1>0. /\ now \in Nat /\ memory \in [Instances -> Maps(now)]
      /\ hydration \in [Instances -> Hydrations] /\ promised \in [Ids -> 0..now]
  BY DEF Typed
<1>1. memory'[i] = m /\ hydration'[i] = h BY <1>0 DEF Becomes
<1>2. \A id \in Ids : promised'[id] = 0 \/ promised'[id] = promised[id] BY DEF Becomes
<1>3. Orderly(i) /\ SyncRight(i) /\ SaveRight(i) /\ Filed /\ GoodDataKept BY DEF IInv
<1>4. Orderly(i)' BY <1>1, <1>3 DEF Orderly
<1>5. Recalls(i)' BY <1>1 DEF Recalls
<1>6. ASSUME NEW entries \in Maps(now), NEW id \in Ids, Whole(hydration[i]),
             Current(entries, i, id)
      PROVE  Current(entries, i, id)'
  <2>1. At(entries, id) \in 0..now /\ promised[id] \in 0..now BY <1>0, AtFacts
  <2>2. At(entries, id) >= promised'[id] BY <1>2, <1>6, <2>1 DEF Current
  <2>3. ASSUME Has(m, id) PROVE At(m, id) >= At(entries, id)
    <3>1. CASE At(m, id) = now BY <3>1, <2>1, <1>0
    <3>2. CASE At(m, id) = At(memory[i], id)
      <4>1. Has(memory[i], id) BY <3>2, <2>3 DEF Has
      <4>. QED BY <4>1, <3>2, <1>6 DEF Current
    <3>. QED BY <3>1, <3>2, <2>3, <1>6
  <2>. QED BY <2>2, <2>3, <1>1 DEF Current
<1>7. SyncRight(i)'
  <2>. SUFFICES ASSUME syncing[i] # NotSyncing PROVE SyncRight(i)' BY DEF SyncRight
  <2>. DEFINE s == syncing[i]
  <2>1. s \in Syncings(now) BY DEF Typed
  <2>2. s.entries \in Maps(now) BY <2>1 DEF Syncings
  <2>3. Whole(hydration[i]) BY <1>3 DEF Orderly
  <2>4. \A id \in Ids : GroupOf(id) = s.group => Current(s.entries, i, id)'
    BY <1>3, <1>6, <2>2, <2>3 DEF SyncRight
  <2>. QED BY <1>3, <2>4 DEF SyncRight
<1>8. SaveRight(i)'
  <2>. SUFFICES ASSUME saving[i].step \in {"groups", "manifests"} PROVE SaveRight(i)'
    BY DEF SaveRight
  <2>1. saving[i] \in Savings(now) BY DEF Typed
  <2>2. saving[i].entries \in Maps(now) BY <2>1 DEF Savings
  <2>3. Whole(hydration[i]) BY <1>3 DEF Orderly
  <2>4. \A id \in Ids : Current(saving[i].entries, i, id)'
    BY <1>3, <1>6, <2>2, <2>3 DEF SaveRight
  <2>. QED BY <1>3, <2>4 DEF SaveRight
<1>9. Filed' BY <1>3 DEF Filed
<1>10. GoodDataKept' BY <1>2, <1>3 DEF GoodDataKept, OnDisk
<1>11. \A j \in Instances \ {i} :
         /\ life'[j] = life[j] /\ memory'[j] = memory[j] /\ hydration'[j] = hydration[j]
         /\ saving'[j] = saving[j] /\ syncing'[j] = syncing[j]
  BY <1>0 DEF Becomes
<1>. QED BY <1>4, <1>5, <1>7, <1>8, <1>9, <1>10, <1>11, OnlyHere

LEMMA SameMap ==
  ASSUME Typed, NEW i \in Instances, UNCHANGED <<memory, promised>>
  PROVE  memory[i] \in Maps(now) /\ Becomes(i, memory[i])
<1>1. memory \in [Instances -> Maps(now)] /\ promised \in [Ids -> 0..now] BY DEF Typed
<1>2. memory' = [memory EXCEPT ![i] = memory[i]] BY <1>1
<1>3. promised' = [id \in Ids |-> promised[id]] BY <1>1
<1>. QED BY <1>1, <1>2, <1>3 DEF Becomes

\* An entry that is no older than what was promised of it stays so, unless it is lost and
\* the promise with it.
LEMMA Retains ==
  ASSUME Typed, NEW i \in Instances, NEW m \in Maps(now), Becomes(i, m), NEW id \in Ids,
         At(memory[i], id) >= promised[id],
         At(m, id) >= At(memory[i], id) \/ At(m, id) = 0
  PROVE  At(m, id) >= promised'[id]
<1>1. now \in Nat /\ memory[i] \in Maps(now) /\ promised[id] \in 0..now BY DEF Typed
<1>2. At(m, id) \in 0..now /\ At(memory[i], id) \in 0..now BY <1>1, AtFacts
<1>3. promised'[id] = 0 \/ promised'[id] = promised[id] BY DEF Becomes
<1>4. CASE At(m, id) >= At(memory[i], id) BY <1>1, <1>2, <1>3, <1>4
<1>5. CASE At(m, id) = 0 /\ At(memory[i], id) = 0 BY <1>1, <1>2, <1>3, <1>5
<1>6. CASE At(m, id) = 0 /\ At(memory[i], id) # 0
  <2>1. ~Has(m, id) /\ Has(memory[i], id) BY <1>1, <1>2, <1>6 DEF Has
  <2>2. promised'[id] = 0 BY <2>1 DEF Becomes
  <2>. QED BY <2>2, <1>2
<1>. QED BY <1>2, <1>4, <1>5, <1>6

LEMMA KeptUse ==
  ASSUME Typed, IInv, NEW i \in Instances,
         Access(i) \/ \E id \in Ids : WriteEntry(i, id) \/ DeleteEntry(i, id)
  PROVE  IInv'
<1>0. /\ now \in Nat /\ memory[i] \in Maps(now) /\ hydration \in [Instances -> Hydrations]
      /\ now \in 1..now /\ promised \in [Ids -> 0..now]
  BY DEF Typed
<1>1. Orderly(i) /\ Recalls(i) BY DEF IInv
<1>. DEFINE first == [hydration[i] EXCEPT !.step = "next", !.scopes = Scopes]
            h == IF hydration[i].step = "none" THEN first ELSE hydration[i]
<1>2. h.step # "none" /\ (Whole(hydration[i]) => Whole(h)) BY <1>0 DEF Whole, Hydrations
<1>3. Accessed(i) => hydration' = [hydration EXCEPT ![i] = h] BY <1>0 DEF Accessed
<1>4. ASSUME NEW id \in Ids, Loaded(h, id) PROVE At(memory[i], id) >= promised[id]
  <2>1. CASE hydration[i].step = "none"
    <3>1. first.step = "next" /\ first.scopes = Scopes BY <1>0 DEF Hydrations
    <3>2. id.scope \in Range(Scopes) BY Constants
    <3>. QED BY <1>4, <2>1, <3>1, <3>2 DEF Loaded
  <2>2. CASE hydration[i].step # "none" BY <1>1, <1>4, <2>2 DEF Recalls
  <2>. QED BY <2>1, <2>2
<1>5. CASE Access(i)
  <2>1. memory[i] \in Maps(now) /\ Becomes(i, memory[i]) BY <1>5, SameMap DEF Access
  <2>2. \A id \in Ids : At(memory[i], id) \in 0..now BY <1>0, AtFacts
  <2>3. \A id \in Ids : Loaded(h, id) => At(memory[i], id) >= promised'[id]
    BY <1>4, <1>5 DEF Access
  <2>. HIDE DEF h
  <2>. QED BY <1>2, <1>3, <1>5, <2>1, <2>3, MapChanges DEF Access, fs
<1>6. ASSUME NEW id \in Ids, WriteEntry(i, id) PROVE IInv'
  <2>. DEFINE m == Write(memory[i], id, now)
  <2>1. /\ m \in Maps(now) /\ At(m, id) = now
        /\ \A j \in Ids \ {id} : At(m, j) = At(memory[i], j) \/ At(m, j) = 0
    BY <1>0, Constants, WriteFacts
  <2>2. Becomes(i, m) /\ hydration' = [hydration EXCEPT ![i] = h] /\ life[i] = "up"
    BY <1>3, <1>6 DEF WriteEntry
  <2>. HIDE DEF m, h
  <2>3. \A j \in Ids : At(m, j) \in 0..now /\ At(memory[i], j) \in 0..now BY <1>0, <2>1, AtFacts
  <2>4. \A j \in Ids : At(m, j) >= At(memory[i], j) \/ At(m, j) = 0 BY <1>0, <2>1, <2>3
  <2>5. \A j \in Ids : Loaded(h, j) => At(m, j) >= promised'[j]
    BY <1>4, <2>1, <2>2, <2>4, Retains
  <2>6. \A j \in Ids : Has(m, j) => At(m, j) = At(memory[i], j) \/ At(m, j) = now
    BY <2>1 DEF Has
  <2>. QED BY <1>2, <1>6, <2>1, <2>2, <2>5, <2>6, MapChanges DEF WriteEntry, fs
<1>7. ASSUME NEW id \in Ids, DeleteEntry(i, id) PROVE IInv'
  <2>. DEFINE m == Keep(memory[i], Ids \ {id})
  <2>1. /\ m \in Maps(now) /\ \A j \in Ids \ {id} : At(m, j) = At(memory[i], j)
        /\ At(m, id) = 0
    BY <1>0, Constants, KeepFacts
  <2>2. Becomes(i, m) /\ UNCHANGED hydration /\ life[i] = "up" BY <1>7 DEF DeleteEntry
  <2>3. hydration[i].step # "none"
    <3>1. Has(memory[i], id) BY <1>7 DEF DeleteEntry
    <3>2. memory[i] # <<>> BY <3>1, <1>0, NoEntries
    <3>. QED BY <3>2, <1>1 DEF Orderly
  <2>4. hydration' = [hydration EXCEPT ![i] = h] BY <1>0, <2>2, <2>3
  <2>. HIDE DEF m, h
  <2>5. \A j \in Ids : At(m, j) \in 0..now /\ At(memory[i], j) \in 0..now BY <1>0, <2>1, AtFacts
  <2>6. \A j \in Ids : At(m, j) >= At(memory[i], j) \/ At(m, j) = 0 BY <2>1, <2>5
  <2>7. \A j \in Ids : Loaded(h, j) => At(m, j) >= promised'[j]
    BY <1>4, <2>1, <2>2, <2>6, Retains
  <2>8. \A j \in Ids : Has(m, j) => At(m, j) = At(memory[i], j) \/ At(m, j) = now
    BY <2>1 DEF Has
  <2>. QED BY <1>2, <1>7, <2>1, <2>2, <2>4, <2>7, <2>8, MapChanges DEF DeleteEntry, fs
<1>. QED BY <1>5, <1>6, <1>7

LEMMA HeadAndTail ==
  ASSUME NEW S, NEW s \in Seq(S), s # <<>>
  PROVE  Range(s) = {Head(s)} \cup Range(Tail(s))
<1>1. Len(s) \in Nat \ {0} /\ DOMAIN s = 1..Len(s) /\ Head(s) = s[1] BY EmptySeq
<1>2. /\ DOMAIN Tail(s) = 1..Len(s) - 1
      /\ \A n \in 1..Len(s) - 1 : Tail(s)[n] = s[n + 1]
  BY <1>1
<1>3. ASSUME NEW x \in Range(s) PROVE x \in {Head(s)} \cup Range(Tail(s))
  <2>1. PICK n \in 1..Len(s) : x = s[n] BY <1>1, <1>3 DEF Range
  <2>2. CASE n = 1 BY <1>1, <2>1, <2>2
  <2>3. CASE n # 1
    <3>1. n - 1 \in 1..Len(s) - 1 /\ n - 1 + 1 = n BY <1>1, <2>1, <2>3
    <3>2. Tail(s)[n - 1] = x BY <1>2, <2>1, <3>1
    <3>. QED BY <1>2, <3>1, <3>2 DEF Range
  <2>. QED BY <2>2, <2>3
<1>4. Head(s) \in Range(s) BY <1>1 DEF Range
<1>5. ASSUME NEW x \in Range(Tail(s)) PROVE x \in Range(s)
  <2>1. PICK n \in 1..Len(s) - 1 : x = Tail(s)[n] BY <1>2, <1>5 DEF Range
  <2>2. n + 1 \in 1..Len(s) /\ x = s[n + 1] BY <1>1, <1>2, <2>1
  <2>. QED BY <1>1, <2>2 DEF Range
<1>. QED BY <1>3, <1>4, <1>5

\* What is promised of an entry is in its file.
LEMMA PromisedIsFiled ==
  ASSUME Typed, IInv, NEW id \in Ids
  PROVE  /\ PathOf(GroupOf(id)) \in Paths /\ files[PathOf(GroupOf(id))] \in Maps(now)
         /\ At(files[PathOf(GroupOf(id))], id) >= promised[id]
         /\ promised[id] > 0 => id.type \in manifests[id.scope]
<1>1. now \in Nat /\ files \in [Paths -> Maps(now)] /\ promised[id] \in 0..now BY DEF Typed
<1>2. PathOf(GroupOf(id)) \in Paths BY Constants
<1>3. At(files[PathOf(GroupOf(id))], id) \in 0..now BY <1>1, <1>2, AtFacts
<1>4. promised[id] > 0 => OnDisk(id, promised[id]) BY DEF IInv, GoodDataKept
<1>. QED BY <1>1, <1>2, <1>3, <1>4 DEF OnDisk

\* A step of the hydration that changes no map.
LEMMA Hydrates ==
  ASSUME Typed, IInv, NEW i \in Instances, life[i] = "up", OnlyHydration,
         NEW h, hydration' = [hydration EXCEPT ![i] = h], h.step # "none",
         hydration[i].step # "done",
         \A id \in Ids : Loaded(h, id) => At(memory[i], id) >= promised[id]
  PROVE  IInv'
<1>1. UNCHANGED <<life, memory, saving, syncing, files, manifests, promised>>
  BY DEF OnlyHydration, fs
<1>2. memory[i] \in Maps(now) /\ Becomes(i, memory[i]) BY <1>1, SameMap
<1>3. ~Whole(hydration[i]) BY DEF Whole
<1>4. \A id \in Ids : Loaded(h, id) => At(memory[i], id) >= promised'[id] BY <1>1
<1>. QED BY <1>1, <1>2, <1>3, <1>4, MapChanges

LEMMA KeptHydrateScope ==
  ASSUME Typed, IInv, NEW i \in Instances, HydrateScope(i)
  PROVE  IInv'
<1>. DEFINE todo == hydration[i].scopes
<1>0. /\ now \in Nat /\ hydration \in [Instances -> Hydrations] /\ memory[i] \in Maps(now)
      /\ promised \in [Ids -> 0..now]
  BY DEF Typed
<1>1. /\ todo \in Seq(Range(Scopes)) /\ life[i] = "up" /\ OnlyHydration
      /\ hydration[i] \in Hydrations /\ hydration[i].step = "next"
  BY <1>0 DEF Hydrations, HydrateScope
<1>2. Recalls(i) BY DEF IInv
<1>3. CASE todo = <<>> /\ hydration' = [hydration EXCEPT ![i].step = "done"]
  <2>. DEFINE h == [hydration[i] EXCEPT !.step = "done"]
  <2>1. hydration' = [hydration EXCEPT ![i] = h] BY <1>0, <1>3
  <2>2. h.step = "done" /\ h.missed = hydration[i].missed BY <1>1 DEF Hydrations
  <2>. HIDE DEF h
  <2>3. ASSUME NEW id \in Ids, Loaded(h, id) PROVE At(memory[i], id) >= promised[id]
    <3>1. Range(todo) = {} BY <1>3 DEF Range
    <3>2. Loaded(hydration[i], id) BY <1>1, <2>2, <2>3, <3>1 DEF Loaded
    <3>. QED BY <1>2, <3>2 DEF Recalls
  <2>. QED BY <1>1, <2>1, <2>2, <2>3, Hydrates
<1>4. CASE /\ todo # <<>> /\ Unwritten(Head(todo))
           /\ hydration' = [hydration EXCEPT ![i].scopes = Tail(todo)]
  <2>. DEFINE h == [hydration[i] EXCEPT !.scopes = Tail(todo)]
  <2>1. hydration' = [hydration EXCEPT ![i] = h] BY <1>0, <1>4
  <2>2. h.step = "next" /\ h.scopes = Tail(todo) /\ h.missed = hydration[i].missed
    BY <1>1 DEF Hydrations
  <2>. HIDE DEF h
  <2>3. ASSUME NEW id \in Ids, Loaded(h, id) PROVE At(memory[i], id) >= promised[id]
    <3>1. Range(todo) = {Head(todo)} \cup Range(Tail(todo)) BY <1>1, <1>4, HeadAndTail
    <3>2. CASE id.scope = Head(todo)
      <4>1. id.type \notin manifests[id.scope] BY <1>4, <3>2 DEF Unwritten
      <4>2. promised[id] = 0 BY <4>1, <1>0, PromisedIsFiled
      <4>3. At(memory[i], id) \in 0..now BY <1>0, AtFacts
      <4>. QED BY <4>2, <4>3
    <3>3. CASE id.scope # Head(todo)
      <4>1. Loaded(hydration[i], id) BY <1>1, <2>2, <2>3, <3>1, <3>3 DEF Loaded
      <4>. QED BY <1>2, <4>1 DEF Recalls
    <3>. QED BY <3>2, <3>3
  <2>. QED BY <1>1, <2>1, <2>2, <2>3, Hydrates
<1>5. CASE /\ todo # <<>>
           /\ hydration' = [hydration EXCEPT ![i].step = "manifest",
                                             ![i].types = KnownTypes(memory[i])]
  <2>. DEFINE h == [hydration[i] EXCEPT !.step = "manifest", !.types = KnownTypes(memory[i])]
  <2>1. hydration' = [hydration EXCEPT ![i] = h] BY <1>0, <1>5
  <2>2. h.step = "manifest" /\ h.scopes = todo /\ h.missed = hydration[i].missed
    BY <1>1 DEF Hydrations
  <2>. HIDE DEF h
  <2>3. \A id \in Ids : Loaded(h, id) => Loaded(hydration[i], id) BY <1>1, <2>2 DEF Loaded
  <2>4. \A id \in Ids : Loaded(h, id) => At(memory[i], id) >= promised[id]
    BY <1>2, <2>3 DEF Recalls
  <2>. QED BY <1>1, <2>1, <2>2, <2>4, Hydrates
<1>. QED BY <1>3, <1>4, <1>5 DEF HydrateScope

LEMMA KeptHydrateManifest ==
  ASSUME Typed, IInv, NEW i \in Instances,
         HydrateManifest(i) \/ HydrationFails(i) \/ ScopeHydrated(i)
  PROVE  IInv'
<1>. DEFINE todo == hydration[i].scopes
<1>0. /\ now \in Nat /\ hydration \in [Instances -> Hydrations] /\ memory[i] \in Maps(now)
      /\ promised \in [Ids -> 0..now] /\ Opened(hydration[i])
  BY DEF Typed
<1>1. todo \in Seq(Range(Scopes)) /\ hydration[i] \in Hydrations BY <1>0 DEF Hydrations
<1>2. /\ life[i] = "up" /\ OnlyHydration /\ hydration[i].step # "done"
      /\ hydration[i].step \in {"next", "manifest", "file"}
  BY DEF HydrateManifest, HydrationFails, ScopeHydrated
<1>3. Recalls(i) BY DEF IInv
<1>4. ASSUME NEW h, hydration' = [hydration EXCEPT ![i] = h], h.missed, h.step # "none"
      PROVE  IInv'
  BY <1>2, <1>4, Hydrates DEF Loaded
<1>5. CASE HydrationFails(i)
  <2>. DEFINE h == [hydration[i] EXCEPT !.step = "done", !.missed = TRUE]
  <2>1. hydration' = [hydration EXCEPT ![i] = h] BY <1>0, <1>5 DEF HydrationFails
  <2>2. h.missed /\ h.step = "done" BY <1>1 DEF Hydrations
  <2>. QED BY <1>4, <2>1, <2>2
<1>6. CASE /\ hydration[i].step = "manifest"
           /\ hydration' = [hydration EXCEPT ![i].step = "file", ![i].missed = TRUE]
  <2>. DEFINE h == [hydration[i] EXCEPT !.step = "file", !.missed = TRUE]
  <2>1. hydration' = [hydration EXCEPT ![i] = h] BY <1>0, <1>6
  <2>2. h.missed /\ h.step = "file" BY <1>1 DEF Hydrations
  <2>. QED BY <1>4, <2>1, <2>2
<1>7. CASE /\ hydration[i].step = "manifest"
           /\ hydration' = [hydration EXCEPT ![i].step = "file",
                                             ![i].types = ScopeTypes(i, Head(todo))]
  <2>. DEFINE h == [hydration[i] EXCEPT !.step = "file", !.types = ScopeTypes(i, Head(todo))]
  <2>1. hydration' = [hydration EXCEPT ![i] = h] BY <1>0, <1>7
  <2>2. /\ h.step = "file" /\ h.scopes = todo /\ h.missed = hydration[i].missed
        /\ h.types = ScopeTypes(i, Head(todo))
    BY <1>1 DEF Hydrations
  <2>. HIDE DEF h
  <2>3. ASSUME NEW id \in Ids, Loaded(h, id) PROVE At(memory[i], id) >= promised[id]
    <3>1. CASE id.scope \notin Range(todo)
      <4>1. Loaded(hydration[i], id) BY <1>7, <2>2, <2>3, <3>1 DEF Loaded
      <4>. QED BY <4>1, <1>3 DEF Recalls
    <3>2. CASE id.scope = Head(todo) /\ id.type \notin ScopeTypes(i, Head(todo))
      <4>1. id.type \notin manifests[id.scope] BY <3>2 DEF ScopeTypes
      <4>2. promised[id] = 0 BY <4>1, <1>0, PromisedIsFiled
      <4>3. At(memory[i], id) \in 0..now BY <1>0, AtFacts
      <4>. QED BY <4>2, <4>3
    <3>. QED BY <2>2, <2>3, <3>1, <3>2 DEF Loaded
  <2>. QED BY <1>2, <2>1, <2>2, <2>3, Hydrates
<1>8. CASE ScopeHydrated(i)
  <2>. DEFINE h == [hydration[i] EXCEPT !.step = "next", !.scopes = Tail(todo)]
  <2>1. /\ hydration' = [hydration EXCEPT ![i] = h]
        /\ hydration[i].step = "file" /\ hydration[i].types = {}
    BY <1>0, <1>8 DEF ScopeHydrated
  <2>2. h.step = "next" /\ h.scopes = Tail(todo) /\ h.missed = hydration[i].missed
    BY <1>1 DEF Hydrations
  <2>3. Range(todo) = {Head(todo)} \cup Range(Tail(todo))
    BY <1>0, <1>1, <2>1, HeadAndTail DEF Opened
  <2>. HIDE DEF h
  <2>4. \A id \in Ids : Loaded(h, id) => Loaded(hydration[i], id)
    BY <2>1, <2>2, <2>3 DEF Loaded
  <2>5. \A id \in Ids : Loaded(h, id) => At(memory[i], id) >= promised[id]
    BY <2>4, <1>3 DEF Recalls
  <2>. QED BY <1>2, <2>1, <2>2, <2>5, Hydrates
<1>. QED BY <1>5, <1>6, <1>7, <1>8 DEF HydrateManifest

LEMMA KeptHydrateFile ==
  ASSUME Typed, IInv, NEW i \in Instances, NEW type \in Types, HydrateFile(i, type)
  PROVE  IInv'
<1>. DEFINE scope == Head(hydration[i].scopes)
            g == [scope |-> scope, type |-> type]
            h == [hydration[i] EXCEPT !.types = @ \ {type}]
<1>0. /\ now \in Nat /\ hydration \in [Instances -> Hydrations] /\ promised \in [Ids -> 0..now]
      /\ memory[i] \in Maps(now) /\ files \in [Paths -> Maps(now)]
  BY DEF Typed
<1>1. /\ life[i] = "up" /\ hydration[i].step = "file"
      /\ UNCHANGED <<life, saving, syncing, files, manifests>>
  BY <1>0 DEF HydrateFile, fs
<1>2. /\ h.step = "file" /\ h.scopes = hydration[i].scopes /\ h.missed = hydration[i].missed
      /\ h.types = hydration[i].types \ {type}
  BY <1>0, <1>1 DEF Hydrations
<1>3. Recalls(i) /\ Filed BY DEF IInv
<1>4. ASSUME NEW id \in Ids, Loaded(h, id)
      PROVE  Loaded(hydration[i], id) \/ GroupOf(id) = g
  BY <1>1, <1>2, <1>4 DEF Loaded, GroupOf
<1>9. ~Whole(hydration[i]) BY <1>1 DEF Whole
<1>10. hydration' = [hydration EXCEPT ![i].types = hydration[i].types \ {type}] =>
         hydration' = [hydration EXCEPT ![i] = h]
  BY <1>0
<1>. HIDE DEF h
<1>5. ASSUME NEW m \in Maps(now), Becomes(i, m),
             hydration' = [hydration EXCEPT ![i] = h],
             \A id \in Ids : Loaded(h, id) => At(m, id) >= promised'[id]
      PROVE  IInv'
  BY <1>1, <1>2, <1>5, <1>9, MapChanges
<1>6. CASE /\ g \in Groups /\ Becomes(i, Merge(memory[i], files[PathOf(g)]))
           /\ hydration' = [hydration EXCEPT ![i] = h]
  <2>. DEFINE es == files[PathOf(g)]
              m == Merge(memory[i], es)
  <2>1. PathOf(g) \in Paths /\ es \in Maps(now) BY <1>0, <1>6, Constants
  <2>2. /\ m \in Maps(now)
        /\ \A id \in Ids : Has(es, id) /\ Has(m, id) => At(m, id) >= At(es, id)
        /\ \A id \in Ids : Has(es, id) /\ ~Has(memory[i], id) => Has(m, id)
        /\ \A id \in Ids : ~Has(es, id) => At(m, id) = 0 \/ At(m, id) = At(memory[i], id)
    BY <1>0, <2>1, Constants, MergeFacts
  <2>3. \A id \in Ids : /\ At(m, id) \in 0..now /\ At(memory[i], id) \in 0..now
                        /\ At(es, id) \in 0..now
    BY <1>0, <2>1, <2>2, AtFacts
  <2>. HIDE DEF m
  <2>4. Becomes(i, m) BY <1>6 DEF m
  <2>5. ASSUME NEW id \in Ids, Loaded(h, id) PROVE At(m, id) >= promised'[id]
    <3>0. promised[id] \in 0..now /\ (promised'[id] = 0 \/ promised'[id] = promised[id])
      BY <1>0, <2>4 DEF Becomes
    <3>1. CASE Has(es, id)
      <4>1. PICK n \in 1..Len(es) : es[n].id = id BY <1>0, <2>1, <3>1, EntryOf
      <4>2. PathOf(GroupOf(id)) = PathOf(g) BY <4>1, <2>1, <1>3 DEF Filed
      <4>3. At(es, id) >= promised[id] BY <4>2, PromisedIsFiled
      <4>4. CASE Has(m, id)
        <5>1. At(m, id) >= At(es, id) BY <2>2, <3>1, <4>4
        <5>. QED BY <5>1, <4>3, <2>3, <3>0
      <4>5. CASE ~Has(m, id)
        <5>1. Has(memory[i], id) BY <2>2, <3>1, <4>5
        <5>2. promised'[id] = 0 BY <5>1, <4>5, <2>4 DEF Becomes
        <5>. QED BY <5>2, <2>3
      <4>. QED BY <4>4, <4>5
    <3>2. CASE ~Has(es, id) /\ Loaded(hydration[i], id)
      <4>1. At(memory[i], id) >= promised[id] BY <3>2, <1>3 DEF Recalls
      <4>2. At(m, id) >= At(memory[i], id) \/ At(m, id) = 0 BY <3>2, <2>2, <2>3
      <4>. QED BY <4>1, <4>2, <2>2, <2>4, Retains
    <3>3. CASE ~Has(es, id) /\ GroupOf(id) = g
      <4>1. At(es, id) = 0 BY <3>3, <2>3 DEF Has
      <4>2. promised[id] = 0 BY <4>1, <3>3, <3>0, PromisedIsFiled
      <4>. QED BY <4>2, <3>0, <2>3
    <3>. QED BY <1>4, <2>5, <3>1, <3>2, <3>3
  <2>. QED BY <1>5, <1>6, <2>2, <2>4, <2>5
<1>7. CASE /\ g \notin Groups /\ UNCHANGED <<memory, promised>>
           /\ hydration' = [hydration EXCEPT ![i] = h]
  <2>1. memory[i] \in Maps(now) /\ Becomes(i, memory[i]) BY <1>7, SameMap
  <2>2. ASSUME NEW id \in Ids, Loaded(h, id) PROVE At(memory[i], id) >= promised'[id]
    <3>1. GroupOf(id) # g BY <1>7, Constants
    <3>2. Loaded(hydration[i], id) BY <1>4, <2>2, <3>1
    <3>. QED BY <3>2, <1>3, <1>7 DEF Recalls
  <2>. QED BY <1>5, <1>7, <2>1, <2>2
<1>8. CASE /\ UNCHANGED <<memory, promised>>
           /\ hydration' = [hydration EXCEPT ![i].types = hydration[i].types \ {type},
                                             ![i].missed = TRUE]
  <2>. DEFINE k == [hydration[i] EXCEPT !.types = @ \ {type}, !.missed = TRUE]
  <2>1. hydration' = [hydration EXCEPT ![i] = k] BY <1>0, <1>8
  <2>2. k.missed /\ k.step = "file" BY <1>0, <1>1 DEF Hydrations
  <2>. HIDE DEF k
  <2>3. memory[i] \in Maps(now) /\ Becomes(i, memory[i]) BY <1>8, SameMap
  <2>4. \A id \in Ids : ~Loaded(k, id) BY <2>2 DEF Loaded
  <2>. QED BY <1>1, <1>9, <2>1, <2>2, <2>3, <2>4, MapChanges
<1>. QED BY <1>6, <1>7, <1>8, <1>10 DEF HydrateFile

LEMMA NoStep ==
  /\ NotSyncing.step = "none" /\ NotSaving.step = "none" /\ NotHydrated.step = "none"
  /\ Typed => \A i \in Instances : syncing[i].step = "none" <=> syncing[i] = NotSyncing
<1>1. NotSyncing.step = "none" /\ NotSaving.step = "none" /\ NotHydrated.step = "none"
  BY DEF NotSyncing, NotSaving, NotHydrated
<1>2. ASSUME Typed, NEW i \in Instances PROVE syncing[i].step = "none" <=> syncing[i] = NotSyncing
  <2>1. syncing[i] = NotSyncing \/ syncing[i] \in Syncings(now) BY <1>2 DEF Typed
  <2>2. syncing[i] \in Syncings(now) => syncing[i].step \in {"file", "read", "manifest"}
    BY DEF Syncings
  <2>. QED BY <1>1, <2>1, <2>2
<1>. QED BY <1>1, <1>2

LEMMA KeptTickAndStart ==
  ASSUME OneAfterAnother, Typed, IInv, Tick \/ \E i \in Instances : Start(i)
  PROVE  IInv'
<1>0. UNCHANGED <<memory, saving, syncing, files, manifests, promised>>
  BY DEF Tick, Start, fs
<1>1. Filed' /\ GoodDataKept' BY <1>0 DEF IInv, Filed, GoodDataKept, OnDisk
<1>2. ASSUME NEW i \in Instances PROVE SyncRight(i)' /\ SaveRight(i)'
  <2>1. SyncRight(i) /\ SaveRight(i) BY DEF IInv
  <2>3. SyncRight(i)' BY <1>0, <2>1 DEF SyncRight, Current
  <2>4. SaveRight(i)' BY <1>0, <2>1 DEF SaveRight, Current
  <2>. QED BY <2>3, <2>4
<1>3. CASE Tick
  <2>1. UNCHANGED <<life, hydration>> BY <1>3 DEF Tick
  <2>2. Alone' BY <2>1 DEF IInv, Alone
  <2>3. ASSUME NEW i \in Instances PROVE Orderly(i)' /\ Recalls(i)'
    <3>1. Orderly(i) /\ Recalls(i) BY DEF IInv
    <3>. QED BY <1>0, <2>1, <3>1 DEF Orderly, Recalls
  <2>. QED BY <1>1, <1>2, <2>2, <2>3 DEF IInv
<1>4. ASSUME NEW i \in Instances, Start(i) PROVE IInv'
  <2>1. /\ life \in [Instances -> {"new", "up", "ended"}]
        /\ hydration \in [Instances -> Hydrations]
    BY DEF Typed
  <2>2. life' = [life EXCEPT ![i] = "up"] /\ \A j \in Instances : life[j] # "up"
    BY <1>4 DEF Start, OneAfterAnother
  <2>3. Alone' BY <2>1, <2>2 DEF Alone
  <2>4. ASSUME NEW j \in Instances PROVE Orderly(j)' /\ Recalls(j)'
    <3>1. Orderly(j) /\ Recalls(j) BY DEF IInv
    <3>2. life[j] # "up" BY <2>2
    <3>3. /\ hydration[j] = NotHydrated /\ saving[j] = NotSaving
          /\ syncing[j] = NotSyncing /\ memory[j] = <<>>
      BY <3>1, <3>2, NoStep DEF Orderly
    <3>4. /\ saving'[j] = NotSaving /\ syncing'[j] = NotSyncing /\ memory'[j] = <<>>
      BY <1>0, <3>3
    <3>5. hydration'[j] = NotHydrated \/ hydration'[j].step = "never"
      BY <1>4, <2>1, <3>3 DEF Start, Hydrations
    <3>6. j # i => hydration'[j] = NotHydrated /\ life'[j] # "up"
      BY <1>4, <2>1, <2>2, <3>2, <3>3 DEF Start
    <3>7. Orderly(j)' BY <2>1, <2>2, <3>4, <3>5, <3>6, NoStep DEF Orderly
    <3>8. Recalls(j)' BY <3>5, NoStep DEF Recalls, Loaded
    <3>. QED BY <3>7, <3>8
  <2>. QED BY <1>1, <1>2, <2>3, <2>4 DEF IInv
<1>. QED BY <1>3, <1>4

\* A container that ends leaves nothing but the files.
LEMMA KeptEnds ==
  ASSUME Typed, IInv, NEW i \in Instances, life[i] = "up",
         Ends(i), Filed', GoodDataKept'
  PROVE  IInv'
<1>0. /\ life \in [Instances -> {"new", "up", "ended"}]
      /\ memory \in [Instances -> Maps(now)] /\ hydration \in [Instances -> Hydrations]
      /\ saving \in [Instances -> Savings(now)]
      /\ syncing \in [Instances -> {NotSyncing} \cup Syncings(now)]
  BY DEF Typed
<1>1. /\ life'[i] # "up" /\ memory'[i] = <<>> /\ hydration'[i] = NotHydrated
      /\ saving'[i] = NotSaving /\ syncing'[i] = NotSyncing
  BY <1>0 DEF Ends
<1>2. \A j \in Instances \ {i} :
        /\ life'[j] = life[j] /\ memory'[j] = memory[j] /\ hydration'[j] = hydration[j]
        /\ saving'[j] = saving[j] /\ syncing'[j] = syncing[j]
  BY <1>0 DEF Ends
<1>3. Orderly(i)' BY <1>1, NoStep DEF Orderly
<1>4. Recalls(i)' BY <1>1, NoStep DEF Recalls, Loaded
<1>5. SyncRight(i)' BY <1>1 DEF SyncRight
<1>6. SaveRight(i)' BY <1>1, NoStep DEF SaveRight
<1>. QED BY <1>2, <1>3, <1>4, <1>5, <1>6, OnlyHere

LEMMA KeptStops ==
  ASSUME Typed, IInv, NEW i \in Instances, SaveFails(i) \/ Destroy(i) \/ Crash(i)
  PROVE  IInv'
<1>1. /\ Ends(i)
      /\ UNCHANGED <<files, manifests, promised>>
  BY DEF SaveFails, Destroy, Crash, fs
<1>2. Filed' /\ GoodDataKept' BY <1>1 DEF IInv, Filed, GoodDataKept, OnDisk
<1>3. life[i] = "up" BY DEF SaveFails, Destroy, Crash
<1>. QED BY <1>1, <1>2, <1>3, KeptEnds

\* The start of a save, of a memory that was loaded as a whole.
LEMMA KeptSaves ==
  ASSUME Typed, IInv, NEW i \in Instances, life[i] = "up", Saves(i), ~spoiled',
         syncing[i] = NotSyncing,
         memory[i] # <<>> => Partial(i) \/ hydration[i].step = "done"
  PROVE  IInv'
<1>0. /\ now \in Nat /\ memory[i] \in Maps(now) /\ saving \in [Instances -> Savings(now)]
      /\ UNCHANGED <<files, manifests, promised>>
  BY DEF Typed, Saves, fs
<1>1. Filed' /\ GoodDataKept' BY <1>0 DEF IInv, Filed, GoodDataKept, OnDisk
<1>2. CASE memory[i] = <<>>
  <2>1. Ends(i) BY <1>2 DEF Saves
  <2>. QED BY <1>0, <1>1, <2>1, KeptEnds
<1>3. CASE memory[i] # <<>>
  <2>. DEFINE s == [step |-> "groups", entries |-> memory[i],
                    groups |-> {GroupOf(memory[i][n].id) : n \in DOMAIN memory[i]},
                    scopes |-> {memory[i][n].id.scope : n \in DOMAIN memory[i]}]
  <2>1. saving' = [saving EXCEPT ![i] = s] /\ UNCHANGED <<life, memory, hydration, syncing>>
    BY <1>3 DEF Saves
  <2>2. /\ saving'[i] = s
        /\ \A j \in Instances \ {i} :
             /\ life'[j] = life[j] /\ memory'[j] = memory[j] /\ hydration'[j] = hydration[j]
             /\ saving'[j] = saving[j] /\ syncing'[j] = syncing[j]
    BY <1>0, <2>1
  <2>3. Orderly(i) /\ Recalls(i) BY DEF IInv
  <2>4. Whole(hydration[i])
    <3>1. ~Partial(i) BY <1>3 DEF Saves
    <3>. QED BY <1>3, <3>1 DEF Partial, Whole
  <2>6. Orderly(i)' BY <2>1, <2>4 DEF Orderly, Whole
  <2>7. Recalls(i)' BY <1>0, <2>1, <2>3 DEF Recalls
  <2>8. SyncRight(i)' BY <2>1 DEF SyncRight
  <2>9. \A id \in Ids : At(memory[i], id) >= promised[id] BY <2>3, <2>4 DEF Recalls, Loaded, Whole
  <2>10. \A id \in Ids : At(memory[i], id) \in 0..now BY <1>0, AtFacts
  <2>11. \A id \in Ids : Current(memory[i], i, id) BY <1>0, <2>9, <2>10 DEF Current
  <2>12. ASSUME NEW id \in Ids, Has(memory[i], id)
         PROVE  GroupOf(id) \in s.groups /\ id.scope \in s.scopes
    <3>1. PICK n \in 1..Len(memory[i]) : memory[i][n].id = id BY <1>0, <2>12, EntryOf
    <3>2. DOMAIN memory[i] = 1..Len(memory[i]) BY <1>0, MapFacts
    <3>. QED BY <3>1, <3>2
  <2>. HIDE DEF s
  <2>13. s.step = "groups" /\ s.entries = memory[i] BY DEF s
  <2>14. SaveRight(i)' BY <1>0, <2>1, <2>2, <2>11, <2>12, <2>13 DEF SaveRight, Current
  <2>. QED BY <1>0, <1>1, <2>2, <2>6, <2>7, <2>8, <2>14, OnlyHere
<1>. QED BY <1>2, <1>3

LEMMA KeptSaveBegins ==
  ASSUME Typed, IInv, NEW i \in Instances, SaveBegins(i), ~spoiled'
  PROVE  IInv'
<1>1. Orderly(i) BY DEF IInv
<1>2. /\ life[i] = "up" /\ saving[i].step = "wait" /\ Saves(i)
      /\ hydration[i].step = "done"
  BY DEF SaveBegins, Waited
<1>3. syncing[i] = NotSyncing BY <1>1, <1>2 DEF Orderly
<1>. QED BY <1>2, <1>3, KeptSaves

LEMMA KeptDispose ==
  ASSUME OneAfterAnother, Typed, IInv, NEW i \in Instances, Dispose(i), ~spoiled'
  PROVE  IInv'
<1>0. saving \in [Instances -> Savings(now)] BY DEF Typed
<1>3. Orderly(i) /\ Recalls(i) BY DEF IInv
<1>10. life[i] = "up" /\ syncing[i] = NotSyncing BY NoStep DEF Dispose, OneAfterAnother
<1>11. CASE hydration[i].step \in {"none", "never"}
  <2>1. Saves(i) BY <1>11 DEF Dispose
  <2>2. memory[i] # <<>> => Partial(i) BY <1>3, <1>11 DEF Orderly, Partial
  <2>. QED BY <1>10, <2>1, <2>2, KeptSaves
<1>. SUFFICES ASSUME hydration[i].step \notin {"none", "never"} PROVE IInv' BY <1>11
<1>1. /\ saving' = [saving EXCEPT ![i].step = "wait"]
      /\ UNCHANGED <<life, memory, hydration, syncing, files, manifests, promised>>
  BY DEF Dispose, fs
<1>2. saving'[i].step = "wait" BY <1>0, <1>1 DEF Savings
<1>4. Orderly(i)' BY <1>1, <1>2, <1>3, <1>10 DEF Orderly
<1>5. Recalls(i)' BY <1>1, <1>3 DEF Recalls
<1>6. SyncRight(i)' BY <1>1, <1>10 DEF SyncRight
<1>7. SaveRight(i)' BY <1>2 DEF SaveRight
<1>8. Filed' /\ GoodDataKept' BY <1>1 DEF IInv, Filed, GoodDataKept, OnDisk
<1>9. \A j \in Instances \ {i} :
        /\ life'[j] = life[j] /\ memory'[j] = memory[j] /\ hydration'[j] = hydration[j]
        /\ saving'[j] = saving[j] /\ syncing'[j] = syncing[j]
  BY <1>0, <1>1
<1>. QED BY <1>4, <1>5, <1>6, <1>7, <1>8, <1>9, <1>10, OnlyHere

LEMMA KeptSaveGroup ==
  ASSUME OneAfterAnother, Typed, IInv, NEW i \in Instances, NEW g \in Groups, SaveGroup(i, g)
  PROVE  IInv'
<1>. DEFINE entries == saving[i].entries
            saved == Group(entries, g)
<1>0. /\ now \in Nat /\ saving \in [Instances -> Savings(now)] /\ files \in [Paths -> Maps(now)]
      /\ promised \in [Ids -> 0..now]
  BY DEF Typed
<1>1. /\ life[i] = "up" /\ saving[i].step = "groups"
      /\ files' = [files EXCEPT ![PathOf(g)] = saved]
      /\ saving' = [saving EXCEPT ![i].groups = @ \ {g},
                                  ![i].step = IF saving[i].groups = {g} THEN "manifests" ELSE @]
      /\ UNCHANGED <<life, memory, hydration, syncing, manifests, promised>>
  BY DEF SaveGroup
<1>2. /\ saving'[i].entries = entries /\ saving'[i].scopes = saving[i].scopes
      /\ saving'[i].groups = saving[i].groups \ {g}
      /\ saving'[i].step = IF saving[i].groups = {g} THEN "manifests" ELSE "groups"
  BY <1>0, <1>1 DEF Savings
<1>3. \A j \in Instances \ {i} :
        /\ life'[j] = life[j] /\ memory'[j] = memory[j] /\ hydration'[j] = hydration[j]
        /\ saving'[j] = saving[j] /\ syncing'[j] = syncing[j]
  BY <1>0, <1>1
<1>4. Orderly(i) /\ Recalls(i) /\ SaveRight(i) /\ Filed /\ GoodDataKept BY DEF IInv
<1>5. PathOf(g) \in Paths /\ entries \in Maps(now) BY <1>0, Constants DEF Savings
<1>6. /\ saved \in Maps(now)
      /\ \A n \in 1..Len(saved) : saved[n].id \in Ids /\ GroupOf(saved[n].id) = g
      /\ \A id \in Ids : GroupOf(id) = g => At(saved, id) = At(entries, id)
  <2>1. /\ saved \in Maps(now)
        /\ \A n \in 1..Len(saved) : saved[n].id \in {id \in Ids : GroupOf(id) = g}
        /\ \A id \in {id \in Ids : GroupOf(id) = g} : At(saved, id) = At(entries, id)
    BY <1>0, <1>5, Constants, KeepFacts DEF Group
  <2>. QED BY <2>1
<1>. HIDE DEF saved
<1>7. /\ files'[PathOf(g)] = saved
      /\ \A p \in Paths : p # PathOf(g) => files'[p] = files[p]
  BY <1>0, <1>1, <1>5
<1>8. \A id \in Ids : PathOf(GroupOf(id)) = PathOf(g) => GroupOf(id) = g
  BY Constants, PathsApart
<1>9. Filed'
  <2>. SUFFICES ASSUME NEW p \in Paths, NEW n \in 1..Len(files'[p])
                PROVE  PathOf(GroupOf(files'[p][n].id)) = p
    BY DEF Filed
  <2>1. CASE p = PathOf(g) BY <1>6, <1>7, <2>1
  <2>2. CASE p # PathOf(g) BY <1>4, <1>7, <2>2 DEF Filed
  <2>. QED BY <2>1, <2>2
<1>10. GoodDataKept'
  <2>. SUFFICES ASSUME NEW id \in Ids, promised[id] > 0 PROVE OnDisk(id, promised[id])'
    BY <1>1 DEF GoodDataKept, OnDisk
  <2>1. OnDisk(id, promised[id]) BY <1>4 DEF GoodDataKept
  <2>2. CASE GroupOf(id) = g
    <3>1. At(entries, id) >= promised[id] BY <1>1, <1>4 DEF SaveRight, Current
    <3>. QED BY <1>1, <1>6, <1>7, <2>1, <2>2, <3>1 DEF OnDisk
  <2>3. CASE GroupOf(id) # g
    <3>1. PathOf(GroupOf(id)) \in Paths /\ PathOf(GroupOf(id)) # PathOf(g)
      BY <1>8, <2>3, Constants
    <3>. QED BY <1>1, <1>7, <2>1, <3>1 DEF OnDisk
  <2>. QED BY <2>2, <2>3
<1>11. Whole(hydration[i]) /\ syncing[i] = NotSyncing BY <1>1, <1>4 DEF Orderly
<1>12. Orderly(i)' BY <1>1, <1>11 DEF Orderly, Whole
<1>13. Recalls(i)' BY <1>1, <1>4 DEF Recalls
<1>14. SyncRight(i)' BY <1>1, <1>11 DEF SyncRight
<1>15. SaveRight(i)'
  <2>1. \A id \in Ids : Current(entries, i, id)' BY <1>1, <1>2, <1>4 DEF SaveRight, Current
  <2>2. ASSUME NEW id \in Ids, Has(entries, id)
        PROVE  \/ GroupOf(id) \in saving[i].groups \ {g}
               \/ files'[PathOf(GroupOf(id))] = Group(entries, GroupOf(id))
    <3>1. CASE GroupOf(id) = g BY <1>7, <3>1 DEF saved
    <3>2. CASE GroupOf(id) # g
      <4>1. PathOf(GroupOf(id)) \in Paths /\ PathOf(GroupOf(id)) # PathOf(g)
        BY <1>8, <3>2, Constants
      <4>. QED BY <1>1, <1>4, <1>7, <2>2, <3>2, <4>1 DEF SaveRight
    <3>. QED BY <3>1, <3>2
  <2>3. \A id \in Ids : Has(entries, id) =>
          id.scope \in saving[i].scopes \/ id.type \in manifests[id.scope]
    BY <1>1, <1>4 DEF SaveRight
  <2>4. saving'[i].step = "manifests" => saving'[i].groups = {} BY <1>2
  <2>. QED BY <1>1, <1>2, <2>1, <2>2, <2>3, <2>4 DEF SaveRight
<1>. QED BY <1>1, <1>3, <1>9, <1>10, <1>12, <1>13, <1>14, <1>15, OnlyHere

LEMMA KeptSaveManifest ==
  ASSUME Typed, IInv, NEW i \in Instances, NEW scope \in Range(Scopes), SaveManifest(i, scope)
  PROVE  IInv'
<1>. DEFINE entries == saving[i].entries
            named == {entries[n].id.type : n \in {m \in DOMAIN entries : entries[m].id.scope = scope}}
            last == saving[i].scopes = {scope}
<1>0. /\ now \in Nat /\ saving \in [Instances -> Savings(now)] /\ entries \in Maps(now)
      /\ manifests \in [Range(Scopes) -> SUBSET Types] /\ promised \in [Ids -> 0..now]
      /\ memory[i] \in Maps(now)
  BY DEF Typed, Savings
<1>1. /\ life[i] = "up" /\ saving[i].step = "manifests" /\ scope \in saving[i].scopes
      /\ manifests' = [manifests EXCEPT ![scope] = named]
      /\ UNCHANGED files
  BY DEF SaveManifest
<1>2. Orderly(i) /\ Recalls(i) /\ SaveRight(i) /\ Filed /\ GoodDataKept BY DEF IInv
<1>3. ASSUME NEW id \in Ids, Has(entries, id), id.scope = scope PROVE id.type \in named
  <2>1. PICK n \in 1..Len(entries) : entries[n].id = id BY <1>0, <1>3, EntryOf
  <2>2. DOMAIN entries = 1..Len(entries) BY <1>0, MapFacts
  <2>. QED BY <1>3, <2>1, <2>2
<1>. HIDE DEF named
<1>4. ASSUME NEW id \in Ids, Has(entries, id)
      PROVE  id.scope \in saving[i].scopes \ {scope} \/ id.type \in manifests'[id.scope]
  <2>1. id.scope \in Range(Scopes) BY Constants
  <2>2. CASE id.scope = scope BY <1>0, <1>1, <1>3, <1>4, <2>1, <2>2
  <2>3. CASE id.scope # scope
    <3>1. id.scope \in saving[i].scopes \/ id.type \in manifests[id.scope]
      BY <1>1, <1>2, <1>4 DEF SaveRight
    <3>. QED BY <1>0, <1>1, <2>1, <2>3, <3>1
  <2>. QED BY <2>2, <2>3
<1>5. \A id \in Ids : /\ At(entries, id) \in 0..now /\ Current(entries, i, id)
                      /\ promised[id] \in 0..now
  BY <1>0, <1>1, <1>2, AtFacts DEF SaveRight
<1>6. ASSUME NEW id \in Ids, promised[id] > 0 PROVE OnDisk(id, promised[id])'
  <2>1. OnDisk(id, promised[id]) /\ id.scope \in Range(Scopes)
    BY <1>2, <1>6, Constants DEF GoodDataKept
  <2>2. At(entries, id) >= promised[id] BY <1>5 DEF Current
  <2>3. Has(entries, id) BY <1>5, <1>6, <2>2 DEF Has
  <2>4. id.type \in manifests'[id.scope]
    <3>1. CASE id.scope = scope BY <1>0, <1>1, <1>3, <2>1, <2>3, <3>1
    <3>2. CASE id.scope # scope BY <1>0, <1>1, <2>1, <3>2 DEF OnDisk
    <3>. QED BY <3>1, <3>2
  <2>5. promised'[id] = promised[id] \/ last
    BY DEF SaveManifest
  <2>6. CASE ~last BY <1>1, <2>1, <2>4, <2>5, <2>6 DEF OnDisk
  <2>7. CASE last
    <3>1. promised' = Promised(i, entries) BY <2>7 DEF SaveManifest
    <3>2. promised'[id] = promised[id] \/ promised'[id] = At(entries, id)
      BY <1>5, <2>2, <3>1, MaxOfTwo DEF Promised
    <3>3. PathOf(GroupOf(id)) \in Paths BY Constants
    <3>4. At(files[PathOf(GroupOf(id))], id) >= At(entries, id)
      <4>1. files[PathOf(GroupOf(id))] = Group(entries, GroupOf(id))
        BY <1>1, <1>2, <2>3 DEF SaveRight
      <4>2. At(Group(entries, GroupOf(id)), id) = At(entries, id)
        BY <1>0, Constants, KeepFacts DEF Group
      <4>. QED BY <1>5, <4>1, <4>2
    <3>. QED BY <1>1, <2>1, <2>4, <3>2, <3>4 DEF OnDisk
  <2>. QED BY <2>6, <2>7
<1>7. Filed' BY <1>1, <1>2 DEF Filed
<1>8. CASE last
  <2>1. Ends(i) /\ promised' = Promised(i, entries) BY <1>8 DEF SaveManifest
  <2>2. ASSUME NEW id \in Ids, promised'[id] > 0 PROVE OnDisk(id, promised[id])'
    <3>1. CASE promised[id] > 0 BY <1>6, <3>1
    <3>2. CASE ~(promised[id] > 0)
      <4>1. promised'[id] = At(entries, id) /\ Has(entries, id)
        BY <1>5, <2>1, <2>2, <3>2, MaxOfTwo DEF Promised, Has
      <4>2. id.type \in manifests'[id.scope] BY <1>4, <1>8, <4>1
      <4>3. files[PathOf(GroupOf(id))] = Group(entries, GroupOf(id))
        BY <1>1, <1>2, <4>1 DEF SaveRight
      <4>4. At(Group(entries, GroupOf(id)), id) = At(entries, id)
        BY <1>0, Constants, KeepFacts DEF Group
      <4>. QED BY <1>1, <1>5, <4>1, <4>2, <4>3, <4>4 DEF OnDisk
    <3>. QED BY <3>1, <3>2
  <2>3. GoodDataKept' BY <2>2 DEF GoodDataKept
  <2>. QED BY <1>1, <1>7, <2>1, <2>3, KeptEnds
<1>9. CASE ~last
  <2>1. /\ saving' = [saving EXCEPT ![i].scopes = @ \ {scope}]
        /\ UNCHANGED <<life, memory, hydration, syncing, promised>>
    BY <1>9 DEF SaveManifest
  <2>2. /\ saving'[i].entries = entries /\ saving'[i].groups = saving[i].groups
        /\ saving'[i].scopes = saving[i].scopes \ {scope} /\ saving'[i].step = "manifests"
    BY <1>0, <1>1, <2>1 DEF Savings
  <2>3. \A j \in Instances \ {i} :
          /\ life'[j] = life[j] /\ memory'[j] = memory[j] /\ hydration'[j] = hydration[j]
          /\ saving'[j] = saving[j] /\ syncing'[j] = syncing[j]
    BY <1>0, <2>1
  <2>4. GoodDataKept' BY <1>6, <2>1 DEF GoodDataKept
  <2>5. Whole(hydration[i]) /\ syncing[i] = NotSyncing BY <1>1, <1>2 DEF Orderly
  <2>6. Orderly(i)' BY <1>1, <2>1, <2>5 DEF Orderly, Whole
  <2>7. Recalls(i)' BY <1>2, <2>1 DEF Recalls
  <2>8. SyncRight(i)' BY <2>1, <2>5 DEF SyncRight
  <2>9. SaveRight(i)'
    <3>1. \A id \in Ids : Current(entries, i, id)' BY <1>5, <2>1, <2>2 DEF Current
    <3>2. /\ saving[i].groups = {}
          /\ \A id \in Ids : Has(entries, id) =>
               files[PathOf(GroupOf(id))] = Group(entries, GroupOf(id))
      BY <1>1, <1>2 DEF SaveRight
    <3>. QED BY <1>1, <1>4, <2>2, <3>1, <3>2 DEF SaveRight
  <2>. QED BY <1>1, <1>7, <2>3, <2>4, <2>6, <2>7, <2>8, <2>9, OnlyHere
<1>. QED BY <1>8, <1>9

LEMMA KeptSyncBegins ==
  ASSUME OneAfterAnother, Typed, IInv, NEW i \in Instances, NEW g \in Groups, SyncBegins(i, g),
         ~spoiled'
  PROVE  IInv'
<1>. DEFINE entries == Group(memory[i], g)
            s == [step |-> "file", group |-> g, entries |-> entries, known |-> {}]
<1>0. /\ now \in Nat /\ memory[i] \in Maps(now)
      /\ syncing \in [Instances -> {NotSyncing} \cup Syncings(now)]
  BY DEF Typed
<1>1. /\ life[i] = "up" /\ Whole(hydration[i]) /\ saving[i].step = "none"
      /\ syncing' = [syncing EXCEPT ![i] = s]
      /\ UNCHANGED <<life, memory, hydration, saving, files, manifests, promised>>
  <2>1. ~Partial(i) /\ hydration[i].step = "done" BY DEF SyncBegins
  <2>. QED BY <2>1 DEF SyncBegins, OneAfterAnother, Partial, Whole, fs
<1>2. /\ \A n \in 1..Len(entries) : GroupOf(entries[n].id) = g
      /\ \A id \in Ids : GroupOf(id) = g => At(entries, id) = At(memory[i], id)
  <2>1. /\ \A n \in 1..Len(entries) : entries[n].id \in {id \in Ids : GroupOf(id) = g}
        /\ \A id \in {id \in Ids : GroupOf(id) = g} : At(entries, id) = At(memory[i], id)
    BY <1>0, Constants, KeepFacts DEF Group
  <2>. QED BY <2>1
<1>3. s.step = "file" /\ s.group = g /\ s.entries = entries OBVIOUS
<1>. HIDE DEF s, entries
<1>4. /\ syncing'[i] = s
      /\ \A j \in Instances \ {i} :
           /\ life'[j] = life[j] /\ memory'[j] = memory[j] /\ hydration'[j] = hydration[j]
           /\ saving'[j] = saving[j] /\ syncing'[j] = syncing[j]
  BY <1>0, <1>1
<1>5. Orderly(i) /\ Recalls(i) BY DEF IInv
<1>6. \A id \in Ids : /\ At(memory[i], id) >= promised[id] /\ At(memory[i], id) \in 0..now
  BY <1>0, <1>1, <1>5, AtFacts DEF Recalls, Loaded, Whole
<1>7. \A id \in Ids : GroupOf(id) = g => Current(entries, i, id)
  BY <1>0, <1>2, <1>6 DEF Current
<1>8. Orderly(i)' BY <1>1, <1>5 DEF Orderly, Whole
<1>9. Recalls(i)' BY <1>1, <1>5 DEF Recalls
<1>10. SyncRight(i)' BY <1>1, <1>2, <1>3, <1>4, <1>7 DEF SyncRight, Current
<1>11. SaveRight(i)' BY <1>1 DEF SaveRight
<1>12. Filed' /\ GoodDataKept' BY <1>1 DEF IInv, Filed, GoodDataKept, OnDisk
<1>. QED BY <1>1, <1>4, <1>8, <1>9, <1>10, <1>11, <1>12, OnlyHere

\* The facts about a sync in progress that its steps rely on.
LEMMA InSync ==
  ASSUME Typed, IInv, NEW i \in Instances, syncing[i] # NotSyncing
  PROVE  LET s == syncing[i]
         IN  /\ s \in Syncings(now) /\ s.group \in Groups /\ s.entries \in Maps(now)
             /\ PathOf(s.group) \in Paths /\ s.group.scope \in Range(Scopes)
             /\ Whole(hydration[i]) /\ saving[i].step = "none"
             /\ \A id \in Ids : /\ At(memory[i], id) \in 0..now /\ At(s.entries, id) \in 0..now
                                /\ promised[id] \in 0..now /\ At(memory[i], id) >= promised[id]
             /\ \A n \in 1..Len(s.entries) : GroupOf(s.entries[n].id) = s.group
             /\ \A id \in Ids : GroupOf(id) = s.group => Current(s.entries, i, id)
             /\ \A id \in Ids : GroupOf(id) # s.group => At(s.entries, id) = 0
<1>. DEFINE s == syncing[i]
<1>0. /\ now \in Nat /\ memory[i] \in Maps(now) /\ promised \in [Ids -> 0..now]
      /\ s \in Syncings(now)
  BY DEF Typed
<1>1. s.group \in Groups /\ s.entries \in Maps(now) BY <1>0 DEF Syncings
<1>2. Orderly(i) /\ Recalls(i) /\ SyncRight(i) BY DEF IInv
<1>3. Whole(hydration[i]) /\ saving[i].step = "none" BY <1>2 DEF Orderly
<1>4. \A id \in Ids : /\ At(memory[i], id) \in 0..now /\ At(s.entries, id) \in 0..now
                      /\ promised[id] \in 0..now
  BY <1>0, <1>1, AtFacts
<1>5. \A id \in Ids : At(memory[i], id) >= promised[id]
  BY <1>2, <1>3 DEF Recalls, Loaded, Whole
<1>6. /\ \A n \in 1..Len(s.entries) : GroupOf(s.entries[n].id) = s.group
      /\ \A id \in Ids : GroupOf(id) = s.group => Current(s.entries, i, id)
  BY <1>2 DEF SyncRight
<1>7. ASSUME NEW id \in Ids, GroupOf(id) # s.group PROVE At(s.entries, id) = 0
  <2>1. SUFFICES ASSUME Has(s.entries, id) PROVE FALSE BY <1>0, <1>1, AtFacts
  <2>2. PICK n \in 1..Len(s.entries) : s.entries[n].id = id BY <1>0, <1>1, <2>1, EntryOf
  <2>. QED BY <1>6, <1>7, <2>2
<1>. QED BY <1>0, <1>1, <1>3, <1>4, <1>5, <1>6, <1>7, Constants

LEMMA KeptSyncFile ==
  ASSUME OneAfterAnother, Typed, IInv, NEW i \in Instances, SyncFile(i)
  PROVE  IInv'
<1>. DEFINE s == syncing[i]
            t == IF s.entries = <<>> THEN NotSyncing ELSE [s EXCEPT !.step = "read"]
<1>0. /\ now \in Nat /\ files \in [Paths -> Maps(now)] /\ promised \in [Ids -> 0..now]
      /\ syncing \in [Instances -> {NotSyncing} \cup Syncings(now)]
  BY DEF Typed
<1>1. /\ life[i] = "up" /\ s.step = "file" /\ s # NotSyncing
      /\ files' = [files EXCEPT ![PathOf(s.group)] = s.entries]
      /\ syncing' = [syncing EXCEPT ![i] = t]
      /\ UNCHANGED <<life, memory, hydration, saving, manifests, promised>>
  BY NoStep DEF SyncFile
<1>2. /\ s \in Syncings(now) /\ s.group \in Groups /\ PathOf(s.group) \in Paths
      /\ Whole(hydration[i]) /\ saving[i].step = "none"
      /\ \A n \in 1..Len(s.entries) : GroupOf(s.entries[n].id) = s.group
      /\ \A id \in Ids : GroupOf(id) = s.group => Current(s.entries, i, id)
  BY <1>1, InSync
<1>3. \/ t = NotSyncing
      \/ t.step = "read" /\ t.group = s.group /\ t.entries = s.entries
  <2>1. CASE s.entries = <<>> BY <2>1
  <2>2. CASE s.entries # <<>>
    <3>1. t = [s EXCEPT !.step = "read"] BY <2>2
    <3>2. t.step = "read" /\ t.group = s.group /\ t.entries = s.entries
      BY <1>2, <3>1 DEF Syncings
    <3>. QED BY <3>2
  <2>. QED BY <2>1, <2>2
<1>. HIDE DEF t
<1>4. /\ syncing'[i] = t
      /\ \A j \in Instances \ {i} :
           /\ life'[j] = life[j] /\ memory'[j] = memory[j] /\ hydration'[j] = hydration[j]
           /\ saving'[j] = saving[j] /\ syncing'[j] = syncing[j]
  BY <1>0, <1>1
<1>5. /\ files'[PathOf(s.group)] = s.entries
      /\ \A p \in Paths : p # PathOf(s.group) => files'[p] = files[p]
  BY <1>0, <1>1, <1>2
<1>6. Orderly(i) /\ Recalls(i) /\ Filed /\ GoodDataKept BY DEF IInv
<1>7. Filed'
  <2>. SUFFICES ASSUME NEW p \in Paths, NEW n \in 1..Len(files'[p])
                PROVE  PathOf(GroupOf(files'[p][n].id)) = p
    BY DEF Filed
  <2>1. CASE p = PathOf(s.group) BY <1>2, <1>5, <2>1
  <2>2. CASE p # PathOf(s.group) BY <1>5, <1>6, <2>2 DEF Filed
  <2>. QED BY <2>1, <2>2
<1>8. GoodDataKept'
  <2>. SUFFICES ASSUME NEW id \in Ids, promised[id] > 0 PROVE OnDisk(id, promised[id])'
    BY <1>1 DEF GoodDataKept, OnDisk
  <2>1. OnDisk(id, promised[id]) BY <1>6 DEF GoodDataKept
  <2>2. CASE GroupOf(id) = s.group
    <3>1. At(s.entries, id) >= promised[id] BY <1>2, <2>2 DEF Current
    <3>. QED BY <1>1, <1>5, <2>1, <2>2, <3>1 DEF OnDisk
  <2>3. CASE GroupOf(id) # s.group
    <3>1. PathOf(GroupOf(id)) \in Paths /\ PathOf(GroupOf(id)) # PathOf(s.group)
      BY <1>2, <2>3, Constants, PathsApart
    <3>. QED BY <1>1, <1>5, <2>1, <3>1 DEF OnDisk
  <2>. QED BY <2>2, <2>3
<1>9. Orderly(i)' BY <1>1, <1>2, <1>6 DEF Orderly
<1>10. Recalls(i)' BY <1>1, <1>6 DEF Recalls
<1>11. SyncRight(i)'
  <2>1. CASE t = NotSyncing BY <1>4, <2>1 DEF SyncRight
  <2>2. CASE t.step = "read" /\ t.group = s.group /\ t.entries = s.entries
    BY <1>1, <1>2, <1>4, <1>5, <2>2 DEF SyncRight, Current
  <2>. QED BY <1>3, <2>1, <2>2
<1>12. SaveRight(i)' BY <1>1, <1>2 DEF SaveRight
<1>. QED BY <1>1, <1>4, <1>7, <1>8, <1>9, <1>10, <1>11, <1>12, OnlyHere

\* The end of a sync promises what it wrote.
LEMMA KeptSyncEnds ==
  ASSUME Typed, IInv, NEW i \in Instances, life[i] = "up",
         syncing[i].step \in {"read", "manifest"}, SyncEnds(i),
         \A scope \in Range(Scopes) : manifests[scope] \subseteq manifests'[scope],
         syncing[i].group.type \in manifests'[syncing[i].group.scope],
         UNCHANGED <<life, memory, hydration, saving, files>>
  PROVE  IInv'
<1>. DEFINE s == syncing[i]
<1>0. /\ now \in Nat /\ promised \in [Ids -> 0..now] /\ s # NotSyncing
      /\ syncing \in [Instances -> {NotSyncing} \cup Syncings(now)]
  BY NoStep DEF Typed
<1>1. /\ s.group \in Groups /\ s.entries \in Maps(now)
      /\ Whole(hydration[i]) /\ saving[i].step = "none"
      /\ \A id \in Ids : /\ At(memory[i], id) \in 0..now /\ At(s.entries, id) \in 0..now
                         /\ promised[id] \in 0..now /\ At(memory[i], id) >= promised[id]
      /\ \A id \in Ids : GroupOf(id) = s.group => Current(s.entries, i, id)
      /\ \A id \in Ids : GroupOf(id) # s.group => At(s.entries, id) = 0
  BY <1>0, InSync
<1>2. /\ syncing'[i] = NotSyncing /\ promised' = Promised(i, s.entries)
      /\ \A j \in Instances \ {i} :
           /\ life'[j] = life[j] /\ memory'[j] = memory[j] /\ hydration'[j] = hydration[j]
           /\ saving'[j] = saving[j] /\ syncing'[j] = syncing[j]
  BY <1>0 DEF SyncEnds
<1>3. ASSUME NEW id \in Ids
      PROVE  \/ promised'[id] = promised[id]
             \/ /\ GroupOf(id) = s.group /\ Has(memory[i], id)
                /\ promised'[id] = At(s.entries, id)
  <2>1. promised'[id] = IF Has(memory[i], id) THEN Max({promised[id], At(s.entries, id)})
                                               ELSE promised[id]
    BY <1>2 DEF Promised
  <2>2. Max({promised[id], At(s.entries, id)})
          = IF promised[id] >= At(s.entries, id) THEN promised[id] ELSE At(s.entries, id)
    BY <1>1, MaxOfTwo
  <2>3. CASE GroupOf(id) = s.group BY <1>1, <2>1, <2>2, <2>3
  <2>4. CASE GroupOf(id) # s.group BY <1>1, <2>1, <2>2, <2>4
  <2>. QED BY <2>3, <2>4
<1>4. Orderly(i) /\ Recalls(i) /\ SyncRight(i) /\ Filed /\ GoodDataKept BY DEF IInv
<1>5. Filed' BY <1>4 DEF Filed
<1>6. GoodDataKept'
  <2>. SUFFICES ASSUME NEW id \in Ids, promised'[id] > 0 PROVE OnDisk(id, promised[id])'
    BY DEF GoodDataKept
  <2>1. id.scope \in Range(Scopes) BY Constants
  <2>2. CASE promised'[id] = promised[id]
    <3>1. OnDisk(id, promised[id]) BY <1>4, <2>2 DEF GoodDataKept
    <3>. QED BY <2>1, <2>2, <3>1 DEF OnDisk
  <2>3. CASE GroupOf(id) = s.group /\ promised'[id] = At(s.entries, id)
    <3>1. files[PathOf(s.group)] = s.entries BY <1>0, <1>4 DEF SyncRight
    <3>2. id.type \in manifests'[id.scope] BY <2>3, Constants
    <3>. QED BY <1>1, <2>3, <3>1, <3>2 DEF OnDisk
  <2>. QED BY <1>3, <2>2, <2>3
<1>7. Orderly(i)' BY <1>2, <1>4 DEF Orderly
<1>8. Recalls(i)'
  <2>. SUFFICES ASSUME NEW id \in Ids PROVE At(memory[i], id) >= promised'[id]
    BY DEF Recalls
  <2>1. CASE promised'[id] = promised[id] BY <1>1, <2>1
  <2>2. CASE /\ GroupOf(id) = s.group /\ Has(memory[i], id)
             /\ promised'[id] = At(s.entries, id)
    BY <1>1, <2>2 DEF Current
  <2>. QED BY <1>3, <2>1, <2>2
<1>9. SyncRight(i)' BY <1>2 DEF SyncRight
<1>10. SaveRight(i)' BY <1>1 DEF SaveRight
<1>. QED BY <1>2, <1>5, <1>6, <1>7, <1>8, <1>9, <1>10, OnlyHere

LEMMA KeptSync ==
  ASSUME OneAfterAnother, Typed, IInv, NEW i \in Instances, Sync(i), ~spoiled'
  PROVE  IInv'
<1>. DEFINE s == syncing[i]
<1>0. /\ syncing \in [Instances -> {NotSyncing} \cup Syncings(now)]
      /\ manifests \in [Range(Scopes) -> SUBSET Types]
  BY DEF Typed
<1>1. CASE SyncFile(i) BY <1>1, KeptSyncFile
<1>2. CASE SyncRead(i) /\ s.group.type \in manifests[s.group.scope] /\ SyncEnds(i)
  <2>1. /\ SyncEnds(i) /\ s.step = "read" /\ life[i] = "up"
        /\ UNCHANGED <<life, memory, hydration, saving, files, manifests>>
    BY <1>2 DEF SyncRead, fs
  <2>. QED BY <1>2, <2>1, KeptSyncEnds
<1>3. CASE /\ SyncRead(i) /\ UNCHANGED promised
           /\ syncing' = [syncing EXCEPT ![i] =
                [s EXCEPT !.step = "manifest", !.known = manifests[s.group.scope]]]
  <2>. DEFINE t == [s EXCEPT !.step = "manifest", !.known = manifests[s.group.scope]]
  <2>1. /\ s.step = "read" /\ s # NotSyncing /\ life[i] = "up"
        /\ syncing' = [syncing EXCEPT ![i] = t]
        /\ UNCHANGED <<life, memory, hydration, saving, files, manifests, promised>>
    BY <1>3, NoStep DEF SyncRead, fs
  <2>2. s \in Syncings(now) /\ Whole(hydration[i]) /\ saving[i].step = "none"
    BY <2>1, InSync
  <2>3. /\ t.step = "manifest" /\ t.group = s.group /\ t.entries = s.entries
        /\ t.known = manifests[s.group.scope]
    BY <2>2 DEF Syncings
  <2>. HIDE DEF t
  <2>4. /\ syncing'[i] = t
        /\ \A j \in Instances \ {i} :
             /\ life'[j] = life[j] /\ memory'[j] = memory[j] /\ hydration'[j] = hydration[j]
             /\ saving'[j] = saving[j] /\ syncing'[j] = syncing[j]
    BY <1>0, <2>1
  <2>5. Orderly(i) /\ Recalls(i) /\ SyncRight(i) BY DEF IInv
  <2>6. Orderly(i)' BY <2>1, <2>2, <2>5 DEF Orderly
  <2>7. Recalls(i)' BY <2>1, <2>5 DEF Recalls
  <2>8. SyncRight(i)' BY <2>1, <2>3, <2>4, <2>5 DEF SyncRight, Current
  <2>9. SaveRight(i)' BY <2>1, <2>2 DEF SaveRight
  <2>10. Filed' /\ GoodDataKept' BY <2>1 DEF IInv, Filed, GoodDataKept, OnDisk
  <2>. QED BY <2>1, <2>4, <2>6, <2>7, <2>8, <2>9, <2>10, OnlyHere
<1>4. CASE SyncManifest(i)
  <2>1. /\ SyncEnds(i) /\ s.step = "manifest" /\ s # NotSyncing /\ life[i] = "up"
        /\ manifests' = [manifests EXCEPT ![s.group.scope] = s.known \cup {s.group.type}]
        /\ UNCHANGED <<life, memory, hydration, saving, files>>
    BY <1>4, NoStep DEF SyncManifest
  <2>2. s.group.scope \in Range(Scopes) BY <2>1, InSync
  <2>3. s.known = manifests[s.group.scope] BY <2>1 DEF IInv, SyncRight
  <2>4. /\ \A scope \in Range(Scopes) : manifests[scope] \subseteq manifests'[scope]
        /\ s.group.type \in manifests'[s.group.scope]
    BY <1>0, <2>1, <2>2, <2>3
  <2>. QED BY <2>1, <2>4, KeptSyncEnds
<1>5. SyncRead(i) => \/ s.group.type \in manifests[s.group.scope] /\ SyncEnds(i)
                     \/ /\ UNCHANGED promised
                        /\ syncing' = [syncing EXCEPT ![i] =
                             [s EXCEPT !.step = "manifest", !.known = manifests[s.group.scope]]]
  BY DEF SyncRead
<1>. QED BY <1>1, <1>2, <1>3, <1>4, <1>5 DEF Sync

\* What is spoiled stays so.
LEMMA StaysSpoiled == Typed /\ [Next]_vars /\ spoiled => spoiled'
<1>. SUFFICES ASSUME Typed, [Next]_vars, spoiled PROVE spoiled' OBVIOUS
<1>1. ASSUME NEW i \in Instances, Hydrate(i) PROVE spoiled'
  BY <1>1 DEF Hydrate, HydrateScope, HydrationFails, HydrateManifest, ScopeHydrated,
              HydrateFile, OnlyHydration
<1>2. ASSUME NEW i \in Instances, Saves(i) PROVE spoiled' BY <1>2 DEF Saves
<1>3. ASSUME NEW i \in Instances, Dispose(i) PROVE spoiled' BY <1>2, <1>3 DEF Dispose
<1>4. ASSUME NEW i \in Instances, Save(i) PROVE spoiled'
  BY <1>2, <1>4 DEF Save, SaveBegins, SaveGroup, SaveManifest
<1>5. ASSUME NEW i \in Instances, Sync(i) PROVE spoiled'
  BY <1>5 DEF Sync, SyncFile, SyncRead, SyncManifest
<1>6. ASSUME NEW i \in Instances, SaveFails(i) \/ Destroy(i) \/ Crash(i) PROVE spoiled'
  BY <1>6 DEF SaveFails, Destroy, Crash
<1>7. ASSUME NEW i \in Instances,
             \/ Start(i) \/ Access(i) \/ \E id \in Ids : WriteEntry(i, id) \/ DeleteEntry(i, id)
             \/ \E g \in Groups : SyncBegins(i, g)
      PROVE  spoiled'
  BY <1>7 DEF Start, Access, WriteEntry, DeleteEntry, SyncBegins
<1>. QED BY <1>1, <1>3, <1>4, <1>5, <1>6, <1>7 DEF Next, Tick, vars

LEMMA PromisesStep == OneAfterAnother /\ Typed /\ IInv /\ [Next]_vars /\ ~spoiled' => IInv'
<1>. SUFFICES ASSUME OneAfterAnother, Typed, IInv, [Next]_vars, ~spoiled' PROVE IInv' OBVIOUS
<1>1. CASE Tick BY <1>1, KeptTickAndStart
<1>2. ASSUME NEW i \in Instances,
             \/ Start(i) \/ Access(i) \/ Hydrate(i) \/ Dispose(i) \/ Save(i) \/ SaveFails(i)
             \/ Sync(i) \/ Destroy(i) \/ Crash(i)
             \/ \E id \in Ids : WriteEntry(i, id) \/ DeleteEntry(i, id)
             \/ \E g \in Groups : SyncBegins(i, g)
      PROVE  IInv'
  <2>1. CASE Start(i) BY <2>1, KeptTickAndStart
  <2>2. CASE Access(i) \/ \E id \in Ids : WriteEntry(i, id) \/ DeleteEntry(i, id)
    BY <2>2, KeptUse
  <2>3. CASE Hydrate(i)
    BY <2>3, KeptHydrateScope, KeptHydrateManifest, KeptHydrateFile DEF Hydrate
  <2>4. CASE Dispose(i) BY <2>4, KeptDispose
  <2>5. CASE Save(i) BY <2>5, KeptSaveBegins, KeptSaveGroup, KeptSaveManifest DEF Save
  <2>6. CASE SaveFails(i) \/ Destroy(i) \/ Crash(i) BY <2>6, KeptStops
  <2>7. CASE Sync(i) BY <2>7, KeptSync
  <2>8. CASE \E g \in Groups : SyncBegins(i, g) BY <2>8, KeptSyncBegins
  <2>. QED BY <1>2, <2>1, <2>2, <2>3, <2>4, <2>5, <2>6, <2>7, <2>8
<1>3. CASE UNCHANGED vars
  <2>1. UNCHANGED <<life, memory, hydration, saving, syncing, files, manifests, promised>>
    BY <1>3 DEF vars, fs
  <2>2. Alone' /\ Filed' /\ GoodDataKept'
    BY <2>1 DEF IInv, Alone, Filed, GoodDataKept, OnDisk
  <2>3. ASSUME NEW i \in Instances
        PROVE  Orderly(i)' /\ Recalls(i)' /\ SyncRight(i)' /\ SaveRight(i)'
    <3>1. Orderly(i) /\ Recalls(i) /\ SyncRight(i) /\ SaveRight(i) BY DEF IInv
    <3>2. Orderly(i)' /\ Recalls(i)' BY <2>1, <3>1 DEF Orderly, Recalls
    <3>3. SyncRight(i)' BY <2>1, <3>1 DEF SyncRight, Current
    <3>4. SaveRight(i)' BY <2>1, <3>1 DEF SaveRight, Current
    <3>. QED BY <3>2, <3>3, <3>4
  <2>. QED BY <2>2, <2>3 DEF IInv
<1>. QED BY <1>1, <1>2, <1>3 DEF Next

LEMMA PromisesInvariant == OneAfterAnother /\ Spec => [](Typed /\ Unspoilt)
<1>. SUFFICES ASSUME OneAfterAnother PROVE Spec => [](Typed /\ Unspoilt) OBVIOUS
<1>1. Init => Typed /\ Unspoilt BY TypedInit, PromisesInit DEF Unspoilt
<1>2. Typed /\ Unspoilt /\ [Next]_vars => (Typed /\ Unspoilt)'
  BY TypedStep, PromisesStep, StaysSpoiled DEF Unspoilt
<1>. QED BY <1>1, <1>2, PTL DEF Spec

\* What a completed save or sync has put on disk stays there, and is named by the manifest,
\* until it is deleted or evicted, whatever the containers that follow write, crash on or
\* fail to save (syncAgentMemory, syncMemoryToFs): if they follow one another, none with a
\* sync in progress when it is disposed, if every type of agent has a file of its own, and
\* for as long as no memory that was loaded in part, or not at all, has been saved.
THEOREM PromisesStay == OneAfterAnother /\ Spec => []PromisesKept
<1>1. Unspoilt => PromisesKept BY DEF Unspoilt, IInv, PromisesKept
<1>. QED BY <1>1, PromisesInvariant, PTL

\* On the same terms, a container that has hydrated its memory (loadMemoryFromFs) from files
\* that could be read recalls all that the ones before it have saved, whatever is written
\* while it loads and whatever it evicts.
THEOREM MemoryRecalls == OneAfterAnother /\ Spec => []Recalled
<1>1. Unspoilt => Recalled BY DEF Unspoilt, IInv, Recalls, Loaded, Recalled, Partial
<1>. QED BY <1>1, PromisesInvariant, PTL
=============================================================================
