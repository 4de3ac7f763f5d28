------------------------- MODULE ShellControlProofs -------------------------
(***************************************************************************)
(* Proofs about the control flow of the interpreter, for constructs nested *)
(* to any depth: every exception leaves the counters as they were found,   *)
(* but for the calls that an error in the targets of a function's          *)
(* redirections leaves counted; break and continue end where they lead to. *)
(*                                                                         *)
(* The inductive invariant says of each frame of the call stack that the   *)
(* counters found by the construct count the frames below it, and of the   *)
(* counters that they are what the construct on top makes of what it has   *)
(* found.  That of a jump says that the loops above its target are as many *)
(* as it has levels to pay for.                                            *)
(***************************************************************************)
EXTENDS ShellControl, FiniteSetTheorems, WellFoundedInduction, TLAPS

-----------------------------------------------------------------------------
(***************************************************************************)
(* What the first n constructs of a stack s add up to.                     *)
(***************************************************************************)
OpenIn(s, n) ==
  {i \in 1..n : s[i].kind \in Loops /\ \A b \in 1..n : s[b].kind \in Isolated => b < i}
KindIn(s, n, kind) == {i \in 1..n : s[i].kind = kind}

Counts(s, n, c) ==
  /\ c.loopDepth = Cardinality(OpenIn(s, n))
  /\ c.inCondition = (\E i \in 1..n : s[i].phase = "condition")
  /\ c.callDepth = Cardinality(KindIn(s, n, "function"))
  /\ c.sourceDepth = Cardinality(KindIn(s, n, "source"))
  /\ c.executingErrTrap = (KindIn(s, n, "errTrap") # {})

\* c is what the construct of frame f makes of the counters it has found.
Agrees(c, f) ==
  /\ c.loopDepth = IF f.kind \in Loops THEN f.found.loopDepth + 1
                   ELSE IF f.kind \in Isolated THEN 0 ELSE f.found.loopDepth
  /\ c.parentHasLoopContext = IF f.kind \in Isolated THEN f.found.loopDepth > 0
                              ELSE f.found.parentHasLoopContext
  /\ c.inCondition = (f.found.inCondition \/ f.phase = "condition")
  /\ c.callDepth = IF f.kind = "function" THEN f.found.callDepth + 1 ELSE f.found.callDepth
  /\ c.sourceDepth = IF f.kind = "source" THEN f.found.sourceDepth + 1
                     ELSE f.found.sourceDepth
  /\ c.executingErrTrap = (f.found.executingErrTrap \/ f.kind = "errTrap")

\* The same counters, whatever errexit is.
Same6(c, d) ==
  /\ c.loopDepth = d.loopDepth /\ c.parentHasLoopContext = d.parentHasLoopContext
  /\ c.inCondition = d.inCondition /\ c.callDepth = d.callDepth
  /\ c.sourceDepth = d.sourceDepth /\ c.executingErrTrap = d.executingErrTrap

\* Frame i of s has found what the frames below it count; the handler of ERR is
\* executed outside of conditions, and never within itself.
Sound(s, i) ==
  /\ s[i].kind \notin Isolated => ~s[i].found.errexit
  /\ s[i].kind = "errTrap" => ~s[i].found.executingErrTrap
  /\ s[i].stage = "errTrap" => \A j \in 1..i : s[j].phase = "body"
  /\ Counts(s, i - 1, s[i].found)
  /\ i > 1 => Agrees(s[i].found, s[i-1])

Well(s, c) ==
  /\ \A i \in 1..Len(s) : Sound(s, i)
  /\ s # <<>> => Agrees(c, s[Len(s)])

-----------------------------------------------------------------------------
\* One more construct on the stack: the loops break can see.
LEMMA OpenStep ==
  ASSUME NEW s \in Seq(Frames), NEW n \in 1..Len(s)
  PROVE  /\ s[n].kind \in Isolated => OpenIn(s, n) = {}
         /\ s[n].kind \in Loops => OpenIn(s, n) = OpenIn(s, n - 1) \cup {n}
         /\ s[n].kind \notin Isolated \cup Loops => OpenIn(s, n) = OpenIn(s, n - 1)
<1>1. ASSUME s[n].kind \in Isolated PROVE OpenIn(s, n) = {}
  <2>1. \A i \in 1..n : ~(n < i) BY SMT
  <2>. QED BY <1>1, <2>1 DEF OpenIn
<1>2. ASSUME s[n].kind \notin Isolated
      PROVE  \A i \in 1..n-1 : i \in OpenIn(s, n) <=> i \in OpenIn(s, n - 1)
  BY <1>2 DEF OpenIn
<1>3. ASSUME s[n].kind \in Loops PROVE OpenIn(s, n) = OpenIn(s, n - 1) \cup {n}
  <2>1. s[n].kind \notin Isolated BY <1>3 DEF Loops, Isolated
  <2>2. \A b \in 1..n : s[b].kind \in Isolated => b < n BY <2>1
  <2>3. n \in OpenIn(s, n) BY <1>3, <2>2 DEF OpenIn
  <2>4. OpenIn(s, n) \subseteq 1..n /\ OpenIn(s, n - 1) \subseteq 1..n-1 BY DEF OpenIn
  <2>5. 1..n = (1..n-1) \cup {n} OBVIOUS
  <2>. QED BY <1>2, <2>1, <2>3, <2>4, <2>5
<1>4. ASSUME s[n].kind \notin Isolated \cup Loops PROVE OpenIn(s, n) = OpenIn(s, n - 1)
  <2>1. n \notin OpenIn(s, n) BY <1>4 DEF OpenIn
  <2>2. OpenIn(s, n) \subseteq 1..n /\ OpenIn(s, n - 1) \subseteq 1..n-1 BY DEF OpenIn
  <2>3. 1..n = (1..n-1) \cup {n} OBVIOUS
  <2>. QED BY <1>2, <1>4, <2>1, <2>2, <2>3
<1>. QED BY <1>1, <1>3, <1>4

LEMMA KindStep ==
  ASSUME NEW s \in Seq(Frames), NEW n \in 1..Len(s), NEW kind
  PROVE  KindIn(s, n, kind) =
           IF s[n].kind = kind THEN KindIn(s, n - 1, kind) \cup {n} ELSE KindIn(s, n - 1, kind)
<1>1. 1..n = (1..n-1) \cup {n} OBVIOUS
<1>. QED BY <1>1 DEF KindIn

\* Prefixes are finite, and one more construct is one more.
LEMMA PrefixCardinality ==
  ASSUME NEW n \in Nat, n > 0, NEW S \in SUBSET (1..n-1)
  PROVE  Cardinality(S) \in Nat /\ Cardinality(S \cup {n}) = Cardinality(S) + 1
<1>1. IsFiniteSet(1..n-1) BY FS_Interval
<1>2. IsFiniteSet(S) BY <1>1, FS_Subset
<1>3. n \notin S OBVIOUS
<1>. QED BY <1>2, <1>3, FS_AddElement, FS_CardinalityType

\* What a construct makes of a count of the frames below it counts it as well.
LEMMA CountsStep ==
  ASSUME NEW s \in Seq(Frames), NEW n \in 1..Len(s), NEW c,
         Agrees(c, s[n]), Counts(s, n - 1, s[n].found)
  PROVE  Counts(s, n, c)
<1>0. n \in Nat /\ n > 0 OBVIOUS
<1>1. c.loopDepth = Cardinality(OpenIn(s, n))
  <2>1. OpenIn(s, n - 1) \in SUBSET (1..n-1) BY DEF OpenIn
  <2>2. s[n].found.loopDepth = Cardinality(OpenIn(s, n - 1)) BY DEF Counts
  <2>3. CASE s[n].kind \in Isolated
    <3>1. s[n].kind \notin Loops BY <2>3 DEF Loops, Isolated
    <3>2. c.loopDepth = 0 BY <2>3, <3>1 DEF Agrees
    <3>. QED BY <2>3, <3>2, OpenStep, FS_EmptySet
  <2>4. CASE s[n].kind \in Loops
    <3>1. c.loopDepth = s[n].found.loopDepth + 1 BY <2>4 DEF Agrees
    <3>. QED BY <1>0, <2>1, <2>2, <2>4, <3>1, OpenStep, PrefixCardinality
  <2>5. CASE s[n].kind \notin Isolated \cup Loops
    BY <2>2, <2>5, OpenStep DEF Agrees
  <2>. QED BY <2>3, <2>4, <2>5
<1>2. \A kind : Cardinality(KindIn(s, n, kind)) =
                  IF s[n].kind = kind THEN Cardinality(KindIn(s, n - 1, kind)) + 1
                  ELSE Cardinality(KindIn(s, n - 1, kind))
  <2>. TAKE kind
  <2>1. KindIn(s, n - 1, kind) \in SUBSET (1..n-1) BY DEF KindIn
  <2>. QED BY <1>0, <2>1, KindStep, PrefixCardinality
<1>3. c.callDepth = Cardinality(KindIn(s, n, "function"))
      /\ c.sourceDepth = Cardinality(KindIn(s, n, "source"))
  BY <1>2 DEF Agrees, Counts
<1>4. c.executingErrTrap = (KindIn(s, n, "errTrap") # {})
  <2>1. (KindIn(s, n, "errTrap") # {})
          = (s[n].kind = "errTrap" \/ KindIn(s, n - 1, "errTrap") # {})
    <3>. DEFINE K == KindIn(s, n - 1, "errTrap")
    <3>1. KindIn(s, n, "errTrap") = IF s[n].kind = "errTrap" THEN K \cup {n} ELSE K
      BY KindStep
    <3>. HIDE DEF K
    <3>. QED BY <3>1 DEF K
  <2>. QED BY <2>1 DEF Agrees, Counts
<1>5. c.inCondition = (\E i \in 1..n : s[i].phase = "condition")
  <2>1. 1..n = (1..n-1) \cup {n} OBVIOUS
  <2>2. (\E i \in 1..n : s[i].phase = "condition")
          = ((\E i \in 1..n-1 : s[i].phase = "condition") \/ s[n].phase = "condition")
    BY <2>1
  <2>. QED BY <2>2 DEF Agrees, Counts
<1>. QED BY <1>1, <1>3, <1>4, <1>5 DEF Counts

\* A count depends on the constructs counted alone.
LEMMA CountsSame ==
  ASSUME NEW s \in Seq(Frames), NEW t \in Seq(Frames), NEW n \in Nat,
         \A i \in 1..n : t[i].kind = s[i].kind /\ t[i].phase = s[i].phase,
         NEW c, Counts(s, n, c)
  PROVE  Counts(t, n, c)
<1>1. OpenIn(t, n) = OpenIn(s, n) BY DEF OpenIn
<1>2. \A kind : KindIn(t, n, kind) = KindIn(s, n, kind) BY DEF KindIn
<1>3. (\E i \in 1..n : t[i].phase = "condition")
        = (\E i \in 1..n : s[i].phase = "condition")
  OBVIOUS
<1>. QED BY <1>1, <1>2, <1>3 DEF Counts

\* The frames of a prefix are as sound as they were.
LEMMA SoundSame ==
  ASSUME NEW s \in Seq(Frames), NEW t \in Seq(Frames), NEW i \in Nat, i > 0,
         \A j \in 1..i : t[j] = s[j], Sound(s, i)
  PROVE  Sound(t, i)
<1>1. Counts(t, i - 1, t[i].found)
  BY CountsSame DEF Sound
<1>2. t[i] = s[i] /\ (i > 1 => t[i-1] = s[i-1]) BY SMT
<1>3. (\A j \in 1..i : s[j].phase = "body") => \A j \in 1..i : t[j].phase = "body"
  OBVIOUS
<1>. QED BY <1>1, <1>2, <1>3 DEF Sound

\* What is counted of a whole stack.
LEMMA WellCounts ==
  ASSUME NEW s \in Seq(Frames), s # <<>>, NEW c, Well(s, c)
  PROVE  Counts(s, Len(s), c)
<1>1. Len(s) \in 1..Len(s) OBVIOUS
<1>. QED BY <1>1, CountsStep DEF Well, Sound

-----------------------------------------------------------------------------
(***************************************************************************)
(* The three changes of a stack: a construct begins, the one on top goes   *)
(* on, the one on top ends.                                                *)
(***************************************************************************)
LEMMA PushWell ==
  ASSUME NEW s \in Seq(Frames), s # <<>>, NEW c, Well(s, c), NEW f \in Frames,
         Same6(f.found, c), f.stage # "errTrap",
         f.kind \notin Isolated => ~f.found.errexit,
         f.kind = "errTrap" => ~f.found.executingErrTrap,
         NEW d, Agrees(d, f)
  PROVE  Well(Append(s, f), d)
<1>. DEFINE t == Append(s, f)
            n == Len(s)
<1>1. /\ t \in Seq(Frames) /\ Len(t) = n + 1 /\ n \in Nat /\ n > 0
      /\ t[n+1] = f /\ \A i \in 1..n : t[i] = s[i]
  OBVIOUS
<1>. HIDE DEF t
<1>2. ASSUME NEW i \in 1..n PROVE Sound(t, i)
  <2>1. Sound(s, i) BY DEF Well
  <2>2. \A j \in 1..i : t[j] = s[j] BY <1>1
  <2>. QED BY <1>1, <2>1, <2>2, SoundSame
<1>3. Sound(t, n + 1)
  <2>1. Counts(s, n, c) BY WellCounts
  <2>2. Counts(t, n, c) BY <1>1, <2>1, CountsSame
  <2>3. Counts(t, n, f.found) BY <2>2 DEF Counts, Same6
  <2>4. Agrees(c, s[n]) BY DEF Well
  <2>5. Agrees(f.found, t[n])
    <3>1. t[n] = s[n] BY <1>1
    <3>. QED BY <3>1, <2>4 DEF Agrees, Same6
  <2>6. (n + 1) - 1 = n BY <1>1
  <2>. QED BY <1>1, <2>3, <2>5, <2>6 DEF Sound
<1>4. \A i \in 1..Len(t) : i \in 1..n \/ i = n + 1 BY <1>1
<1>5. t # <<>> /\ t[Len(t)] = f BY <1>1
<1>6. Well(t, d) BY <1>2, <1>3, <1>4, <1>5 DEF Well
<1>. QED BY <1>6 DEF t

LEMMA Prefix ==
  ASSUME NEW S, NEW s \in Seq(S), NEW m \in Nat, m <= Len(s)
  PROVE  /\ SubSeq(s, 1, m) \in Seq(S) /\ Len(SubSeq(s, 1, m)) = m
         /\ \A i \in 1..m : SubSeq(s, 1, m)[i] = s[i]
OBVIOUS

LEMMA PopWell ==
  ASSUME NEW s \in Seq(Frames), s # <<>>, NEW c, Well(s, c),
         NEW d, Same6(d, s[Len(s)].found)
  PROVE  Well(SubSeq(s, 1, Len(s) - 1), d)
<1>. DEFINE t == SubSeq(s, 1, Len(s) - 1)
            n == Len(s)
<1>1. /\ t \in Seq(Frames) /\ Len(t) = n - 1 /\ n \in Nat /\ n > 0
      /\ \A i \in 1..n-1 : t[i] = s[i]
  <2>1. n \in Nat /\ n > 0 OBVIOUS
  <2>2. n - 1 \in Nat /\ n - 1 <= Len(s) BY <2>1
  <2>3. /\ SubSeq(s, 1, n - 1) \in Seq(Frames) /\ Len(SubSeq(s, 1, n - 1)) = n - 1
        /\ \A i \in 1..n-1 : SubSeq(s, 1, n - 1)[i] = s[i]
    BY <2>2, Prefix, Zenon
  <2>. QED BY <2>1, <2>3
<1>. HIDE DEF t
<1>2. ASSUME NEW i \in 1..n-1 PROVE Sound(t, i)
  <2>1. Sound(s, i) BY <1>1 DEF Well
  <2>2. \A j \in 1..i : t[j] = s[j] BY <1>1
  <2>. QED BY <1>1, <2>1, <2>2, SoundSame
<1>3. ASSUME t # <<>> PROVE Agrees(d, t[n-1])
  <2>1. n > 1 BY <1>1, <1>3
  <2>2. Sound(s, n) BY <1>1 DEF Well
  <2>3. Agrees(s[n].found, s[n-1]) BY <2>1, <2>2 DEF Sound
  <2>4. t[n-1] = s[n-1] BY <1>1, <2>1
  <2>. QED BY <2>3, <2>4 DEF Agrees, Same6
<1>4. Well(t, d) BY <1>1, <1>2, <1>3 DEF Well
<1>. QED BY <1>4 DEF t

LEMMA TopWell ==
  ASSUME NEW s \in Seq(Frames), s # <<>>, NEW c, Well(s, c),
         NEW t \in Seq(Frames), Len(t) = Len(s), \A i \in 1..Len(s)-1 : t[i] = s[i],
         t[Len(s)].kind = s[Len(s)].kind, t[Len(s)].found = s[Len(s)].found,
         t[Len(s)].stage = "errTrap" => \A i \in 1..Len(s) : t[i].phase = "body",
         NEW d, Agrees(d, t[Len(s)])
  PROVE  Well(t, d)
<1>. DEFINE n == Len(s)
<1>1. n \in Nat /\ n > 0 OBVIOUS
<1>2. ASSUME NEW i \in 1..n-1 PROVE Sound(t, i)
  <2>1. Sound(s, i) BY <1>1 DEF Well
  <2>2. \A j \in 1..i : t[j] = s[j] BY <1>1
  <2>. QED BY <1>1, <2>1, <2>2, SoundSame
<1>3. Sound(t, n)
  <2>1. Sound(s, n) BY <1>1 DEF Well
  <2>2. Counts(t, n - 1, s[n].found)
    <3>1. \A i \in 1..n-1 : t[i].kind = s[i].kind /\ t[i].phase = s[i].phase OBVIOUS
    <3>2. n - 1 \in Nat BY <1>1
    <3>3. Counts(s, n - 1, s[n].found) BY <2>1 DEF Sound
    <3>. HIDE DEF n
    <3>. QED BY <3>1, <3>2, <3>3, CountsSame
  <2>3. n > 1 => Agrees(t[n].found, t[n-1])
    BY <1>1, <2>1 DEF Sound
  <2>. QED BY <2>1, <2>2, <2>3 DEF Sound
<1>4. \A i \in 1..n : i \in 1..n-1 \/ i = n BY <1>1
<1>. QED BY <1>1, <1>2, <1>3, <1>4 DEF Well

-----------------------------------------------------------------------------
(***************************************************************************)
(* The inductive invariant.                                                *)
(***************************************************************************)
Now == Here("main")

\* Beyond MaxDepth there is a handler of ERR at most, and one of EXIT.
Bounded ==
  Height <= MaxDepth + (IF executingErrTrap THEN 1 ELSE 0)
                     + (IF exitTrapFired THEN 1 ELSE 0)

Outcomes == {"ended", "aborted"}
CallsTyped == callDepth \in Nat /\ leaked \in 0..callDepth

IInv ==
  /\ Typed
  /\ Well(stack, Now)
  /\ stack = <<>> => Counts(stack, 0, Now)
  /\ (stack = <<>>) = (pending \in Outcomes)
  /\ ErrexitOutsideConditions
  /\ Bounded

LEMMA NowTyped ==
  ASSUME Typed
  PROVE  /\ Now \in Found /\ ~Now.errexit /\ \A kind : Here(kind) \in Found
         /\ CallsTyped
<1>1. CallsTyped /\ callDepth - leaked \in Nat BY DEF Typed, CallsTyped
<1>. QED BY <1>1 DEF Typed, Now, Here, Found, Isolated

\* While something is executed, there is an innermost construct.
LEMMA TopFacts ==
  ASSUME IInv, pending \notin Outcomes
  PROVE  /\ stack \in Seq(Frames) /\ stack # <<>> /\ Height \in Nat /\ Height > 0
         /\ Top \in Frames /\ Sound(stack, Height) /\ Agrees(Now, Top)
<1>1. stack \in Seq(Frames) /\ stack # <<>> BY DEF IInv, Typed
<1>2. Height \in Nat /\ Height > 0 BY <1>1 DEF Height
<1>3. Top \in Frames BY <1>1, <1>2 DEF Top, Height
<1>4. Sound(stack, Height) /\ Agrees(Now, Top)
  BY <1>1, <1>2 DEF IInv, Well, Height, Top
<1>. QED BY <1>1, <1>2, <1>3, <1>4

\* No condition is open where the flag says so.
LEMMA FlagTells ==
  ASSUME IInv, pending \notin Outcomes, ~inCondition
  PROVE  \A i \in 1..Height : stack[i].phase = "body"
<1>1. Counts(stack, Height, Now) BY TopFacts, WellCounts DEF IInv, Height
<1>2. \A i \in 1..Height : stack[i].phase # "condition" BY <1>1 DEF Counts, Now, Here
<1>3. \A i \in 1..Height : stack[i] \in Frames BY TopFacts DEF Height
<1>. QED BY <1>2, <1>3 DEF Frames

-----------------------------------------------------------------------------
(***************************************************************************)
(* Leaving a construct, by whatever result.                                *)
(***************************************************************************)
LEMMA Restores ==
  ASSUME IInv, pending \notin Outcomes, NEW result,
         RestoreLoops(Top, result), RestoreDepths(Top, result), RestoreFlags(Top)
  PROVE  /\ Same6(Now', Top.found) /\ Now' \in Found /\ errexit' \in BOOLEAN
         /\ CallsTyped'
         /\ Top.kind \in Isolated => errexit' = Top.found.errexit
<1>. DEFINE f == Top
<1>1. f \in Frames /\ Sound(stack, Height) /\ Agrees(Now, f) /\ f = stack[Height]
  BY TopFacts DEF Top
<1>2. f.found \in Found /\ f.kind \in Scripts \cup Compounds /\ Typed
  BY <1>1 DEF Frames, IInv
<1>. HIDE DEF f
<1>3. RestoreLoops(f, result) /\ RestoreDepths(f, result) /\ RestoreFlags(f) BY DEF f
<1>4. loopDepth' = f.found.loopDepth
  <2>1. f.kind \in Loops => f.kind \notin Isolated BY DEF Loops, Isolated
  <2>2. loopDepth \in Nat /\ f.found.loopDepth \in Nat BY <1>2 DEF Found, Typed
  <2>. QED BY <1>1, <1>3, <2>1, <2>2 DEF RestoreLoops, Agrees, Now, Here
<1>5. parentHasLoopContext' = f.found.parentHasLoopContext
  BY <1>1, <1>3 DEF RestoreLoops, Agrees, Now, Here
<1>6. callDepth' - leaked' = f.found.callDepth /\ sourceDepth' = f.found.sourceDepth
  <2>1. f.found.callDepth \in Nat /\ f.found.sourceDepth \in Nat BY <1>2 DEF Found
  <2>2. callDepth \in Nat /\ leaked \in Nat BY <1>2 DEF Typed
  <2>3. Uncounted(f, result) => f.kind = "function" BY DEF Uncounted
  <2>. QED BY <1>1, <1>3, <2>1, <2>2, <2>3 DEF RestoreDepths, Agrees, Now, Here
<1>12. CallsTyped'
  <2>1. f.found.callDepth \in Nat BY <1>2 DEF Found
  <2>2. callDepth \in Nat /\ leaked \in Nat BY <1>2 DEF Typed
  <2>3. Uncounted(f, result) => f.kind = "function" BY DEF Uncounted
  <2>4. callDepth - leaked = IF f.kind = "function" THEN f.found.callDepth + 1
                                                    ELSE f.found.callDepth
    BY <1>1 DEF Agrees, Now, Here
  <2>5. callDepth' \in Int /\ leaked' \in Nat
    BY <1>3, <2>2 DEF RestoreDepths
  <2>. QED BY <1>6, <2>1, <2>5 DEF CallsTyped
<1>7. inCondition' = f.found.inCondition
  <2>1. f.found.inCondition \in BOOLEAN BY <1>2 DEF Found
  <2>. QED BY <1>1, <1>3, <2>1 DEF RestoreFlags, Agrees, Now, Here
<1>8. executingErrTrap' = f.found.executingErrTrap
  <2>1. f.found.executingErrTrap \in BOOLEAN BY <1>2 DEF Found
  <2>2. f.kind = "errTrap" => ~f.found.executingErrTrap BY <1>1 DEF Sound
  <2>. QED BY <1>1, <1>3, <2>1, <2>2 DEF RestoreFlags, Agrees, Now, Here
<1>9. /\ errexit' \in BOOLEAN
      /\ f.kind \in Isolated => errexit' = f.found.errexit
  <2>1. f.found.errexit \in BOOLEAN /\ errexit \in BOOLEAN BY <1>2 DEF Found, Typed
  <2>. QED BY <1>3, <2>1 DEF RestoreFlags
<1>10. Same6(Now', f.found) BY <1>4, <1>5, <1>6, <1>7, <1>8 DEF Same6, Now, Here
<1>11. Now' \in Found
  BY <1>2, <1>4, <1>5, <1>6, <1>7, <1>8, <1>9 DEF Now, Here, Found, Isolated
<1>. QED BY <1>9, <1>10, <1>11, <1>12 DEF f

LEMMA LeaveStep ==
  ASSUME IInv, pending \notin Outcomes, NEW result \in Codes \cup Errors, Leave(result),
         levels' \in 0..MaxLevels, exitTrapFired' \in BOOLEAN,
         exitTrapFired => exitTrapFired',
         result = "errexit" => pending = "errexit"
  PROVE  IInv'
<1>. DEFINE n == Height
<1>1. /\ stack \in Seq(Frames) /\ stack # <<>> /\ n \in Nat /\ n > 0 /\ n = Len(stack)
      /\ Top \in Frames /\ Top = stack[n] /\ Typed
  BY TopFacts DEF Height, Top, IInv
<1>2. Same6(Now', Top.found) /\ Now' \in Found /\ errexit' \in BOOLEAN /\ CallsTyped'
  BY Restores DEF Leave
<1>3. /\ stack' = SubSeq(stack, 1, n - 1) /\ stack' \in Seq(Frames) /\ Len(stack') = n - 1
      /\ \A i \in 1..n-1 : stack'[i] = stack[i]
  <2>1. n - 1 \in Nat /\ n - 1 <= Len(stack) BY <1>1
  <2>2. stack' = SubSeq(stack, 1, n - 1) BY DEF Leave
  <2>3. /\ SubSeq(stack, 1, n - 1) \in Seq(Frames) /\ Len(SubSeq(stack, 1, n - 1)) = n - 1
        /\ \A i \in 1..n-1 : SubSeq(stack, 1, n - 1)[i] = stack[i]
    BY <1>1, <2>1, Prefix, Zenon
  <2>. QED BY <2>2, <2>3
<1>4. Well(stack, Now)' BY <1>1, <1>2, <1>3, PopWell DEF IInv
<1>9. stack' = <<>> => Counts(stack', 0, Now')
  <2>. SUFFICES ASSUME stack' = <<>> PROVE Counts(stack', 0, Now')
    OBVIOUS
  <2>1. n = 1
    <3>1. Len(<<>>) = 0 OBVIOUS
    <3>2. n - 1 = 0 BY <1>3, <3>1
    <3>3. n \in Nat BY <1>1
    <3>. HIDE DEF n
    <3>. QED BY <3>2, <3>3
  <2>2. Counts(stack, 0, Top.found) BY <1>1, <2>1, TopFacts DEF Sound
  <2>3. Counts(stack', 0, Top.found) BY <1>1, <1>3, <2>2, CountsSame
  <2>. QED BY <1>2, <2>3 DEF Counts, Same6
<1>5. Typed'
  <2>1. pending' \in {"go"} \cup Outcomes \cup Codes \cup Errors
    BY DEF Leave, Outcomes, Codes
  <2>2. /\ loopDepth' \in Nat /\ sourceDepth' \in Nat
        /\ parentHasLoopContext' \in BOOLEAN /\ inCondition' \in BOOLEAN
        /\ executingErrTrap' \in BOOLEAN
    BY <1>2 DEF Now, Here, Found
  <2>4. callDepth' \in Nat /\ leaked' \in 0..callDepth' BY <1>2 DEF CallsTyped
  <2>3. errexitSafe' = errexitSafe /\ handlers' = handlers BY DEF Leave
  <2>. QED BY <1>1, <1>2, <1>3, <2>1, <2>2, <2>3, <2>4 DEF Typed, Outcomes
<1>6. (stack' = <<>>) = (pending' \in Outcomes)
  <2>1. CASE n = 1
    <3>1. stack' = <<>> BY <1>3, <2>1
    <3>2. pending' \in Outcomes BY <2>1 DEF Leave, Outcomes
    <3>. QED BY <3>1, <3>2
  <2>2. CASE n # 1
    <3>1. stack' # <<>>
      <4>1. Len(stack') # 0 BY <1>1, <1>3, <2>2
      <4>2. Len(<<>>) = 0 OBVIOUS
      <4>. QED BY <4>1, <4>2, Zenon
    <3>2. pending' \in {"go"} \cup Codes \cup Errors BY <2>2 DEF Leave
    <3>3. pending' \notin Outcomes
      BY <3>2 DEF Outcomes, Codes, Errors, Jumps, Fatal
    <3>. QED BY <3>1, <3>3
  <2>. QED BY <2>1, <2>2
<1>7. ErrexitOutsideConditions'
  <2>. SUFFICES ASSUME pending' = "errexit" PROVE \A i \in 1..n-1 : stack[i].phase # "condition"
    BY <1>3 DEF ErrexitOutsideConditions, Height
  <2>1. result = "errexit" BY DEF Leave, Codes
  <2>2. \A i \in 1..n : stack[i].phase # "condition"
    BY <2>1 DEF IInv, ErrexitOutsideConditions
  <2>. QED BY <1>1, <2>2
<1>8. Bounded'
  <2>1. MaxDepth \in Nat BY ControlAssumption
  <2>2. executingErrTrap' = (executingErrTrap /\ Top.kind # "errTrap")
    BY DEF Leave, RestoreFlags
  <2>3. n <= MaxDepth + (IF executingErrTrap THEN 1 ELSE 0) + (IF exitTrapFired THEN 1 ELSE 0)
    BY DEF IInv, Bounded
  <2>4. executingErrTrap \in BOOLEAN /\ exitTrapFired \in BOOLEAN BY <1>1 DEF Typed
  <2>5. Height' = n - 1 BY <1>3 DEF Height
  <2>. HIDE DEF n
  <2>. QED BY <1>1, <2>1, <2>2, <2>3, <2>4, <2>5 DEF Bounded
<1>. QED BY <1>4, <1>5, <1>6, <1>7, <1>8, <1>9 DEF IInv

\* A construct returns to what it has found.
LEMMA LeaveRestores ==
  ASSUME IInv, pending \notin Outcomes, NEW result, Leave(result)
  PROVE  \E k \in {Top.kind} : Here(k)' = Top.found
<1>1. /\ Same6(Now', Top.found)
      /\ Top.kind \in Isolated => errexit' = Top.found.errexit
  BY Restores DEF Leave
<1>2. Top.found \in Found /\ Sound(stack, Height) /\ Top = stack[Height]
  BY TopFacts DEF Frames, Top
<1>3. Top.found.errexit \in BOOLEAN /\ (Top.kind \notin Isolated => ~Top.found.errexit)
  BY <1>2 DEF Found, Sound
<1>. PICK k \in {Top.kind} : TRUE OBVIOUS
<1>4. (errexit' /\ k \in Isolated) = Top.found.errexit
  BY <1>1, <1>3
<1>5. Here(k)' = Top.found
  BY <1>1, <1>2, <1>4 DEF Same6, Now, Here, Found
<1>. QED BY <1>5

-----------------------------------------------------------------------------
(***************************************************************************)
(* Entering a construct.                                                   *)
(***************************************************************************)
LEMMA PushStep ==
  ASSUME IInv, pending \notin Outcomes,
         NEW kind \in Scripts \cup Compounds, NEW phase \in {"condition", "body"},
         NEW frames \in Seq(Frames), Len(frames) = Height, Well(frames, Now),
         Push(frames, kind, phase), Now' \in Found, CallsTyped', exitTrapFired' \in BOOLEAN,
         \A s \in Stages : Agrees(Now', [kind |-> kind, phase |-> phase, stage |-> s,
                                         found |-> Here(kind)]),
         kind = "errTrap" => ~executingErrTrap,
         Height + 1 <= MaxDepth + (IF executingErrTrap' THEN 1 ELSE 0)
                                + (IF exitTrapFired' THEN 1 ELSE 0)
  PROVE  IInv'
<1>0. \A s \in First(kind) : s \in Stages /\ s # "errTrap"
  BY DEF First, Stages, Starts, Redirections
<1>1. PICK s \in First(kind) :
        /\ stack' = Append(frames, [kind |-> kind, phase |-> phase, stage |-> s,
                                    found |-> Here(kind)])
        /\ errexitSafe' = (errexitSafe /\ s = "targets")
  BY DEF Push
<1>. DEFINE f == [kind |-> kind, phase |-> phase, stage |-> s, found |-> Here(kind)]
<1>2. Typed /\ Height \in Nat /\ Height > 0 BY TopFacts DEF IInv
<1>3. f \in Frames /\ f.stage # "errTrap"
  <2>1. Here(kind) \in Found BY <1>2, NowTyped
  <2>2. s \in Stages /\ s # "errTrap" BY <1>0
  <2>. QED BY <2>1, <2>2 DEF Frames
<1>4. /\ Same6(f.found, Now)
      /\ f.kind \notin Isolated => ~f.found.errexit
      /\ f.kind = "errTrap" => ~f.found.executingErrTrap
  BY DEF Same6, Now, Here
<1>5. Agrees(Now', f) BY <1>0
<1>6. frames # <<>>
  <2>1. Len(frames) # 0 BY <1>2
  <2>2. Len(<<>>) = 0 OBVIOUS
  <2>. QED BY <2>1, <2>2, Zenon
<1>7. stack' = Append(frames, f) BY <1>1
<1>. HIDE DEF f
<1>8. Well(stack', Now') BY <1>3, <1>4, <1>5, <1>6, <1>7, PushWell
<1>9. Well(stack, Now)' BY <1>8
<1>10. stack' \in Seq(Frames) /\ Height' = Height + 1 /\ stack' # <<>>
  BY <1>2, <1>3, <1>7 DEF Height
<1>11. Typed'
  <2>1. /\ loopDepth' \in Nat /\ sourceDepth' \in Nat
        /\ parentHasLoopContext' \in BOOLEAN /\ inCondition' \in BOOLEAN
        /\ executingErrTrap' \in BOOLEAN
    BY DEF Now, Here, Found
  <2>2. /\ pending' = "go" /\ levels' = levels
        /\ errexit' = errexit /\ handlers' = handlers
    BY DEF Push
  <2>3. errexitSafe' \in BOOLEAN BY <1>1, <1>2 DEF Typed
  <2>4. callDepth' \in Nat /\ leaked' \in 0..callDepth' BY DEF CallsTyped
  <2>. QED BY <1>2, <1>10, <2>1, <2>2, <2>3, <2>4 DEF Typed
<1>12. (stack' = <<>>) = (pending' \in Outcomes)
  BY <1>10 DEF Push, Outcomes
<1>13. ErrexitOutsideConditions' BY DEF Push, ErrexitOutsideConditions
<1>14. Bounded' BY <1>10 DEF Bounded
<1>. QED BY <1>9, <1>10, <1>11, <1>12, <1>13, <1>14 DEF IInv

LEMMA EnterStep ==
  ASSUME IInv, NEW kind \in Scripts \cup Compounds, NEW phase \in {"condition", "body"},
         Enter(kind, phase), kind \notin Traps, Now' \in Found, CallsTyped',
         executingErrTrap' = executingErrTrap,
         \A s \in Stages : Agrees(Now', [kind |-> kind, phase |-> phase, stage |-> s,
                                         found |-> Here(kind)])
  PROVE  IInv'
<1>1. pending \notin Outcomes /\ Height < MaxDepth BY DEF Enter, Outcomes
<1>2. stack \in Seq(Frames) /\ Len(stack) = Height /\ Well(stack, Now)
      /\ Height \in Nat /\ Typed
  BY <1>1, TopFacts DEF IInv, Height
<1>3. Push(stack, kind, phase) /\ exitTrapFired' = exitTrapFired BY DEF Enter
<1>4. exitTrapFired' \in BOOLEAN /\ executingErrTrap' \in BOOLEAN BY <1>2, <1>3 DEF Typed
<1>5. Height + 1 <= MaxDepth + (IF executingErrTrap' THEN 1 ELSE 0)
                             + (IF exitTrapFired' THEN 1 ELSE 0)
  BY <1>1, <1>2, <1>4, ControlAssumption
<1>6. kind # "errTrap" BY DEF Traps
<1>. QED BY <1>1, <1>2, <1>3, <1>4, <1>5, <1>6, PushStep

-----------------------------------------------------------------------------
(***************************************************************************)
(* Steps of the construct on top, and steps that leave the stack alone.    *)
(***************************************************************************)
LEMMA TopReplaced ==
  ASSUME IInv, pending \notin Outcomes, NEW g \in Frames,
         g.kind = Top.kind, g.found = Top.found,
         g.stage = "errTrap" => g.phase = "body" /\ ~inCondition,
         NEW c, Agrees(c, g)
  PROVE  LET t == [stack EXCEPT ![Height] = g]
         IN  /\ t \in Seq(Frames) /\ Len(t) = Height /\ Well(t, c) /\ t # <<>>
             /\ t[Height] = g /\ \A i \in 1..Height-1 : t[i] = stack[i]
<1>. DEFINE t == [stack EXCEPT ![Height] = g]
<1>1. stack \in Seq(Frames) /\ stack # <<>> /\ Height \in Nat /\ Height > 0
      /\ Height = Len(stack) /\ Top = stack[Height]
  BY TopFacts DEF Height, Top
<1>2. /\ t \in Seq(Frames) /\ Len(t) = Height /\ t[Height] = g
      /\ \A i \in 1..Height-1 : t[i] = stack[i]
  BY <1>1
<1>. HIDE DEF t
<1>3. ASSUME g.stage = "errTrap" PROVE \A i \in 1..Height : t[i].phase = "body"
  <2>1. \A i \in 1..Height : stack[i].phase = "body" BY <1>3, FlagTells
  <2>2. \A i \in 1..Height : i \in 1..Height-1 \/ i = Height BY <1>1
  <2>. QED BY <1>2, <1>3, <2>1, <2>2
<1>4. Well(t, c)
  <2>1. Well(stack, Now) BY DEF IInv
  <2>2. \A i \in 1..Len(stack)-1 : t[i] = stack[i] BY <1>1, <1>2
  <2>3. t[Len(stack)] = g /\ Len(t) = Len(stack) BY <1>1, <1>2
  <2>4. t[Len(stack)].stage = "errTrap" => \A i \in 1..Len(stack) : t[i].phase = "body"
    BY <1>1, <1>3, <2>3
  <2>. QED BY <1>1, <1>2, <2>1, <2>2, <2>3, <2>4, TopWell
<1>5. t # <<>>
  <2>1. Len(t) # 0 BY <1>1, <1>2
  <2>2. Len(<<>>) = 0 OBVIOUS
  <2>. QED BY <2>1, <2>2, Zenon
<1>. QED BY <1>2, <1>4, <1>5 DEF t

LEMMA TopStep ==
  ASSUME IInv, pending \notin Outcomes, NEW g \in Frames,
         g.kind = Top.kind, g.found = Top.found, g.stage # "errTrap",
         stack' = [stack EXCEPT ![Height] = g],
         Agrees(Now', g), Now' \in Found, CallsTyped', executingErrTrap' = executingErrTrap,
         pending' \in {"go"} \cup Codes \cup Errors,
         pending' = "errexit" =>
           g.phase = "body" /\ \A i \in 1..Height : stack[i].phase = "body",
         levels' \in 0..MaxLevels, errexitSafe' \in BOOLEAN,
         UNCHANGED <<errexit, handlers, exitTrapFired>>
  PROVE  IInv'
<1>1. /\ stack' \in Seq(Frames) /\ Len(stack') = Height /\ Well(stack', Now')
      /\ stack' # <<>> /\ stack'[Height] = g
      /\ \A i \in 1..Height-1 : stack'[i] = stack[i]
  BY TopReplaced
<1>2. Well(stack, Now)' BY <1>1
<1>3. Height' = Height /\ Height \in Nat BY <1>1, TopFacts DEF Height
<1>4. Typed'
  <2>1. /\ loopDepth' \in Nat /\ sourceDepth' \in Nat
        /\ parentHasLoopContext' \in BOOLEAN /\ inCondition' \in BOOLEAN
        /\ executingErrTrap' \in BOOLEAN
    BY DEF Now, Here, Found
  <2>2. callDepth' \in Nat /\ leaked' \in 0..callDepth' BY DEF CallsTyped
  <2>. QED BY <1>1, <2>1, <2>2 DEF IInv, Typed
<1>5. pending' \notin Outcomes BY DEF Outcomes, Codes, Errors, Jumps, Fatal
<1>6. ErrexitOutsideConditions'
  <2>1. \A i \in 1..Height : i \in 1..Height-1 \/ i = Height BY <1>3
  <2>. QED BY <1>1, <1>3, <2>1 DEF ErrexitOutsideConditions
<1>7. Bounded' BY <1>3 DEF IInv, Bounded
<1>. QED BY <1>1, <1>2, <1>4, <1>5, <1>6, <1>7 DEF IInv

\* The counters stay, and so does the phase of the construct.
LEMMA AtStep ==
  ASSUME IInv, pending \notin Outcomes, NEW stage \in Stages, stage # "errTrap", At(stage),
         pending' \in {"go"} \cup Codes \cup Errors, pending' = "errexit" => ~inCondition,
         levels' \in 0..MaxLevels, errexitSafe' \in BOOLEAN,
         UNCHANGED <<counters, errexit, handlers, exitTrapFired>>
  PROVE  IInv'
<1>. DEFINE g == [Top EXCEPT !.stage = stage]
<1>1. Top \in Frames /\ Agrees(Now, Top) /\ Now \in Found /\ stack \in Seq(Frames)
      /\ Top = stack[Height] /\ Height \in 1..Len(stack)
  BY TopFacts, NowTyped DEF IInv, Top, Height
<1>2. /\ g \in Frames /\ g.kind = Top.kind /\ g.found = Top.found /\ g.stage = stage
      /\ g.phase = Top.phase
  BY <1>1 DEF Frames
<1>3. stack' = [stack EXCEPT ![Height] = g] BY <1>1 DEF At
<1>4. Now' = Now BY DEF counters, calls, Now, Here, Isolated
<1>8. CallsTyped' BY NowTyped DEF IInv, CallsTyped, counters, calls
<1>. HIDE DEF g
<1>5. Agrees(Now', g) BY <1>1, <1>2, <1>4 DEF Agrees
<1>6. pending' = "errexit" =>
        g.phase = "body" /\ \A i \in 1..Height : stack[i].phase = "body"
  BY <1>1, <1>2, FlagTells
<1>7. executingErrTrap' = executingErrTrap BY DEF counters
<1>. QED BY <1>1, <1>2, <1>3, <1>4, <1>5, <1>6, <1>7, <1>8, TopStep

LEMMA GoOnStep ==
  ASSUME IInv, pending \notin Outcomes, NEW phase \in {"condition", "body"},
         NEW condition, GoOn(phase, condition),
         condition = (Top.found.inCondition \/ phase = "condition")
  PROVE  IInv'
<1>1. Top \in Frames /\ Agrees(Now, Top) /\ Now \in Found /\ stack \in Seq(Frames)
      /\ Top = stack[Height] /\ Height \in 1..Len(stack)
  BY TopFacts, NowTyped DEF IInv, Top, Height
<1>2. PICK s \in Starts :
        stack' = [stack EXCEPT ![Height] = [@ EXCEPT !.stage = s, !.phase = phase]]
  BY DEF GoOn
<1>. DEFINE g == [Top EXCEPT !.stage = s, !.phase = phase]
<1>3. s \in Stages /\ s # "errTrap" BY DEF Starts, Stages
<1>4. /\ g \in Frames /\ g.kind = Top.kind /\ g.found = Top.found /\ g.stage = s
      /\ g.phase = phase
  BY <1>1, <1>3 DEF Frames
<1>5. stack' = [stack EXCEPT ![Height] = g] BY <1>1, <1>2
<1>. HIDE DEF g
<1>6. /\ inCondition' = condition /\ pending' = "go" /\ levels' = 0 /\ errexitSafe' = FALSE
      /\ UNCHANGED <<loopDepth, parentHasLoopContext, callDepth, leaked, sourceDepth,
                     executingErrTrap, errexit, handlers, exitTrapFired>>
  BY DEF GoOn, traps, calls
<1>10. CallsTyped' BY <1>6, NowTyped DEF IInv, CallsTyped
<1>7. Agrees(Now', g) BY <1>1, <1>4, <1>6 DEF Agrees, Now, Here
<1>8. Now' \in Found
  <2>1. Top.found.inCondition \in BOOLEAN BY <1>1 DEF Frames, Found
  <2>. QED BY <1>1, <1>6, <2>1 DEF Now, Here, Found, Isolated
<1>9. levels' \in 0..MaxLevels BY <1>6, ControlAssumption
<1>. QED BY <1>3, <1>4, <1>5, <1>6, <1>7, <1>8, <1>9, <1>10, TopStep

LEMMA StayStep ==
  ASSUME IInv, pending \notin Outcomes,
         pending' \in {"go"} \cup Codes \cup Errors, pending' = "errexit" => pending = "errexit",
         levels' \in 0..MaxLevels, errexit' \in BOOLEAN,
         UNCHANGED <<stack, counters, errexitSafe, traps>>
  PROVE  IInv'
<1>1. Now' = Now BY DEF counters, calls, Now, Here, Isolated
<1>2. Well(stack, Now)' BY <1>1 DEF IInv
<1>3. Typed' BY DEF IInv, Typed, counters, calls, traps
<1>4. pending' \notin Outcomes BY DEF Outcomes, Codes, Errors, Jumps, Fatal
<1>5. ErrexitOutsideConditions' BY DEF IInv, ErrexitOutsideConditions, Height
<1>6. Bounded' BY DEF IInv, Bounded, Height, counters, traps
<1>. QED BY <1>2, <1>3, <1>4, <1>5, <1>6 DEF IInv

-----------------------------------------------------------------------------
(***************************************************************************)
(* The actions.                                                            *)
(***************************************************************************)
LEMMA EnteringKeeps ==
  ASSUME IInv,
         \/ ExecuteIf \/ ExecuteCase \/ ExecuteGroup \/ ExecuteFor
         \/ \E kind \in {"while", "until"} : ExecuteWhile(kind)
         \/ \E kind \in Isolated : ExecuteSubshell(kind)
         \/ CallFunction \/ HandleSource \/ HandleEval \/ CommandSubstitution
  PROVE  IInv'
<1>1. Typed BY DEF IInv
<1>2. /\ loopDepth \in Nat /\ callDepth \in Nat /\ sourceDepth \in Nat
      /\ leaked \in 0..callDepth
      /\ parentHasLoopContext \in BOOLEAN /\ inCondition \in BOOLEAN
      /\ executingErrTrap \in BOOLEAN
  BY <1>1 DEF Typed
<1>3. ASSUME ExecuteIf PROVE IInv'
  <2>3. CallsTyped' BY <1>2, <1>3 DEF ExecuteIf, CallsTyped, calls
  <2>1. Now' \in Found BY <1>2, <1>3 DEF ExecuteIf, Now, Here, Found, Isolated, calls
  <2>2. \A s \in Stages : Agrees(Now', [kind |-> "if", phase |-> "condition", stage |-> s,
                                        found |-> Here("if")])
    BY <1>2, <1>3 DEF ExecuteIf, Agrees, Now, Here, Loops, Isolated, calls
  <2>. QED BY <1>3, <2>1, <2>2, <2>3, EnterStep DEF ExecuteIf, Compounds, Traps
<1>4. ASSUME NEW kind \in {"case", "group", "eval", "subst"}, Enter(kind, "body"),
             UNCHANGED counters
      PROVE  IInv'
  <2>1. Now' = Now /\ calls' = calls BY <1>4 DEF counters, calls, Now, Here, Isolated
  <2>4. CallsTyped' BY <1>2, <2>1 DEF CallsTyped, calls
  <2>2. Now' \in Found BY <1>1, <2>1, NowTyped
  <2>3. \A s \in Stages : Agrees(Now', [kind |-> kind, phase |-> "body", stage |-> s,
                                        found |-> Here(kind)])
    BY <1>2, <2>1 DEF Agrees, Now, Here, Loops, Isolated
  <2>. QED BY <1>4, <2>2, <2>3, <2>4, EnterStep DEF counters, Compounds, Scripts, Called, Traps
<1>5. ASSUME ExecuteFor PROVE IInv'
  <2>3. CallsTyped' BY <1>2, <1>5 DEF ExecuteFor, CallsTyped, calls
  <2>1. Now' \in Found BY <1>2, <1>5 DEF ExecuteFor, Now, Here, Found, Isolated, calls
  <2>2. \A s \in Stages : Agrees(Now', [kind |-> "for", phase |-> "body", stage |-> s,
                                        found |-> Here("for")])
    BY <1>2, <1>5 DEF ExecuteFor, Agrees, Now, Here, Loops, Isolated, calls
  <2>. QED BY <1>5, <2>1, <2>2, <2>3, EnterStep DEF ExecuteFor, Compounds, Loops, Traps
<1>6. ASSUME NEW kind \in {"while", "until"}, ExecuteWhile(kind) PROVE IInv'
  <2>3. CallsTyped' BY <1>2, <1>6 DEF ExecuteWhile, CallsTyped, calls
  <2>1. Now' \in Found BY <1>2, <1>6 DEF ExecuteWhile, Now, Here, Found, Isolated, calls
  <2>2. \A s \in Stages : Agrees(Now', [kind |-> kind, phase |-> "condition", stage |-> s,
                                        found |-> Here(kind)])
    BY <1>2, <1>6 DEF ExecuteWhile, Agrees, Now, Here, Loops, Isolated, calls
  <2>. QED BY <1>6, <2>1, <2>2, <2>3, EnterStep DEF ExecuteWhile, Compounds, Loops, Traps
<1>7. ASSUME NEW kind \in Isolated, ExecuteSubshell(kind) PROVE IInv'
  <2>3. CallsTyped' BY <1>2, <1>7 DEF ExecuteSubshell, CallsTyped, calls
  <2>1. Now' \in Found BY <1>2, <1>7 DEF ExecuteSubshell, Now, Here, Found, Isolated, calls
  <2>2. \A s \in Stages : Agrees(Now', [kind |-> kind, phase |-> "body", stage |-> s,
                                        found |-> Here(kind)])
    BY <1>2, <1>7 DEF ExecuteSubshell, Agrees, Now, Here, Loops, Isolated, calls
  <2>. QED BY <1>7, <2>1, <2>2, <2>3, EnterStep
           DEF ExecuteSubshell, Isolated, Compounds, Scripts, Called, Traps
<1>8. ASSUME CallFunction PROVE IInv'
  <2>3. CallsTyped' BY <1>2, <1>8 DEF CallFunction, CallsTyped, calls
  <2>1. Now' \in Found BY <1>2, <1>8 DEF CallFunction, Now, Here, Found, Isolated, calls
  <2>2. \A s \in Stages : Agrees(Now', [kind |-> "function", phase |-> "body", stage |-> s,
                                        found |-> Here("function")])
    BY <1>2, <1>8 DEF CallFunction, Agrees, Now, Here, Loops, Isolated, calls
  <2>. QED BY <1>8, <2>1, <2>2, <2>3, EnterStep DEF CallFunction, Compounds, Traps
<1>9. ASSUME HandleSource PROVE IInv'
  <2>3. CallsTyped' BY <1>2, <1>9 DEF HandleSource, CallsTyped, calls
  <2>1. Now' \in Found BY <1>2, <1>9 DEF HandleSource, Now, Here, Found, Isolated, calls
  <2>2. \A s \in Stages : Agrees(Now', [kind |-> "source", phase |-> "body", stage |-> s,
                                        found |-> Here("source")])
    BY <1>2, <1>9 DEF HandleSource, Agrees, Now, Here, Loops, Isolated, calls
  <2>. QED BY <1>9, <2>1, <2>2, <2>3, EnterStep DEF HandleSource, Scripts, Called, Traps
<1>. QED BY <1>3, <1>4, <1>5, <1>6, <1>7, <1>8, <1>9
         DEF ExecuteCase, ExecuteGroup, HandleEval, CommandSubstitution

\* The handlers of ERR and of EXIT.
LEMMA TrapKeeps ==
  ASSUME IInv, NEW kind \in Traps, NEW stage \in Stages, pending \notin Outcomes,
         stage = "errTrap" => ~inCondition /\ Top.phase = "body",
         Push([stack EXCEPT ![Height].stage = stage], kind, "body"),
         UNCHANGED <<loopDepth, parentHasLoopContext, inCondition, calls, sourceDepth>>,
         \/ /\ kind = "errTrap" /\ ~executingErrTrap /\ executingErrTrap' = TRUE
            /\ exitTrapFired' = exitTrapFired
         \/ /\ kind = "exitTrap" /\ ~exitTrapFired /\ exitTrapFired' = TRUE
            /\ executingErrTrap' = executingErrTrap
  PROVE  IInv'
<1>. DEFINE g == [Top EXCEPT !.stage = stage]
<1>1. Top \in Frames /\ Agrees(Now, Top) /\ stack \in Seq(Frames) /\ Typed
      /\ Top = stack[Height] /\ Height \in 1..Len(stack)
  BY TopFacts DEF IInv, Top, Height
<1>2. /\ g \in Frames /\ g.kind = Top.kind /\ g.found = Top.found /\ g.stage = stage
      /\ g.phase = Top.phase
  BY <1>1 DEF Frames
<1>3. [stack EXCEPT ![Height].stage = stage] = [stack EXCEPT ![Height] = g] BY <1>1
<1>. HIDE DEF g
<1>4. Agrees(Now, g) BY <1>1, <1>2 DEF Agrees
<1>5. LET t == [stack EXCEPT ![Height] = g]
      IN  t \in Seq(Frames) /\ Len(t) = Height /\ Well(t, Now)
  BY <1>2, <1>4, TopReplaced
<1>6. Now' \in Found
  <2>1. calls' = calls /\ callDepth - leaked \in Nat BY <1>1 DEF Typed
  <2>2. Now.callDepth' = callDepth - leaked BY <2>1 DEF Now, Here, calls
  <2>3. /\ loopDepth' \in Nat /\ sourceDepth' \in Nat /\ parentHasLoopContext' \in BOOLEAN
        /\ inCondition' \in BOOLEAN /\ executingErrTrap' \in BOOLEAN
    BY <1>1 DEF Typed
  <2>. QED BY <2>1, <2>2, <2>3 DEF Now, Here, Found, Isolated
<1>10. CallsTyped' BY <1>1 DEF Typed, CallsTyped, calls
<1>7. exitTrapFired' \in BOOLEAN /\ kind \in Scripts /\ (kind = "errTrap" => ~executingErrTrap)
  BY <1>1 DEF Typed, Scripts
<1>8. \A s \in Stages : Agrees(Now', [kind |-> kind, phase |-> "body", stage |-> s,
                                      found |-> Here(kind)])
  BY <1>1 DEF Typed, Agrees, Now, Here, Loops, Isolated, Traps, calls
<1>9. Height + 1 <= MaxDepth + (IF executingErrTrap' THEN 1 ELSE 0)
                             + (IF exitTrapFired' THEN 1 ELSE 0)
  <2>1. MaxDepth \in Nat /\ Height \in Nat BY <1>1, ControlAssumption
  <2>. QED BY <1>1, <2>1 DEF IInv, Bounded, Typed
<1>. QED BY <1>3, <1>5, <1>6, <1>7, <1>8, <1>9, <1>10, PushStep

LEMMA LeaveWithKeeps ==
  ASSUME IInv, pending \notin Outcomes, NEW result \in (Codes \cup Errors) \ {"errexit"},
         LeaveWith(result)
  PROVE  IInv'
<1>1. Leave(result) /\ levels' = 0 /\ exitTrapFired' = exitTrapFired BY DEF LeaveWith
<1>2. levels' \in 0..MaxLevels BY <1>1, ControlAssumption
<1>3. exitTrapFired' \in BOOLEAN BY <1>1 DEF IInv, Typed
<1>. QED BY <1>1, <1>2, <1>3, LeaveStep

LEMMA PassKeeps ==
  ASSUME IInv, pending \in Errors, Pass
  PROVE  IInv'
<1>1. Leave(pending) /\ levels' = levels /\ exitTrapFired' = exitTrapFired BY DEF Pass
<1>2. levels' \in 0..MaxLevels /\ exitTrapFired' \in BOOLEAN BY <1>1 DEF IInv, Typed
<1>3. pending \notin Outcomes BY DEF Outcomes, Errors, Jumps, Fatal
<1>. QED BY <1>1, <1>2, <1>3, LeaveStep

\* The flag agrees with the phases.
LEMMA PhasesTell ==
  ASSUME IInv, pending \notin Outcomes, \A i \in 1..Height : stack[i].phase = "body"
  PROVE  ~inCondition
<1>1. Counts(stack, Height, Now) BY TopFacts, WellCounts DEF IInv, Height
<1>. QED BY <1>1 DEF Counts, Now, Here

LEMMA CommandsKeep ==
  ASSUME IInv,
         \/ \E code \in Codes : Command(code)
         \/ \E on \in BOOLEAN : SetErrexit(on)
         \/ \E jump \in Jumps, n \in 1..MaxLevels : HandleBreak(jump, n)
         \/ HandleReturn \/ HandleExit \/ \E e \in Fatal : Fault(e)
         \/ \E e \in Fatal \cup {"exit"} : ExpansionFails(e)
  PROVE  IInv'
<1>1. levels \in 0..MaxLevels /\ errexit \in BOOLEAN BY DEF IInv, Typed
<1>2. /\ Codes \cup Errors = Codes \cup Errors \cup {"fail", "return", "exit"}
      /\ Fatal \subseteq Errors /\ Jumps \subseteq Errors
      /\ "errexit" \notin Codes \cup Fatal \cup Jumps /\ "subshellExit" \in Errors
      /\ "ok" \in Codes
  BY DEF Codes, Errors, Fatal, Jumps
<1>3. ASSUME NEW c \in (Codes \cup Errors) \ {"errexit"}, Command(c) PROVE IInv'
  BY <1>1, <1>3, StayStep DEF Command, Simple, Outcomes
<1>4. ASSUME NEW on \in BOOLEAN, SetErrexit(on) PROVE IInv'
  BY <1>1, <1>2, <1>4, StayStep DEF SetErrexit, Simple, Outcomes
<1>5. ASSUME NEW jump \in Jumps, NEW n \in 1..MaxLevels, HandleBreak(jump, n) PROVE IInv'
  <2>1. /\ pending = "go" /\ UNCHANGED <<stack, counters, errexitSafe, traps>>
        /\ errexit' = errexit
    BY <1>5 DEF HandleBreak, Simple
  <2>2. pending' \in {"subshellExit", "ok", jump} /\ levels' \in {levels, n}
    BY <1>5 DEF HandleBreak
  <2>3. n \in 0..MaxLevels BY ControlAssumption
  <2>. QED BY <1>1, <1>2, <2>1, <2>2, <2>3, StayStep DEF Outcomes
<1>6. ASSUME HandleReturn \/ HandleExit PROVE IInv'
  <2>1. \E c \in {"fail", "return", "exit"} : Command(c)
    BY <1>6 DEF HandleReturn, HandleExit
  <2>. QED BY <1>2, <1>3, <2>1
<1>7. ASSUME NEW e \in Fatal, Fault(e) PROVE IInv'
  BY <1>2, <1>3, <1>7 DEF Fault
<1>8. ASSUME NEW c \in Codes, Command(c) PROVE IInv' BY <1>2, <1>3, <1>8
<1>9. ASSUME NEW e \in Fatal \cup {"exit"}, ExpansionFails(e) PROVE IInv'
  <2>1. e \in Errors /\ e # "errexit" BY DEF Errors, Fatal
  <2>. QED BY <1>1, <1>9, <2>1, StayStep DEF ExpansionFails, Simple, Outcomes
<1>. QED BY <1>4, <1>5, <1>6, <1>7, <1>8, <1>9

LEMMA PipelinesKeep ==
  ASSUME IInv,
         \/ NextStage \/ ErrTrapEnds
         \/ \E negated \in BOOLEAN, code \in Codes :
              \/ NextPipeline(negated, code) \/ ShortCircuit(negated, code)
              \/ EndStatement(negated, code) \/ ExecuteErrTrap(negated, code)
  PROVE  IInv'
<1>1. pending \in Codes
  BY DEF NextStage, ErrTrapEnds, NextPipeline, ShortCircuit, EndStatement, ExecuteErrTrap,
         PipelineEnds
<1>2. pending \notin Outcomes /\ levels \in 0..MaxLevels /\ errexitSafe \in BOOLEAN
      /\ errexit \in BOOLEAN
  BY <1>1 DEF Codes, Outcomes, IInv, Typed
<1>3. /\ Starts \subseteq Stages /\ "errTrap" \notin Starts /\ "over" \in Stages
      /\ "errTrap" \in Stages
      /\ "errexit" \in Errors /\ "errexit" \notin Codes /\ "fail" \in Codes
  BY DEF Starts, Stages, Errors, Codes
<1>4. CASE NextStage
  BY <1>2, <1>4, StayStep DEF NextStage
<1>5. CASE ErrTrapEnds
  <2>1. Top.stage = "errTrap" /\ At("over") /\ pending' \in {"errexit", "fail"}
        /\ UNCHANGED <<levels, counters, errexit, errexitSafe, traps>>
    BY <1>5 DEF ErrTrapEnds
  <2>2. \A i \in 1..Height : stack[i].phase = "body"
    BY <1>2, <2>1, TopFacts DEF Sound, Top
  <2>3. ~inCondition BY <1>2, <2>2, PhasesTell
  <2>. QED BY <1>2, <1>3, <2>1, <2>3, AtStep DEF traps
<1>6. ASSUME NEW negated \in BOOLEAN, NEW code \in Codes, NextPipeline(negated, code)
      PROVE  IInv'
  <2>1. PICK s \in Starts : At(s) BY <1>6 DEF NextPipeline
  <2>2. pending' = "go" /\ UNCHANGED <<levels, counters, errexit, errexitSafe, traps>>
    BY <1>6 DEF NextPipeline, Same
  <2>. QED BY <1>2, <1>3, <2>1, <2>2, AtStep DEF traps
<1>7. ASSUME NEW negated \in BOOLEAN, NEW code \in Codes, ShortCircuit(negated, code)
      PROVE  IInv'
  <2>1. /\ At("over") /\ pending' = code /\ errexitSafe' = TRUE
        /\ UNCHANGED <<levels, counters, errexit, traps>>
    BY <1>7 DEF ShortCircuit, Same
  <2>. QED BY <1>2, <1>3, <2>1, AtStep DEF traps
<1>8. ASSUME NEW negated \in BOOLEAN, NEW code \in Codes, EndStatement(negated, code)
      PROVE  IInv'
  <2>1. /\ At("over") /\ errexitSafe' \in BOOLEAN
        /\ UNCHANGED <<levels, counters, errexit, traps>>
    BY <1>2, <1>8 DEF EndStatement, Same
  <2>2. /\ pending' \in {"errexit", code}
        /\ pending' = "errexit" => ~inCondition
    BY <1>3, <1>8 DEF EndStatement, Untested
  <2>. QED BY <1>2, <1>3, <2>1, <2>2, AtStep DEF traps
<1>9. ASSUME NEW negated \in BOOLEAN, NEW code \in Codes, ExecuteErrTrap(negated, code)
      PROVE  IInv'
  <2>1. /\ Push([stack EXCEPT ![Height].stage = "errTrap"], "errTrap", "body")
        /\ UNCHANGED <<loopDepth, parentHasLoopContext, inCondition, calls, sourceDepth>>
        /\ ~executingErrTrap /\ executingErrTrap' = TRUE /\ exitTrapFired' = exitTrapFired
        /\ ~inCondition
    BY <1>9 DEF ExecuteErrTrap, Untested
  <2>2. Top.phase = "body" BY <1>2, <2>1, FlagTells, TopFacts DEF Top
  <2>3. "errTrap" \in Traps BY DEF Traps
  <2>. QED BY <1>2, <1>3, <2>1, <2>2, <2>3, TrapKeeps
<1>. QED BY <1>4, <1>5, <1>6, <1>7, <1>8, <1>9

\* On to the next statement of the same phase, or to a part of the other one.
LEMMA PhaseKeeps ==
  ASSUME IInv, pending \notin Outcomes,
         \/ GoOn("body", Top.found.inCondition)
         \/ GoOn("condition", TRUE)
         \/ GoOn(Top.phase, inCondition)
  PROVE  IInv'
<1>1. Top \in Frames /\ Agrees(Now, Top) BY TopFacts
<1>2. Top.phase \in {"condition", "body"} /\ Top.found.inCondition \in BOOLEAN
  BY <1>1 DEF Frames, Found
<1>3. inCondition = (Top.found.inCondition \/ Top.phase = "condition")
  BY <1>1 DEF Agrees, Now, Here
<1>4. CASE GoOn("body", Top.found.inCondition)
  <2>1. Top.found.inCondition = (Top.found.inCondition \/ "body" = "condition") BY <1>2
  <2>. QED BY <1>4, <2>1, GoOnStep
<1>5. CASE GoOn("condition", TRUE)
  <2>1. TRUE = (Top.found.inCondition \/ "condition" = "condition") BY <1>2
  <2>. QED BY <1>5, <2>1, GoOnStep
<1>6. CASE GoOn(Top.phase, inCondition)
  BY <1>2, <1>3, <1>6, GoOnStep
<1>. QED BY <1>4, <1>5, <1>6

LEMMA ConstructsKeep ==
  ASSUME IInv,
         \/ NextStatement \/ TargetsExpanded \/ InputRead
         \/ IfEnds \/ LoopEnds \/ TooManyIterations \/ BodyEnds
  PROVE  IInv'
<1>1. pending \in Codes \cup {"go"}
  BY DEF NextStatement, TargetsExpanded, InputRead, IfEnds, LoopEnds, TooManyIterations,
         BodyEnds, Ended
<1>2. pending \notin Outcomes BY <1>1 DEF Codes, Outcomes
<1>3. /\ Codes \subseteq (Codes \cup Errors) \ {"errexit"} /\ "ok" \in Codes
      /\ "limit" \in (Codes \cup Errors) \ {"errexit"}
  BY DEF Codes, Errors, Fatal
<1>4. CASE NextStatement BY <1>2, <1>4, PhaseKeeps DEF NextStatement
<1>5. CASE IfEnds
  <2>1. \/ GoOn("body", Top.found.inCondition) \/ GoOn("condition", TRUE)
        \/ LeaveWith("ok")
    BY <1>5 DEF IfEnds
  <2>. QED BY <1>2, <1>3, <2>1, PhaseKeeps, LeaveWithKeeps
<1>6. CASE LoopEnds
  <2>1. \/ GoOn("body", Top.found.inCondition) \/ GoOn("condition", TRUE)
        \/ \E code \in Codes : LeaveWith(code)
    BY <1>6 DEF LoopEnds, Ended
  <2>. QED BY <1>2, <1>3, <2>1, PhaseKeeps, LeaveWithKeeps
<1>7. CASE TooManyIterations
  BY <1>2, <1>3, <1>7, LeaveWithKeeps DEF TooManyIterations
<1>8. CASE BodyEnds
  BY <1>2, <1>3, <1>8, LeaveWithKeeps DEF BodyEnds, Ended
<1>9. CASE TargetsExpanded
  <2>1. CASE LeaveWith("fail")
    <3>1. "fail" \in Codes BY DEF Codes
    <3>. QED BY <1>2, <1>3, <2>1, <3>1, LeaveWithKeeps
  <2>2. CASE /\ At("input") /\ pending' = "go"
             /\ UNCHANGED <<levels, counters, errexit, errexitSafe, traps>>
    <3>1. "input" \in Stages BY DEF Stages, Redirections
    <3>2. levels' \in 0..MaxLevels /\ errexitSafe' \in BOOLEAN BY <2>2 DEF IInv, Typed
    <3>. QED BY <1>2, <2>2, <3>1, <3>2, AtStep DEF traps
  <2>. QED BY <1>9, <2>1, <2>2 DEF TargetsExpanded
<1>10. CASE InputRead
  BY <1>2, <1>10, PhaseKeeps DEF InputRead
<1>. QED BY <1>4, <1>5, <1>6, <1>7, <1>8, <1>9, <1>10

\* Leaving a script when there is no handler of EXIT to execute any more.
LEMMA LastLeaveKeeps ==
  ASSUME IInv, pending \notin Outcomes, NEW result \in (Codes \cup Errors) \ {"errexit"},
         Leave(result), levels' = 0, exitTrapFired' = TRUE
  PROVE  IInv'
<1>1. levels' \in 0..MaxLevels /\ exitTrapFired' \in BOOLEAN BY ControlAssumption
<1>2. exitTrapFired => exitTrapFired' OBVIOUS
<1>. QED BY <1>1, <1>2, LeaveStep

LEMMA ExitTrapKeeps ==
  ASSUME IInv, pending \notin Outcomes, NEW stage \in {"ending", "exiting"},
         ExecuteExitTrap(stage)
  PROVE  IInv'
<1>1. /\ Push([stack EXCEPT ![Height].stage = stage], "exitTrap", "body")
      /\ UNCHANGED <<loopDepth, parentHasLoopContext, inCondition, calls, sourceDepth>>
      /\ ~exitTrapFired /\ exitTrapFired' = TRUE /\ executingErrTrap' = executingErrTrap
  BY DEF ExecuteExitTrap, HasExitTrap, counters
<1>2. "exitTrap" \in Traps /\ stage \in Stages /\ stage # "errTrap" BY DEF Traps, Stages
<1>. QED BY <1>1, <1>2, TrapKeeps

LEMMA ScriptsKeep ==
  ASSUME IInv,
         \/ ScriptEnds \/ ExitTrapEnds \/ ScriptFails \/ StatementFails \/ ScriptExits
         \/ ScriptPasses
  PROVE  IInv'
<1>1. pending \in Codes \cup Errors
  BY DEF ScriptEnds, ExitTrapEnds, ScriptFails, StatementFails, ScriptExits, ScriptPasses,
         Ended, Thrown
<1>2. pending \notin Outcomes BY <1>1 DEF Codes, Errors, Jumps, Fatal, Outcomes
<1>3. /\ Codes \subseteq (Codes \cup Errors) \ {"errexit"} /\ "ok" \in Codes
      /\ {"fail", "exit"} \subseteq (Codes \cup Errors) \ {"errexit"}
  BY DEF Codes, Errors, Fatal
<1>4. \A kind : ExitOf(kind) \subseteq (Codes \cup Errors) \ {"errexit"}
  BY <1>3 DEF ExitOf
<1>5. CASE ScriptEnds
  <2>1. pending \in Codes BY <1>5 DEF ScriptEnds, Ended
  <2>2. CASE ExecuteExitTrap("ending") BY <1>2, <2>2, ExitTrapKeeps
  <2>3. CASE exitTrapFired' = TRUE /\ Leave(pending) /\ levels' = 0
    BY <1>2, <1>3, <2>1, <2>3, LastLeaveKeeps
  <2>. QED BY <1>5, <2>2, <2>3 DEF ScriptEnds
<1>6. CASE ExitTrapEnds
  <2>1. \E r \in Codes \cup ExitOf(Top.kind) : LeaveWith(r) BY <1>6 DEF ExitTrapEnds
  <2>. QED BY <1>2, <1>3, <1>4, <2>1, LeaveWithKeeps
<1>7. CASE ScriptFails BY <1>2, <1>3, <1>7, LeaveWithKeeps DEF ScriptFails
<1>8. CASE StatementFails
  <2>1. /\ At("over") /\ pending' \in Codes /\ levels' = 0
        /\ UNCHANGED <<counters, errexit, errexitSafe, traps>>
    BY <1>8 DEF StatementFails, Codes
  <2>2. "over" \in Stages /\ "errexit" \notin Codes BY DEF Stages, Codes
  <2>3. levels' \in 0..MaxLevels BY <2>1, ControlAssumption
  <2>4. errexitSafe' \in BOOLEAN BY <2>1 DEF IInv, Typed
  <2>. QED BY <1>2, <2>1, <2>2, <2>3, <2>4, AtStep DEF traps
<1>9. CASE ScriptExits
  <2>1. CASE ExecuteExitTrap("exiting") BY <1>2, <2>1, ExitTrapKeeps
  <2>2. CASE exitTrapFired' = TRUE /\ (\E r \in ExitOf(Top.kind) : Leave(r)) /\ levels' = 0
    BY <1>2, <1>4, <2>2, LastLeaveKeeps
  <2>. QED BY <1>9, <2>1, <2>2 DEF ScriptExits
<1>10. CASE ScriptPasses
  <2>1. pending \in Errors BY <1>10 DEF ScriptPasses, Thrown
  <2>2. \/ LeaveWith("fail") \/ \E code \in Codes : LeaveWith(code)
        \/ Pass
    BY <1>10 DEF ScriptPasses
  <2>. QED BY <1>2, <1>3, <2>1, <2>2, LeaveWithKeeps, PassKeeps
<1>. QED BY <1>5, <1>6, <1>7, <1>8, <1>9, <1>10

LEMMA ThrowsKeep ==
  ASSUME IInv,
         \/ SegmentEnds \/ CompoundFails \/ SubshellExits \/ FunctionReturns
         \/ JumpPasses \/ JumpEnds \/ CompoundPasses
  PROVE  IInv'
<1>1. pending \in Errors
  BY DEF SegmentEnds, CompoundFails, SubshellExits, FunctionReturns, JumpPasses, JumpEnds,
         CompoundPasses, Thrown, InSegment, Errors
<1>2. pending \notin Outcomes BY <1>1 DEF Errors, Jumps, Fatal, Outcomes
<1>3. /\ Codes \subseteq (Codes \cup Errors) \ {"errexit"}
      /\ {"ok", "fail"} \subseteq (Codes \cup Errors) \ {"errexit"}
      /\ "fail" \in Codes /\ "errexit" \notin Codes \cup Jumps
  BY DEF Codes, Errors, Jumps
<1>4. CASE SegmentEnds
  <2>1. pending' \in Codes /\ UNCHANGED <<stack, levels, counters, errexit, errexitSafe, traps>>
    BY <1>3, <1>4 DEF SegmentEnds
  <2>2. levels' \in 0..MaxLevels /\ errexit' \in BOOLEAN BY <2>1 DEF IInv, Typed
  <2>. QED BY <1>2, <1>3, <2>1, <2>2, StayStep
<1>5. CASE CompoundFails BY <1>2, <1>3, <1>5, LeaveWithKeeps DEF CompoundFails
<1>6. CASE SubshellExits
  <2>1. LeaveWith("ok") \/ \E code \in Codes : LeaveWith(code) BY <1>6 DEF SubshellExits
  <2>. QED BY <1>2, <1>3, <2>1, LeaveWithKeeps
<1>7. CASE FunctionReturns BY <1>2, <1>3, <1>7, LeaveWithKeeps DEF FunctionReturns
<1>8. CASE JumpPasses
  <2>1. /\ Leave(pending) /\ levels > 1 /\ levels' = levels - 1
        /\ exitTrapFired' = exitTrapFired
    BY <1>8 DEF JumpPasses
  <2>2. levels \in 0..MaxLevels /\ exitTrapFired \in BOOLEAN BY DEF IInv, Typed
  <2>3. levels' \in 0..MaxLevels BY <2>1, <2>2, ControlAssumption
  <2>. QED BY <1>1, <1>2, <2>1, <2>2, <2>3, LeaveStep
<1>9. CASE JumpEnds
  <2>1. AtLoop /\ Top \in Frames BY <1>2, <1>9, TopFacts DEF JumpEnds
  <2>2. Top.kind = "for" => Top.phase = "body" BY <2>1 DEF AtLoop
  <2>3. \/ \E code \in Codes : LeaveWith(code)
        \/ GoOn(Top.phase, inCondition) \/ GoOn("condition", TRUE)
    BY <1>9, <2>2 DEF JumpEnds
  <2>. QED BY <1>2, <1>3, <2>3, LeaveWithKeeps, PhaseKeeps
<1>10. CASE CompoundPasses BY <1>1, <1>10, PassKeeps DEF CompoundPasses
<1>. QED BY <1>4, <1>5, <1>6, <1>7, <1>8, <1>9, <1>10

-----------------------------------------------------------------------------
(***************************************************************************)
(* The invariant holds of every reachable state.                           *)
(***************************************************************************)
LEMMA InitEstablishes == Init => IInv
<1>. SUFFICES ASSUME Init PROVE IInv
  OBVIOUS
<1>1. PICK s \in Starts :
        stack = << [kind |-> "main", phase |-> "body", stage |-> s, found |-> Here("main")] >>
  BY DEF Init
<1>. DEFINE f == [kind |-> "main", phase |-> "body", stage |-> s, found |-> Here("main")]
<1>2. /\ Now = [loopDepth |-> 0, parentHasLoopContext |-> FALSE, inCondition |-> FALSE,
                callDepth |-> 0, sourceDepth |-> 0, executingErrTrap |-> FALSE,
                errexit |-> FALSE]
  <2>1. callDepth - leaked = 0 BY DEF Init
  <2>. QED BY <2>1 DEF Init, Now, Here, Isolated
<1>3. f \in Frames /\ f.stage # "errTrap"
  <2>1. Now \in Found BY <1>2 DEF Found
  <2>2. s \in Stages /\ s # "errTrap" BY DEF Stages, Starts
  <2>. QED BY <2>1, <2>2 DEF Frames, Scripts, Now
<1>4. f.found = Now /\ f.kind = "main" /\ f.phase = "body" BY DEF Now
<1>5. stack = <<f>> BY <1>1
<1>. HIDE DEF f
<1>6. stack \in Seq(Frames) /\ Len(stack) = 1 /\ stack[1] = f /\ stack # <<>>
  <2>1. stack \in Seq(Frames) /\ Len(stack) = 1 /\ stack[1] = f BY <1>3, <1>5
  <2>2. <<f>> # <<>> OBVIOUS
  <2>. QED BY <2>1, <2>2, <1>5
<1>7. Agrees(Now, f)
  <2>1. /\ Now.loopDepth = 0 /\ ~Now.parentHasLoopContext /\ ~Now.inCondition
        /\ Now.callDepth = 0 /\ Now.sourceDepth = 0 /\ ~Now.executingErrTrap
        /\ Now \in Found
    BY <1>2 DEF Found
  <2>2. f.kind \notin Loops \cup Isolated \cup {"function", "source", "errTrap"}
    BY <1>4 DEF Loops, Isolated
  <2>3. Now.parentHasLoopContext \in BOOLEAN /\ Now.inCondition \in BOOLEAN
        /\ Now.executingErrTrap \in BOOLEAN
    BY <2>1 DEF Found
  <2>. QED BY <1>4, <2>1, <2>2, <2>3 DEF Agrees
<1>8. Sound(stack, 1)
  <2>1. \A i \in 1..0 : FALSE OBVIOUS
  <2>2. Counts(stack, 0, Now)
    <3>1. OpenIn(stack, 0) = {} /\ \A kind : KindIn(stack, 0, kind) = {}
      BY <2>1 DEF OpenIn, KindIn
    <3>. QED BY <1>2, <2>1, <3>1, FS_EmptySet DEF Counts
  <2>. QED BY <1>2, <1>3, <1>4, <1>6, <2>2 DEF Sound
<1>9. Well(stack, Now)
  <2>1. \A i \in 1..Len(stack) : i = 1 BY <1>6
  <2>. QED BY <1>6, <1>7, <1>8, <2>1 DEF Well
<1>10. Typed
  <2>1. levels = 0 /\ 0 \in 0..MaxLevels BY ControlAssumption DEF Init
  <2>2. /\ pending = "go" /\ loopDepth = 0 /\ callDepth = 0 /\ leaked = 0 /\ sourceDepth = 0
        /\ parentHasLoopContext = FALSE /\ inCondition = FALSE
        /\ errexit \in BOOLEAN /\ errexitSafe = FALSE /\ handlers \subseteq Signals
        /\ exitTrapFired = FALSE /\ executingErrTrap = FALSE
    BY DEF Init
  <2>3. leaked \in 0..callDepth BY <2>2
  <2>. QED BY <1>6, <2>1, <2>2, <2>3 DEF Typed
<1>11. pending = "go" BY DEF Init
<1>12. Height <= MaxDepth BY <1>6, ControlAssumption DEF Height
<1>13. Bounded BY <1>12, ControlAssumption DEF Bounded, Init
<1>. QED BY <1>6, <1>9, <1>10, <1>11, <1>13 DEF IInv, Outcomes, ErrexitOutsideConditions

LEMMA NextPreserves == IInv /\ [Next]_vars => IInv'
<1>. SUFFICES ASSUME IInv, [Next]_vars PROVE IInv'
  OBVIOUS
<1>1. CASE Run BY <1>1, EnteringKeeps, CommandsKeep DEF Run
<1>2. CASE Return BY <1>2, PipelinesKeep, ConstructsKeep, ScriptsKeep DEF Return
<1>3. CASE Throw BY <1>3, ThrowsKeep, ScriptsKeep DEF Throw
<1>4. CASE UNCHANGED vars
  <2>1. Now' = Now BY <1>4 DEF vars, counters, calls, Now, Here, Isolated
  <2>2. Typed' BY <1>4 DEF vars, counters, calls, traps, IInv, Typed
  <2>3. Well(stack, Now)' /\ (stack = <<>> => Counts(stack, 0, Now))'
    BY <1>4, <2>1 DEF vars, IInv
  <2>4. ((stack = <<>>) = (pending \in Outcomes))' /\ ErrexitOutsideConditions'
    BY <1>4 DEF vars, IInv, ErrexitOutsideConditions, Height
  <2>5. Bounded' BY <1>4 DEF vars, counters, traps, IInv, Bounded, Height
  <2>. QED BY <2>2, <2>3, <2>4, <2>5 DEF IInv
<1>. QED BY <1>1, <1>2, <1>3, <1>4 DEF Next, Finished

LEMMA Invariant == Spec => []IInv
BY InitEstablishes, NextPreserves, PTL DEF Spec

-----------------------------------------------------------------------------
(***************************************************************************)
(* The variables have their types, and no counter falls below zero: for    *)
(* every depth and every program (InterpreterState).                       *)
(***************************************************************************)
THEOREM TypeCorrect == Spec => []TypeOK
<1>1. IInv => TypeOK
  <2>. SUFFICES ASSUME IInv PROVE TypeOK
    OBVIOUS
  <2>1. Height <= MaxDepth + 2
    <3>1. stack \in Seq(Frames) /\ executingErrTrap \in BOOLEAN /\ exitTrapFired \in BOOLEAN
      BY DEF IInv, Typed
    <3>2. Height \in Nat BY <3>1 DEF Height
    <3>. QED BY <3>1, <3>2, ControlAssumption DEF IInv, Bounded
  <2>. QED BY <2>1 DEF IInv, TypeOK
<1>. QED BY <1>1, Invariant, PTL

(***************************************************************************)
(* Whatever exceptions have crossed the call stack, the counters count     *)
(* what is on it, and callDepth the calls that an error in the targets of  *)
(* a function's redirections has left as well (callFunction).              *)
(***************************************************************************)
THEOREM CountersAgree == Spec => []CountersCount
<1>1. IInv => CountersCount
  <2>. SUFFICES ASSUME IInv PROVE CountersCount
    OBVIOUS
  <2>1. Counts(stack, Height, Now)
    <3>1. stack \in Seq(Frames) BY DEF IInv, Typed
    <3>2. CASE stack = <<>>
      <4>1. Height = 0 BY <3>2 DEF Height
      <4>. QED BY <3>2, <4>1 DEF IInv
    <3>3. CASE stack # <<>> BY <3>1, <3>3, WellCounts DEF IInv, Height
    <3>. QED BY <3>2, <3>3
  <2>2. OpenLoops = OpenIn(stack, Height) BY DEF OpenLoops, Boundary, OpenIn
  <2>3. \A kind : Kind({kind}) = KindIn(stack, Height, kind) BY DEF Kind, KindIn
  <2>4. Cardinality(Kind({"function"})) = callDepth - leaked
    BY <2>1, <2>3 DEF Counts, Now, Here
  <2>5. callDepth \in Nat /\ leaked \in Nat BY DEF IInv, Typed
  <2>6. callDepth = Cardinality(Kind({"function"})) + leaked BY <2>4, <2>5
  <2>. QED BY <2>1, <2>2, <2>3, <2>6 DEF Counts, Now, Here, CountersCount
<1>. QED BY <1>1, Invariant, PTL

(***************************************************************************)
(* set -e never stops a script within a condition (executeStatement).      *)
(***************************************************************************)
THEOREM ErrexitSpares == Spec => []ErrexitOutsideConditions
<1>1. IInv => ErrexitOutsideConditions BY DEF IInv
<1>. QED BY <1>1, Invariant, PTL

-----------------------------------------------------------------------------
(***************************************************************************)
(* The stack becomes shorter only where a construct is left.               *)
(***************************************************************************)
LEMMA Longer ==
  ASSUME IInv, pending \notin Outcomes,
         \/ \E stage : At(stage)
         \/ \E phase, condition : GoOn(phase, condition)
         \/ \E kind, phase : Push(stack, kind, phase)
         \/ \E stage, kind, phase : Push([stack EXCEPT ![Height].stage = stage], kind, phase)
         \/ stack' = stack
  PROVE  ~(Len(stack') < Height)
<1>1. stack \in Seq(Frames) /\ Height = Len(stack) /\ Height \in Nat
  BY TopFacts DEF Height
<1>2. ASSUME NEW f, stack' = Append(stack, f) PROVE ~(Len(stack') < Height)
  BY <1>1, <1>2
<1>3. ASSUME NEW f, NEW g, stack' = Append([stack EXCEPT ![Height] = g], f)
      PROVE  ~(Len(stack') < Height)
  BY <1>1, <1>3
<1>4. ASSUME NEW g, stack' = [stack EXCEPT ![Height] = g] PROVE ~(Len(stack') < Height)
  BY <1>1, <1>4
<1>5. ASSUME NEW stage, At(stage) PROVE ~(Len(stack') < Height)
  <2>1. stack' = [stack EXCEPT ![Height] = [stack[Height] EXCEPT !.stage = stage]]
    BY <1>5 DEF At
  <2>. QED BY <1>4, <2>1
<1>6. ASSUME NEW phase, NEW condition, GoOn(phase, condition)
      PROVE  ~(Len(stack') < Height)
  <2>1. PICK s \in Starts :
          stack' = [stack EXCEPT ![Height] = [@ EXCEPT !.stage = s, !.phase = phase]]
    BY <1>6 DEF GoOn
  <2>2. stack' = [stack EXCEPT ![Height]
                    = [stack[Height] EXCEPT !.stage = s, !.phase = phase]]
    BY <2>1
  <2>. QED BY <1>4, <2>2
<1>7. ASSUME NEW kind, NEW phase, Push(stack, kind, phase) PROVE ~(Len(stack') < Height)
  BY <1>2, <1>7 DEF Push
<1>8. ASSUME NEW stage, NEW kind, NEW phase,
             Push([stack EXCEPT ![Height].stage = stage], kind, phase)
      PROVE  ~(Len(stack') < Height)
  <2>1. [stack EXCEPT ![Height].stage = stage]
          = [stack EXCEPT ![Height] = [stack[Height] EXCEPT !.stage = stage]]
    OBVIOUS
  <2>. QED BY <1>3, <1>8, <2>1 DEF Push
<1>9. ASSUME stack' = stack PROVE ~(Len(stack') < Height)
  BY <1>1, <1>9
<1>. QED BY <1>5, <1>6, <1>7, <1>8, <1>9

LEMMA StepsTaken ==
  ASSUME Run \/ Return \/ Throw
  PROVE  pending \notin Outcomes
<1>1. Run => pending = "go"
  BY DEF Run, ExecuteIf, ExecuteCase, ExecuteGroup, ExecuteFor, ExecuteWhile,
         ExecuteSubshell, CallFunction, HandleSource, HandleEval, CommandSubstitution,
         Enter, Command, SetErrexit, HandleBreak, HandleReturn, HandleExit, Fault,
         ExpansionFails, Simple
<1>2. Return => pending \in Codes \cup {"go"}
  BY DEF Return, TargetsExpanded, InputRead, NextStage, NextPipeline, ShortCircuit, EndStatement, ExecuteErrTrap,
         ErrTrapEnds, NextStatement, IfEnds, LoopEnds, TooManyIterations, BodyEnds,
         ScriptEnds, ExitTrapEnds, PipelineEnds, Ended
<1>3. Throw => pending \in Errors
  BY DEF Throw, SegmentEnds, CompoundFails, SubshellExits, FunctionReturns, JumpPasses,
         JumpEnds, CompoundPasses, ScriptFails, StatementFails, ScriptExits, ScriptPasses,
         Thrown, InSegment, Errors
<1>. QED BY <1>1, <1>2, <1>3 DEF Outcomes, Codes, Errors, Jumps, Fatal

\* Every step leaves the stack alone, or changes its top.
LEMMA StackChange ==
  ASSUME IInv, [Next]_vars
  PROVE  \/ stack' = stack
         \/ /\ pending \notin Outcomes
            /\ \/ \E stage : At(stage)
               \/ \E phase, condition :
                    /\ GoOn(phase, condition)
                    /\ phase = Top.phase \/ phase = "body" \/ Top.kind # "for"
               \/ \E kind, phase : Push(stack, kind, phase) /\ (kind = "for" => phase = "body")
               \/ \E stage, kind, phase :
                    /\ Push([stack EXCEPT ![Height].stage = stage], kind, phase)
                    /\ kind # "for"
               \/ \E result : Leave(result)
<1>. DEFINE P == \/ stack' = stack
                 \/ \E stage : At(stage)
                 \/ \E phase, condition :
                      /\ GoOn(phase, condition)
                      /\ phase = Top.phase \/ phase = "body" \/ Top.kind # "for"
                 \/ \E kind, phase : Push(stack, kind, phase) /\ (kind = "for" => phase = "body")
                 \/ \E stage, kind, phase :
                      /\ Push([stack EXCEPT ![Height].stage = stage], kind, phase)
                      /\ kind # "for"
                 \/ \E result : Leave(result)
<1>4. "errTrap" # "for" /\ "exitTrap" # "for" OBVIOUS
<1>0. SUFFICES ASSUME Run \/ Return \/ Throw PROVE P
  <2>1. (Run \/ Return \/ Throw) \/ stack' = stack BY DEF Next, Finished, vars
  <2>2. Run \/ Return \/ Throw => pending \notin Outcomes BY StepsTaken
  <2>. QED BY <2>1, <2>2, Zenon
<1>1. CASE Run
  BY <1>1 DEF Run, ExecuteIf, ExecuteCase, ExecuteGroup, ExecuteFor, ExecuteWhile,
       ExecuteSubshell, CallFunction, HandleSource, HandleEval, CommandSubstitution,
       Enter, Command, SetErrexit, HandleBreak, HandleReturn, HandleExit, Fault,
         ExpansionFails, Simple
<1>2. CASE Return
  <2>1. CASE NextStage BY <2>1 DEF NextStage
  <2>2. ASSUME NEW negated \in BOOLEAN, NEW code \in Codes,
               \/ NextPipeline(negated, code) \/ ShortCircuit(negated, code)
               \/ EndStatement(negated, code)
        PROVE  P
    BY <2>2 DEF NextPipeline, ShortCircuit, EndStatement
  <2>3. ASSUME NEW negated \in BOOLEAN, NEW code \in Codes, ExecuteErrTrap(negated, code)
        PROVE  P
    <3>1. Push([stack EXCEPT ![Height].stage = "errTrap"], "errTrap", "body")
      BY <2>3 DEF ExecuteErrTrap
    <3>. QED BY <1>4, <3>1, Zenon
  <2>4. CASE ErrTrapEnds BY <2>4 DEF ErrTrapEnds
  <2>5. CASE NextStatement BY <2>5 DEF NextStatement
  <2>6. CASE IfEnds BY <2>6 DEF IfEnds, LeaveWith
  <2>7. CASE LoopEnds BY <2>7 DEF LoopEnds, LeaveWith
  <2>8. CASE TooManyIterations \/ BodyEnds \/ ExitTrapEnds
    BY <2>8 DEF TooManyIterations, BodyEnds, ExitTrapEnds, LeaveWith
  <2>9. CASE ScriptEnds
    <3>1. CASE ExecuteExitTrap("ending")
      <4>1. Push([stack EXCEPT ![Height].stage = "ending"], "exitTrap", "body")
        BY <3>1 DEF ExecuteExitTrap
      <4>. QED BY <1>4, <4>1, Zenon
    <3>2. CASE \E result : Leave(result) BY <3>2
    <3>. QED BY <2>9, <3>1, <3>2 DEF ScriptEnds
  <2>10. CASE TargetsExpanded BY <2>10 DEF TargetsExpanded, LeaveWith
  <2>11. CASE InputRead BY <2>11 DEF InputRead
  <2>. QED BY <1>2, <2>1, <2>2, <2>3, <2>4, <2>5, <2>6, <2>7, <2>8, <2>9, <2>10, <2>11
           DEF Return
<1>3. CASE Throw
  <2>1. CASE SegmentEnds \/ StatementFails BY <2>1 DEF SegmentEnds, StatementFails
  <2>2. CASE \/ CompoundFails \/ SubshellExits \/ FunctionReturns \/ JumpPasses
             \/ CompoundPasses \/ ScriptFails \/ ScriptPasses
    BY <2>2 DEF CompoundFails, SubshellExits, FunctionReturns, JumpPasses, CompoundPasses,
                ScriptFails, ScriptPasses, LeaveWith, Pass
  <2>3. CASE JumpEnds BY <2>3 DEF JumpEnds, LeaveWith
  <2>4. CASE ScriptExits
    <3>1. CASE ExecuteExitTrap("exiting")
      <4>1. Push([stack EXCEPT ![Height].stage = "exiting"], "exitTrap", "body")
        BY <3>1 DEF ExecuteExitTrap
      <4>. QED BY <1>4, <4>1, Zenon
    <3>2. CASE \E result : Leave(result) BY <3>2
    <3>. QED BY <2>4, <3>1, <3>2 DEF ScriptExits
  <2>. QED BY <1>3, <2>1, <2>2, <2>3, <2>4 DEF Throw
<1>. QED BY <1>0, <1>1, <1>2, <1>3

LEMMA Shortened ==
  ASSUME IInv, [Next]_vars, Len(stack') < Height
  PROVE  pending \notin Outcomes /\ \E result : Leave(result)
<1>0. stack' # stack
  <2>1. stack \in Seq(Frames) BY DEF IInv, Typed
  <2>. QED BY <2>1 DEF Height
<1>1. pending \notin Outcomes BY <1>0, StackChange
<1>2. ~(\E stage : At(stage)) BY <1>1, Longer
<1>3. ~(\E phase, condition : GoOn(phase, condition)) BY <1>1, Longer
<1>4. ~(\E kind, phase : Push(stack, kind, phase)) BY <1>1, Longer
<1>5. ~(\E stage, kind, phase : Push([stack EXCEPT ![Height].stage = stage], kind, phase))
  BY <1>1, Longer, Zenon
<1>. QED BY <1>0, <1>1, <1>2, <1>3, <1>4, <1>5, StackChange, Zenon

(***************************************************************************)
(* A construct returns, by whatever result, to the counters it was entered *)
(* with, but for the calls leaked within it, and a subshell or a user      *)
(* script to errexit as well.                                              *)
(***************************************************************************)
THEOREM ConstructsLeaveAsFound == Spec => LeavesAsFound
<1>1. IInv /\ [Next]_vars => (Len(stack') < Height => \E k \in {Top.kind} : Here(k)' = Top.found)
  BY Shortened, LeaveRestores
<1>2. IInv /\ [Next]_vars =>
        [Len(stack') < Height => \E k \in {Top.kind} : Here(k)' = Top.found]_vars
  BY <1>1
<1>. QED BY <1>2, Invariant, PTL DEF Spec, LeavesAsFound

-----------------------------------------------------------------------------
(***************************************************************************)
(* Numbers: a set has a least and a largest one, and of a finite set the   *)
(* one with so many above it.                                              *)
(***************************************************************************)
LEMMA Least ==
  ASSUME NEW T \in SUBSET Nat, T # {}
  PROVE  \E m \in T : \A k \in T : m <= k
<1>. DEFINE R == {ss \in Nat \X Nat : ss[1] < ss[2]}
<1>1. IsWellFoundedOn(R, Nat) BY NatLessThanWellFounded DEF OpToRel
<1>2. PICK m \in T : \A k \in T : ~(<<k, m>> \in R) BY <1>1, WFMin
<1>3. ASSUME NEW k \in T PROVE m <= k
  <2>1. <<k, m>> \in Nat \X Nat /\ ~(<<k, m>> \in R) BY <1>2
  <2>2. ~(k < m) BY <2>1
  <2>. QED BY <2>2
<1>. QED BY <1>3

LEMMA Largest ==
  ASSUME NEW n \in Nat, NEW T \in SUBSET (0..n), T # {}
  PROVE  \E m \in T : \A k \in T : k <= m
<1>. DEFINE U == {n - k : k \in T}
<1>1. \A k \in T : n - k \in Nat OBVIOUS
<1>2. U \in SUBSET Nat BY <1>1
<1>3. U # {} OBVIOUS
<1>4. PICK m \in U : \A k \in U : m <= k BY <1>2, <1>3, Least
<1>5. PICK t \in T : m = n - t OBVIOUS
<1>6. ASSUME NEW k \in T PROVE k <= t
  <2>1. n - k \in U OBVIOUS
  <2>2. m <= n - k BY <1>4, <2>1
  <2>. QED BY <1>5, <2>2
<1>. QED BY <1>6

LEMMA NthFromAbove ==
  ASSUME NEW n \in Nat, NEW S \in SUBSET (1..n), NEW k \in Nat, k < Cardinality(S)
  PROVE  \E i \in S : Cardinality({j \in S : j > i}) = k
<1>. DEFINE Over(i) == {j \in S : j > i}
            T == {m \in Nat : m < Cardinality(S) /\ \A i \in S : Cardinality(Over(i)) # m}
<1>0. /\ IsFiniteSet(S) /\ Cardinality(S) \in Nat
      /\ \A U \in SUBSET S : IsFiniteSet(U) /\ Cardinality(U) \in Nat
  <2>1. IsFiniteSet(1..n) BY FS_Interval
  <2>2. \A U \in SUBSET S : U \subseteq 1..n /\ S \in SUBSET S OBVIOUS
  <2>3. \A U \in SUBSET S : IsFiniteSet(U) BY <2>1, <2>2, FS_Subset
  <2>. QED BY <2>2, <2>3, FS_CardinalityType
<1>1. SUFFICES ASSUME T # {} PROVE FALSE
  OBVIOUS
<1>2. PICK m \in T : \A l \in T : m <= l
  <2>1. T \in SUBSET Nat OBVIOUS
  <2>. HIDE DEF T
  <2>. QED BY <1>1, <2>1, Least
<1>3. CASE m = 0
  <2>1. S # {} BY <1>2, <1>3, FS_EmptySet
  <2>2. PICK i \in S : \A j \in S : j <= i
    <3>1. S \in SUBSET (0..n) OBVIOUS
    <3>. QED BY <2>1, <3>1, Largest
  <2>3. Over(i) = {} 
    <3>1. \A j \in S : ~(j > i) BY <2>2
    <3>. QED BY <3>1
  <2>4. Cardinality(Over(i)) = 0 BY <2>3, FS_EmptySet
  <2>. QED BY <1>2, <1>3, <2>4
<1>4. CASE m # 0
  <2>1. m \in Nat /\ m < Cardinality(S) /\ m - 1 \in Nat /\ m - 1 < Cardinality(S)
        /\ \A i \in S : Cardinality(Over(i)) # m
    BY <1>0, <1>2, <1>4
  <2>2. m - 1 \notin T
    <3>1. ~(m <= m - 1) BY <2>1
    <3>. HIDE DEF T
    <3>. QED BY <1>2, <3>1
  <2>3. PICK i \in S : Cardinality(Over(i)) = m - 1 BY <2>1, <2>2
  <2>. DEFINE Below == {j \in S : j < i}
  <2>4. Below # {}
    <3>. SUFFICES ASSUME Below = {} PROVE FALSE
      OBVIOUS
    <3>1. S = Over(i) \cup {i}
      <4>1. \A j \in S : ~(j < i) /\ j \in Nat /\ i \in Nat OBVIOUS
      <4>2. \A j \in S : j > i \/ j = i BY <4>1
      <4>. QED BY <4>2
    <3>2. i \notin Over(i) /\ IsFiniteSet(Over(i)) /\ Cardinality(Over(i)) \in Nat
      BY <1>0
    <3>3. Cardinality(S) = Cardinality(Over(i)) + 1
      <4>. HIDE DEF Over
      <4>. QED BY <3>1, <3>2, FS_AddElement
    <3>. QED BY <2>1, <2>3, <3>3
  <2>5. PICK b \in Below : \A j \in Below : j <= b
    <3>1. Below \in SUBSET (0..n)
      <4>1. \A j \in S : j \in 0..n OBVIOUS
      <4>. QED BY <4>1
    <3>. HIDE DEF Below
    <3>. QED BY <2>4, <3>1, Largest
  <2>6. Over(b) = Over(i) \cup {i}
    <3>1. b \in S /\ b < i /\ \A j \in S : j < i => j <= b BY <2>5
    <3>2. \A j \in S : j \in Nat /\ i \in Nat /\ b \in Nat OBVIOUS
    <3>3. \A j \in S : j > b <=> (j > i \/ j = i) BY <3>1, <3>2
    <3>. QED BY <3>3
  <2>7. i \notin Over(i) /\ IsFiniteSet(Over(i)) BY <1>0
  <2>8. Cardinality(Over(b)) = m
    <3>. HIDE DEF Over
    <3>. QED BY <2>1, <2>3, <2>6, <2>7, FS_AddElement
  <2>9. b \in S BY <2>5
  <2>. QED BY <2>1, <2>8, <2>9
<1>. QED BY <1>3, <1>4

-----------------------------------------------------------------------------
(***************************************************************************)
(* A jump on its way: above the loop it leads to, and above the trap       *)
(* handler it ends, there are as many loops as it has levels to pay for.   *)
(***************************************************************************)
Above(s, n, i) == {j \in OpenIn(s, n) : j > i}

\* The jump ends the trap handler in frame a + 1, and its loop is below.
Handled(s, n, a, l) ==
  /\ a + 1 \in 1..n /\ s[a+1].kind \in Traps
  /\ \A k \in a+2..n : s[k].kind \notin Traps
  /\ \E t \in OpenIn(s, n) : t <= a
  /\ l > Cardinality(Above(s, n, a + 1))
\* The jump leads to the loop in frame t.
OnCourse(s, n, t, l) ==
  /\ t \in OpenIn(s, n)
  /\ \A k \in t..n : /\ s[k].kind \notin Traps
                     /\ s[k].kind # "until" \/ s[k].phase # "condition"
  /\ l > Cardinality(Above(s, n, t))
  /\ \/ l = Cardinality(Above(s, n, t)) + 1
     \/ Cardinality(OpenIn(s, n)) = Cardinality(Above(s, n, t)) + 1

Destined ==
  /\ aim \in Nat
  /\ \/ Handled(stack, Height, aim, levels)
     \/ OnCourse(stack, Height, IF pending = "break" THEN aim + 1 ELSE aim, levels)
\* for has no condition.
ForBodies == \A i \in 1..Height : stack[i].kind = "for" => stack[i].phase = "body"
JumpInv ==
  /\ ForBodies
  /\ pending \in Jumps /\ aim # 0 => Destined

LEMMA ForBodiesStay ==
  ASSUME IInv, [Next]_vars, ForBodies
  PROVE  ForBodies'
<1>. DEFINE n == Height
<1>1. stack \in Seq(Frames) /\ n = Len(stack) /\ n \in Nat BY DEF IInv, Typed, Height
<1>2. CASE stack' = stack BY <1>2 DEF ForBodies, Height
<1>3. ASSUME NEW g, stack' = [stack EXCEPT ![n] = g], g.kind = "for" => g.phase = "body"
      PROVE  ForBodies'
  BY <1>1, <1>3 DEF ForBodies, Height
<1>4. ASSUME NEW s \in Seq(Frames), Len(s) = n, NEW f, stack' = Append(s, f),
             \A i \in 1..n : s[i].kind = stack[i].kind /\ s[i].phase = stack[i].phase,
             f.kind = "for" => f.phase = "body"
      PROVE  ForBodies'
  <2>1. Len(stack') = n + 1 /\ stack'[n+1] = f /\ \A i \in 1..n : stack'[i] = s[i]
    BY <1>1, <1>4
  <2>2. \A i \in 1..n+1 : i \in 1..n \/ i = n + 1 BY <1>1
  <2>. QED BY <1>4, <2>1, <2>2 DEF ForBodies, Height
<1>5. ASSUME pending \notin Outcomes, NEW stage, At(stage) PROVE ForBodies'
  <2>1. stack' = [stack EXCEPT ![n] = [stack[n] EXCEPT !.stage = stage]] BY <1>5 DEF At
  <2>2. n \in 1..n /\ stack[n] \in Frames BY <1>1, <1>5, TopFacts
  <2>3. [stack[n] EXCEPT !.stage = stage].kind = stack[n].kind
        /\ [stack[n] EXCEPT !.stage = stage].phase = stack[n].phase
    BY <2>2 DEF Frames
  <2>. QED BY <1>3, <2>1, <2>2, <2>3 DEF ForBodies
<1>6. ASSUME pending \notin Outcomes, NEW phase, NEW condition, GoOn(phase, condition),
             phase = Top.phase \/ phase = "body" \/ Top.kind # "for"
      PROVE  ForBodies'
  <2>1. PICK s \in Starts :
          stack' = [stack EXCEPT ![n] = [stack[n] EXCEPT !.stage = s, !.phase = phase]]
    BY <1>6 DEF GoOn
  <2>2. n \in 1..n /\ stack[n] \in Frames /\ Top = stack[n] BY <1>1, <1>6, TopFacts DEF Top
  <2>. DEFINE g == [stack[n] EXCEPT !.stage = s, !.phase = phase]
  <2>3. g.kind = stack[n].kind /\ g.phase = phase BY <2>2 DEF Frames
  <2>4. g.kind = "for" => g.phase = "body" BY <1>6, <2>2, <2>3 DEF ForBodies
  <2>. HIDE DEF g
  <2>. QED BY <1>3, <2>1, <2>4 DEF g
<1>7. ASSUME NEW kind, NEW phase, Push(stack, kind, phase), kind = "for" => phase = "body"
      PROVE  ForBodies'
  <2>1. PICK s \in First(kind) :
          stack' = Append(stack, [kind |-> kind, phase |-> phase, stage |-> s,
                                  found |-> Here(kind)])
    BY <1>7 DEF Push
  <2>. QED BY <1>1, <1>4, <1>7, <2>1
<1>8. ASSUME pending \notin Outcomes, NEW stage, NEW kind, NEW phase, kind # "for",
             Push([stack EXCEPT ![Height].stage = stage], kind, phase)
      PROVE  ForBodies'
  <2>. DEFINE s == [stack EXCEPT ![n] = [stack[n] EXCEPT !.stage = stage]]
  <2>1. PICK st \in First(kind) :
          stack' = Append(s, [kind |-> kind, phase |-> phase, stage |-> st,
                              found |-> Here(kind)])
    BY <1>8 DEF Push
  <2>2. n \in 1..n /\ stack[n] \in Frames BY <1>1, <1>8, TopFacts
  <2>3. [stack[n] EXCEPT !.stage = stage].kind = stack[n].kind
        /\ [stack[n] EXCEPT !.stage = stage].phase = stack[n].phase
    BY <2>2 DEF Frames
  <2>4. Len(s) = n /\ \A i \in 1..n : s[i].kind = stack[i].kind /\ s[i].phase = stack[i].phase
    BY <1>1, <2>2, <2>3
  <2>5. Len(stack') = n + 1 /\ stack'[n+1].kind = kind /\ \A i \in 1..n : stack'[i] = s[i]
    BY <1>1, <2>1
  <2>6. \A i \in 1..n+1 : i \in 1..n \/ i = n + 1 BY <1>1
  <2>. HIDE DEF s
  <2>. QED BY <1>8, <2>4, <2>5, <2>6 DEF ForBodies, Height
<1>9. ASSUME pending \notin Outcomes, NEW result, Leave(result) PROVE ForBodies'
  <2>1. n - 1 \in Nat /\ n - 1 <= Len(stack) BY <1>1, <1>9, TopFacts
  <2>2. Len(stack') = n - 1 /\ \A i \in 1..n-1 : stack'[i] = stack[i]
    <3>1. stack' = SubSeq(stack, 1, n - 1) BY <1>9, Zenon DEF Leave
    <3>2. stack \in Seq(Frames) BY <1>1
    <3>. DEFINE l == n - 1
    <3>3. l \in Nat /\ l <= Len(stack) BY <2>1
    <3>. HIDE DEF l
    <3>4. /\ Len(SubSeq(stack, 1, l)) = l
          /\ \A i \in 1..l : SubSeq(stack, 1, l)[i] = stack[i]
      BY <3>2, <3>3, Prefix
    <3>. QED BY <3>1, <3>4 DEF l
  <2>3. \A i \in 1..n-1 : i \in 1..n BY <1>1
  <2>. QED BY <2>2, <2>3 DEF ForBodies, Height
<1>. QED BY <1>2, <1>5, <1>6, <1>7, <1>8, <1>9, StackChange

-----------------------------------------------------------------------------
(***************************************************************************)
(* The steps that raise a jump, and those of a jump on its way.            *)
(***************************************************************************)
LEMMA JumpWords ==
  /\ Codes \cap Jumps = {} /\ Fatal \cap Jumps = {}
  /\ "go" \notin Jumps /\ "ended" \notin Jumps /\ "aborted" \notin Jumps
  /\ "exit" \notin Jumps /\ "return" \notin Jumps /\ "errexit" \notin Jumps
  /\ "subshellExit" \notin Jumps /\ "limit" \notin Jumps
  /\ "ok" \in Codes /\ "fail" \in Codes /\ Jumps \subseteq Errors
BY DEF Codes, Fatal, Jumps, Errors

LEMMA LeaveTells ==
  ASSUME NEW result, Leave(result), pending' \in Jumps
  PROVE  result = pending'
BY JumpWords DEF Leave

LEMMA JumpBegins ==
  ASSUME IInv, [Next]_vars, pending \notin Jumps, pending' \in Jumps
  PROVE  \E jump \in Jumps, n \in 1..MaxLevels : HandleBreak(jump, n) /\ loopDepth > 0
<1>1. Run \/ Return \/ Throw BY DEF Next, Finished, vars
<1>2. ASSUME NEW result, LeaveWith(result) \/ Leave(result), result \notin Jumps
      PROVE  FALSE
  BY <1>2, LeaveTells DEF LeaveWith
<1>3. ASSUME Run
      PROVE  \E jump \in Jumps, n \in 1..MaxLevels : HandleBreak(jump, n) /\ loopDepth > 0
  <2>1. ASSUME \/ ExecuteIf \/ ExecuteCase \/ ExecuteGroup \/ ExecuteFor
               \/ \E kind \in {"while", "until"} : ExecuteWhile(kind)
               \/ \E kind \in Isolated : ExecuteSubshell(kind)
               \/ CallFunction \/ HandleSource \/ HandleEval \/ CommandSubstitution
        PROVE  FALSE
    <3>1. pending' = "go"
      BY <2>1 DEF ExecuteIf, ExecuteCase, ExecuteGroup, ExecuteFor, ExecuteWhile,
         ExecuteSubshell, CallFunction, HandleSource, HandleEval, CommandSubstitution,
         Enter, Push
    <3>. QED BY <3>1, JumpWords
  <2>2. ASSUME \/ (\E code \in Codes : Command(code)) \/ (\E on \in BOOLEAN : SetErrexit(on))
               \/ HandleReturn \/ HandleExit \/ \E e \in Fatal : Fault(e)
        PROVE  FALSE
    BY <2>2, JumpWords DEF Command, SetErrexit, HandleReturn, HandleExit, Fault
  <2>6. ASSUME NEW e \in Fatal \cup {"exit"}, ExpansionFails(e) PROVE FALSE
    BY <2>6, JumpWords DEF ExpansionFails
  <2>. DEFINE B == \E jump \in Jumps, n \in 1..MaxLevels : HandleBreak(jump, n)
  <2>5. \/ ExecuteIf \/ ExecuteCase \/ ExecuteGroup \/ ExecuteFor
        \/ \E kind \in {"while", "until"} : ExecuteWhile(kind)
        \/ \E kind \in Isolated : ExecuteSubshell(kind)
        \/ CallFunction \/ HandleSource \/ HandleEval \/ CommandSubstitution
        \/ (\E code \in Codes : Command(code)) \/ (\E on \in BOOLEAN : SetErrexit(on))
        \/ HandleReturn \/ HandleExit \/ (\E e \in Fatal : Fault(e))
        \/ (\E e \in Fatal \cup {"exit"} : ExpansionFails(e)) \/ B
    BY <1>3 DEF Run
  <2>3. PICK jump \in Jumps, n \in 1..MaxLevels : HandleBreak(jump, n)
    BY <2>1, <2>2, <2>5, <2>6
  <2>4. loopDepth > 0 BY <2>3, JumpWords DEF HandleBreak
  <2>. QED BY <2>3, <2>4
<1>4. ASSUME Return PROVE FALSE
  <2>1. ASSUME NEW negated \in BOOLEAN, NEW code \in Codes,
               \/ NextPipeline(negated, code) \/ ShortCircuit(negated, code)
               \/ EndStatement(negated, code) \/ ExecuteErrTrap(negated, code)
        PROVE  FALSE
    BY <2>1, JumpWords DEF NextPipeline, ShortCircuit, EndStatement, ExecuteErrTrap, Push
  <2>2. ASSUME NextStage \/ ErrTrapEnds \/ NextStatement PROVE FALSE
    BY <2>2, JumpWords DEF NextStage, ErrTrapEnds, NextStatement, GoOn
  <2>3. ASSUME NEW phase, NEW condition, GoOn(phase, condition) PROVE FALSE
    BY <2>3, JumpWords DEF GoOn
  <2>4. ASSUME IfEnds PROVE FALSE BY <2>4, <1>2, <2>3, JumpWords DEF IfEnds
  <2>5. ASSUME LoopEnds PROVE FALSE BY <2>5, <1>2, <2>3, JumpWords DEF LoopEnds
  <2>6. ASSUME TooManyIterations \/ BodyEnds PROVE FALSE
    BY <1>2, <2>6, JumpWords DEF TooManyIterations, BodyEnds
  <2>7. ASSUME ScriptEnds PROVE FALSE
    BY <1>2, <2>7, JumpWords DEF ScriptEnds, ExecuteExitTrap, Push
  <2>8. ASSUME ExitTrapEnds PROVE FALSE
    BY <1>2, <2>8, JumpWords DEF ExitTrapEnds, ExitOf
  <2>9. ASSUME TargetsExpanded \/ InputRead PROVE FALSE
    BY <1>2, <2>3, <2>9, JumpWords DEF TargetsExpanded, InputRead
  <2>. QED BY <1>4, <2>1, <2>2, <2>4, <2>5, <2>6, <2>7, <2>8, <2>9 DEF Return
<1>5. ASSUME Throw PROVE FALSE
  <2>1. ~SegmentEnds /\ ~StatementFails
    BY JumpWords DEF SegmentEnds, StatementFails
  <2>2. ~CompoundFails /\ ~FunctionReturns /\ ~ScriptFails
    BY <1>2, JumpWords DEF CompoundFails, FunctionReturns, ScriptFails
  <2>3. ~SubshellExits BY <1>2, JumpWords DEF SubshellExits
  <2>4. ~JumpPasses /\ ~JumpEnds BY DEF JumpPasses, JumpEnds, AtLoop
  <2>5. ~CompoundPasses BY <1>2 DEF CompoundPasses, Pass
  <2>6. ~ScriptExits
    BY <1>2, JumpWords DEF ScriptExits, ExecuteExitTrap, Push, ExitOf
  <2>7. ~ScriptPasses BY <1>2, JumpWords DEF ScriptPasses, Pass
  <2>. QED BY <1>5, <2>1, <2>2, <2>3, <2>4, <2>5, <2>6, <2>7 DEF Throw
<1>. QED BY <1>1, <1>3, <1>4, <1>5

LEMMA JumpSteps ==
  ASSUME IInv, [Next]_vars, pending \in Jumps
  PROVE  \/ UNCHANGED vars
         \/ /\ pending \notin Outcomes /\ aim' = aim
            /\ \/ JumpPasses \/ JumpEnds \/ CompoundPasses \/ SubshellExits
               \/ StatementFails \/ ScriptPasses
<1>0. SUFFICES ASSUME Run \/ Return \/ Throw
      PROVE  /\ aim' = aim
             /\ \/ JumpPasses \/ JumpEnds \/ CompoundPasses \/ SubshellExits
                \/ StatementFails \/ ScriptPasses
  BY StepsTaken DEF Next, Finished
<1>1. ~Run
  BY JumpWords DEF Run, ExecuteIf, ExecuteCase, ExecuteGroup, ExecuteFor, ExecuteWhile,
       ExecuteSubshell, CallFunction, HandleSource, HandleEval, CommandSubstitution,
       Enter, Command, SetErrexit, HandleBreak, HandleReturn, HandleExit, Fault,
         ExpansionFails, Simple
<1>2. ~Return
  BY JumpWords DEF Return, NextStage, NextPipeline, ShortCircuit, EndStatement,
       ExecuteErrTrap, ErrTrapEnds, NextStatement, IfEnds, LoopEnds, TooManyIterations,
       BodyEnds, ScriptEnds, ExitTrapEnds, PipelineEnds, Ended, TargetsExpanded,
       InputRead
<1>3. ~SegmentEnds /\ ~FunctionReturns /\ ~ScriptFails /\ ~ScriptExits
  BY DEF SegmentEnds, InSegment, FunctionReturns, ScriptFails, ScriptExits, Jumps
<1>4. ~CompoundFails
  <2>1. \A kind \in Compounds : pending \notin Failures(kind)
    <3>1. Compounds = {"if", "case"} \cup Loops \cup {"group", "function"} \cup {"subshell"}
      BY DEF Compounds, Loops
    <3>2. pending \notin Fatal \cup {"nounset", "arithmetic", "subshellExit", "errexit"}
      BY DEF Jumps, Fatal
    <3>3. \A kind \in {"if", "case"} : Failures(kind) = {"nounset", "arithmetic"}
      BY DEF Failures, Loops
    <3>4. \A kind \in Loops : Failures(kind) = {"nounset", "arithmetic", "subshellExit"}
      BY DEF Failures, Loops
    <3>5. \A kind \in {"group", "function"} :
            Failures(kind) = (Fatal \ {"limit"}) \cup {"subshellExit"}
      BY DEF Failures, Loops
    <3>6. Failures("subshell") = (Fatal \ {"limit"}) \cup {"errexit"}
      BY DEF Failures, Loops
    <3>. QED BY <3>1, <3>2, <3>3, <3>4, <3>5, <3>6
  <2>. QED BY <2>1 DEF CompoundFails
<1>5. \/ JumpPasses \/ JumpEnds \/ CompoundPasses \/ SubshellExits
      \/ StatementFails \/ ScriptPasses
  BY <1>0, <1>1, <1>2, <1>3, <1>4 DEF Throw
<1>6. aim' = aim
  BY <1>5 DEF JumpPasses, JumpEnds, CompoundPasses, SubshellExits, StatementFails,
       ScriptPasses, LeaveWith, Pass, GoOn
<1>. QED BY <1>5, <1>6

-----------------------------------------------------------------------------
(***************************************************************************)
(* A jump leaves the construct on top: a loop takes a level.               *)
(***************************************************************************)
LEMMA LoopsOpen ==
  ASSUME IInv, pending \notin Outcomes
  PROVE  /\ loopDepth = Cardinality(OpenIn(stack, Height))
         /\ OpenIn(stack, Height) \subseteq 1..Height
         /\ OpenLoops = OpenIn(stack, Height)
         /\ \A U \in SUBSET OpenIn(stack, Height) :
              IsFiniteSet(U) /\ Cardinality(U) \in Nat /\ (U # {} => Cardinality(U) > 0)
<1>1. Counts(stack, Height, Now) BY TopFacts, WellCounts DEF IInv, Height
<1>2. loopDepth = Cardinality(OpenIn(stack, Height)) BY <1>1 DEF Counts, Now, Here
<1>3. OpenIn(stack, Height) \subseteq 1..Height BY DEF OpenIn
<1>4. OpenLoops = OpenIn(stack, Height) BY DEF OpenLoops, Boundary, OpenIn
<1>5. ASSUME NEW U \in SUBSET OpenIn(stack, Height)
      PROVE  IsFiniteSet(U) /\ Cardinality(U) \in Nat /\ (U # {} => Cardinality(U) > 0)
  <2>1. IsFiniteSet(1..Height) BY TopFacts, FS_Interval
  <2>2. IsFiniteSet(U) BY <1>3, <1>5, <2>1, FS_Subset
  <2>3. Cardinality(U) \in Nat BY <2>2, FS_CardinalityType
  <2>4. U # {} => Cardinality(U) # 0 BY <2>2, FS_EmptySet
  <2>. QED BY <2>2, <2>3, <2>4
<1>. QED BY <1>2, <1>3, <1>4, <1>5

LEMMA Popped ==
  ASSUME NEW s \in Seq(Frames), NEW n \in 2..Len(s), NEW i \in 1..n-1,
         s[n].kind \notin Isolated,
         NEW p \in Seq(Frames), \A j \in 1..n-1 : p[j] = s[j]
  PROVE  LET more == IF s[n].kind \in Loops THEN 1 ELSE 0 IN
         /\ OpenIn(p, n - 1) = OpenIn(s, n) \ {n}
         /\ Cardinality(OpenIn(p, n - 1)) \in Nat
         /\ Cardinality(Above(p, n - 1, i)) \in Nat
         /\ Cardinality(OpenIn(s, n)) = Cardinality(OpenIn(p, n - 1)) + more
         /\ Cardinality(Above(s, n, i)) = Cardinality(Above(p, n - 1, i)) + more
<1>0. n \in 1..Len(s) /\ n \in Nat /\ n > 0 /\ i \in Nat /\ i < n OBVIOUS
<1>1. OpenIn(p, n - 1) = OpenIn(s, n - 1)
  <2>1. \A j \in 1..n-1 : p[j].kind = s[j].kind OBVIOUS
  <2>. QED BY <2>1 DEF OpenIn
<1>2. OpenIn(s, n - 1) \subseteq 1..n-1 BY DEF OpenIn
<1>3. Above(p, n - 1, i) = {j \in OpenIn(s, n - 1) : j > i} BY <1>1 DEF Above
<1>. DEFINE A == {j \in OpenIn(s, n - 1) : j > i}
            O == OpenIn(s, n - 1)
<1>4. O \in SUBSET (1..n-1) /\ A \in SUBSET (1..n-1) /\ n \notin O BY <1>0, <1>2
<1>5. /\ Cardinality(O) \in Nat /\ Cardinality(O \cup {n}) = Cardinality(O) + 1
      /\ Cardinality(A) \in Nat /\ Cardinality(A \cup {n}) = Cardinality(A) + 1
  BY <1>0, <1>4, PrefixCardinality
<1>6. CASE s[n].kind \in Loops
  <2>1. OpenIn(s, n) = O \cup {n} BY <1>0, <1>6, OpenStep
  <2>2. Above(s, n, i) = A \cup {n} BY <1>0, <2>1 DEF Above
  <2>3. O = OpenIn(s, n) \ {n} BY <1>4, <2>1
  <2>. QED BY <1>1, <1>3, <1>5, <1>6, <2>1, <2>2, <2>3
<1>7. CASE s[n].kind \notin Loops
  <2>1. OpenIn(s, n) = O BY <1>0, <1>7, OpenStep
  <2>2. Above(s, n, i) = A BY <2>1 DEF Above
  <2>3. O = OpenIn(s, n) \ {n} BY <1>4, <2>1
  <2>4. Above(p, n - 1, i) = A BY <1>3
  <2>5. Cardinality(O) = Cardinality(O) + 0 /\ Cardinality(A) = Cardinality(A) + 0
    <3>. HIDE DEF O, A
    <3>. QED BY <1>5
  <2>. HIDE DEF O, A
  <2>6. OpenIn(p, n - 1) = O BY <1>1 DEF O
  <2>. QED BY <1>5, <1>7, <2>1, <2>2, <2>3, <2>4, <2>5, <2>6
<1>. QED BY <1>6, <1>7

\* Between a jump and the construct it leads to every construct passes it on.
LEMMA JumpGoesOn ==
  ASSUME IInv, pending \in Jumps, pending \notin Outcomes, Height > 1, loopDepth > 0,
         Top.kind \notin Isolated \cup Traps,
         AtLoop => levels > 1 /\ loopDepth > 1,
         \/ JumpPasses \/ JumpEnds \/ CompoundPasses \/ SubshellExits
         \/ StatementFails \/ ScriptPasses
  PROVE  /\ stack' = SubSeq(stack, 1, Height - 1) /\ pending' = pending
         /\ levels' = IF AtLoop THEN levels - 1 ELSE levels
<1>1. ~SubshellExits BY DEF SubshellExits, Isolated
<1>2. ~StatementFails BY JumpWords DEF StatementFails, Jumps
<1>3. ~JumpEnds BY DEF JumpEnds
<1>4. ASSUME Leave(pending)
      PROVE  stack' = SubSeq(stack, 1, Height - 1) /\ pending' = pending
  BY <1>4, JumpWords DEF Leave
<1>5. CASE JumpPasses BY <1>4, <1>5 DEF JumpPasses
<1>6. CASE CompoundPasses
  <2>1. ~AtLoop BY <1>6 DEF CompoundPasses
  <2>. QED BY <1>4, <1>6, <2>1 DEF CompoundPasses, Pass
<1>7. CASE ScriptPasses
  <2>1. ~AtLoop BY <1>7 DEF ScriptPasses, AtLoop, Scripts, Called, Traps, Loops
  <2>2. pending # "return" BY JumpWords
  <2>. QED BY <1>4, <1>7, <2>1, <2>2 DEF ScriptPasses, Pass
<1>. QED BY <1>1, <1>2, <1>3, <1>5, <1>6, <1>7

LEMMA PassedOn ==
  ASSUME IInv, pending \in Jumps, pending \notin Outcomes, NEW i \in 1..Height-1,
         Top.kind \notin Traps, \E t \in OpenIn(stack, Height) : t <= i,
         levels > Cardinality(Above(stack, Height, i)),
         \/ JumpPasses \/ JumpEnds \/ CompoundPasses \/ SubshellExits
         \/ StatementFails \/ ScriptPasses
  PROVE  LET n == Height - 1
             more == IF Top.kind \in Loops THEN 1 ELSE 0 IN
         /\ pending' = pending /\ Height' = n
         /\ \A j \in 1..n : stack'[j] = stack[j]
         /\ OpenIn(stack', n) = OpenIn(stack, Height) \ {Height}
         /\ Cardinality(OpenIn(stack', n)) \in Nat
         /\ Cardinality(Above(stack', n, i)) \in Nat
         /\ Cardinality(OpenIn(stack, Height)) = Cardinality(OpenIn(stack', n)) + more
         /\ Cardinality(Above(stack, Height, i)) = Cardinality(Above(stack', n, i)) + more
         /\ levels' = IF AtLoop THEN levels - 1 ELSE levels
         /\ levels' > Cardinality(Above(stack', n, i))
<1>. DEFINE n == Height
            p == SubSeq(stack, 1, n - 1)
            more == IF Top.kind \in Loops THEN 1 ELSE 0
<1>. HIDE DEF p, more
<1>1. /\ stack \in Seq(Frames) /\ n = Len(stack) /\ n \in Nat /\ n > 1 /\ Top = stack[n]
      /\ n \in 2..Len(stack) /\ levels \in Nat /\ i \in 1..n-1
  <2>1. stack \in Seq(Frames) /\ n = Len(stack) /\ n \in Nat BY TopFacts DEF Height
  <2>2. n > 1 BY <2>1
  <2>3. levels \in Nat BY ControlAssumption DEF IInv, Typed
  <2>. QED BY <2>1, <2>2, <2>3 DEF Top
<1>2. p \in Seq(Frames) /\ Len(p) = n - 1 /\ \A j \in 1..n-1 : p[j] = stack[j]
  <2>1. n - 1 \in Nat /\ n - 1 <= Len(stack) BY <1>1
  <2>. QED BY <1>1, <2>1, Prefix, Zenon DEF p
<1>3. PICK t \in OpenIn(stack, n) : t <= i OBVIOUS
<1>4. stack[n].kind \notin Isolated
  <2>1. n \in 1..n /\ ~(n < t) BY <1>1, <1>3 DEF OpenIn
  <2>2. stack[n].kind \in Isolated => n < t BY <2>1 DEF OpenIn
  <2>. QED BY <2>1, <2>2
<1>5. /\ OpenIn(p, n - 1) = OpenIn(stack, n) \ {n}
      /\ Cardinality(OpenIn(p, n - 1)) \in Nat
      /\ Cardinality(Above(p, n - 1, i)) \in Nat
      /\ Cardinality(OpenIn(stack, n)) = Cardinality(OpenIn(p, n - 1)) + more
      /\ Cardinality(Above(stack, n, i)) = Cardinality(Above(p, n - 1, i)) + more
  <2>. HIDE DEF n
  <2>1. n \in 2..Len(stack) /\ i \in 1..n-1 /\ p \in Seq(Frames) /\ stack \in Seq(Frames)
        /\ stack[n].kind \notin Isolated /\ \A j \in 1..n-1 : p[j] = stack[j]
    BY <1>1, <1>2, <1>4
  <2>2. more = IF stack[n].kind \in Loops THEN 1 ELSE 0 BY <1>1 DEF more
  <2>3. LET m == IF stack[n].kind \in Loops THEN 1 ELSE 0 IN
        /\ OpenIn(p, n - 1) = OpenIn(stack, n) \ {n}
        /\ Cardinality(OpenIn(p, n - 1)) \in Nat
        /\ Cardinality(Above(p, n - 1, i)) \in Nat
        /\ Cardinality(OpenIn(stack, n)) = Cardinality(OpenIn(p, n - 1)) + m
        /\ Cardinality(Above(stack, n, i)) = Cardinality(Above(p, n - 1, i)) + m
    BY <2>1, Popped
  <2>. QED BY <2>2, <2>3
<1>6. Cardinality(OpenIn(p, n - 1)) > 0
  <2>1. t # n BY <1>1, <1>3 DEF OpenIn
  <2>2. OpenIn(p, n - 1) # {} BY <1>3, <1>5, <2>1
  <2>. QED BY <1>5, <2>2, LoopsOpen
<1>7. loopDepth = Cardinality(OpenIn(stack, n)) BY LoopsOpen
<1>8. more \in {0, 1} /\ (AtLoop => more = 1) BY DEF more, AtLoop
<1>9. loopDepth > 0 /\ (AtLoop => levels > 1 /\ loopDepth > 1)
  <2>. HIDE DEF n
  <2>1. levels > Cardinality(Above(p, n - 1, i)) + more BY <1>5 DEF n
  <2>. QED BY <1>1, <1>5, <1>6, <1>7, <1>8, <2>1
<1>10. /\ stack' = p /\ pending' = pending
       /\ levels' = IF AtLoop THEN levels - 1 ELSE levels
  <2>1. Top.kind \notin Isolated \cup Traps BY <1>1, <1>4
  <2>. QED BY <1>1, <1>9, <2>1, JumpGoesOn DEF p
<1>11. levels' > Cardinality(Above(p, n - 1, i))
  <2>. HIDE DEF n
  <2>1. levels > Cardinality(Above(p, n - 1, i)) + more BY <1>5 DEF n
  <2>. QED BY <1>1, <1>5, <1>8, <1>10, <2>1
<1>12. Height' = n - 1 BY <1>2, <1>10 DEF Height
<1>. QED BY <1>2, <1>5, <1>10, <1>11, <1>12 DEF more

-----------------------------------------------------------------------------
(***************************************************************************)
(* A jump on its way stays on its way until it is where it leads to.       *)
(***************************************************************************)
Lands == Len(stack') = aim \/ (pending = "continue" /\ Height = aim)

LEMMA HandledStep ==
  ASSUME IInv, pending \in Jumps, pending \notin Outcomes, aim \in Nat, aim' = aim,
         Handled(stack, Height, aim, levels),
         \/ JumpPasses \/ JumpEnds \/ CompoundPasses \/ SubshellExits
         \/ StatementFails \/ ScriptPasses
  PROVE  IF pending' \in Jumps THEN Destined' ELSE Lands
<1>. DEFINE n == Height
            j == aim + 1
<1>1. /\ stack \in Seq(Frames) /\ n = Len(stack) /\ n \in Nat /\ n > 0 /\ Top = stack[n]
  BY TopFacts DEF Height, Top
<1>2. /\ j \in 1..n /\ stack[j].kind \in Traps
      /\ \A k \in j+1..n : stack[k].kind \notin Traps
      /\ levels > Cardinality(Above(stack, n, j))
  BY DEF Handled
<1>3. PICK t \in OpenIn(stack, n) : t <= aim BY DEF Handled
<1>4. CASE j = n
  <2>1. Top.kind \in Traps /\ Top.kind \notin Loops \cup Compounds \cup {"subshell"}
    BY <1>1, <1>2, <1>4 DEF Traps, Loops, Compounds
  <2>2. loopDepth > 0 BY <1>3, LoopsOpen
  <2>3. ScriptPasses
    <3>1. ~JumpPasses /\ ~JumpEnds BY <2>1 DEF JumpPasses, JumpEnds, AtLoop
    <3>2. ~CompoundPasses /\ ~SubshellExits BY <2>1 DEF CompoundPasses, SubshellExits
    <3>3. ~StatementFails BY <2>2 DEF StatementFails, Jumps
    <3>. QED BY <3>1, <3>2, <3>3
  <2>4. LeaveWith("fail") BY <2>1, <2>3 DEF ScriptPasses
  <2>5. pending' \notin Jumps BY <2>4, LeaveTells, JumpWords DEF LeaveWith
  <2>6. n - 1 \in Nat /\ n - 1 <= Len(stack) BY <1>1
  <2>7. Len(stack') = n - 1
    <3>1. stack' = SubSeq(stack, 1, n - 1) BY <2>4, Zenon DEF LeaveWith, Leave
    <3>. DEFINE l == n - 1
    <3>2. l \in Nat /\ l <= Len(stack) BY <2>6
    <3>3. stack \in Seq(Frames) BY <1>1
    <3>. HIDE DEF l
    <3>4. Len(SubSeq(stack, 1, l)) = l BY <3>2, <3>3, Prefix
    <3>. QED BY <3>1, <3>4 DEF l
  <2>. QED BY <1>1, <1>4, <2>5, <2>7 DEF Lands
<1>5. CASE j # n
  <2>1. j \in 1..n-1 /\ t <= j /\ n \in j+1..n
    <3>1. t \in Nat BY <1>3 DEF OpenIn
    <3>. QED BY <1>1, <1>2, <1>3, <1>5, <3>1
  <2>2. Top.kind \notin Traps BY <1>1, <1>2, <2>1
  <2>3. /\ pending' = pending /\ Height' = n - 1
        /\ \A k \in 1..n-1 : stack'[k] = stack[k]
        /\ OpenIn(stack', n - 1) = OpenIn(stack, n) \ {n}
        /\ levels' > Cardinality(Above(stack', n - 1, j))
    BY <1>2, <1>3, <2>1, <2>2, PassedOn
  <2>4. t \in OpenIn(stack', n - 1)
    <3>1. t # n BY <1>1, <1>3, <2>1 DEF OpenIn
    <3>. QED BY <1>3, <2>3, <3>1
  <2>5. stack'[j].kind \in Traps /\ \A k \in j+1..n-1 : stack'[k].kind \notin Traps
    <3>1. \A k \in j+1..n-1 : k \in 1..n-1 /\ k \in j+1..n BY <1>1, <2>1
    <3>. QED BY <1>2, <2>1, <2>3, <3>1
  <2>6. Handled(stack', n - 1, aim, levels')
    <3>1. j + 1 = aim + 2 OBVIOUS
    <3>. QED BY <1>3, <2>1, <2>3, <2>4, <2>5, <3>1 DEF Handled
  <2>. QED BY <2>3, <2>6 DEF Destined
<1>. QED BY <1>4, <1>5

LEMMA OnCourseStep ==
  ASSUME IInv, ForBodies, pending \in Jumps, pending \notin Outcomes, aim \in Nat, aim' = aim,
         OnCourse(stack, Height, IF pending = "break" THEN aim + 1 ELSE aim, levels),
         \/ JumpPasses \/ JumpEnds \/ CompoundPasses \/ SubshellExits
         \/ StatementFails \/ ScriptPasses
  PROVE  IF pending' \in Jumps THEN Destined' ELSE Lands
<1>. DEFINE n == Height
            t == IF pending = "break" THEN aim + 1 ELSE aim
<1>1. /\ stack \in Seq(Frames) /\ n = Len(stack) /\ n \in Nat /\ n > 0 /\ Top = stack[n]
      /\ levels \in Nat /\ Top \in Frames
  <2>1. levels \in Nat BY ControlAssumption DEF IInv, Typed
  <2>. QED BY <2>1, TopFacts DEF Height, Top
<1>2. /\ t \in OpenIn(stack, n)
      /\ \A k \in t..n : /\ stack[k].kind \notin Traps
                         /\ stack[k].kind # "until" \/ stack[k].phase # "condition"
      /\ levels > Cardinality(Above(stack, n, t))
      /\ \/ levels = Cardinality(Above(stack, n, t)) + 1
         \/ Cardinality(OpenIn(stack, n)) = Cardinality(Above(stack, n, t)) + 1
  BY DEF OnCourse
<1>3. t \in 1..n /\ stack[t].kind \in Loops BY <1>2 DEF OpenIn
<1>. HIDE DEF t
<1>4. Top.kind \in Loops => AtLoop
  <2>1. n \in t..n /\ n \in 1..n BY <1>1, <1>3
  <2>2. Top.kind # "until" \/ Top.phase # "condition" BY <1>1, <1>2, <2>1
  <2>3. Top.kind = "for" => Top.phase = "body" BY <1>1, <2>1 DEF ForBodies
  <2>4. Top.phase \in {"condition", "body"} BY <1>1 DEF Frames
  <2>. QED BY <2>2, <2>3, <2>4 DEF AtLoop, Loops
<1>5. CASE t = n
  <2>1. AtLoop /\ Top.kind \in Loops BY <1>1, <1>3, <1>4, <1>5
  <2>2. Cardinality(Above(stack, n, t)) = 0
    <3>1. \A k \in 1..n : ~(k > n) BY <1>1
    <3>2. Above(stack, n, t) = {} BY <1>5, <3>1 DEF Above, OpenIn
    <3>. QED BY <3>2, FS_EmptySet
  <2>3. ~(levels > 1 /\ loopDepth > 1) BY <1>1, <1>2, <2>2, LoopsOpen
  <2>4. JumpEnds
    <3>1. Top.kind \notin Scripts /\ Top.kind # "subshell"
      BY <2>1 DEF Loops, Scripts, Called, Traps
    <3>. QED BY <2>1, <2>3, <3>1 DEF JumpPasses, CompoundPasses, SubshellExits,
                StatementFails, ScriptPasses
  <2>5. ASSUME NEW code \in Codes, LeaveWith(code)
        PROVE  pending' \notin Jumps /\ Len(stack') = n - 1
    <3>1. pending' \notin Jumps BY <2>5, LeaveTells, JumpWords DEF LeaveWith
    <3>2. n - 1 \in Nat /\ n - 1 <= Len(stack) BY <1>1
    <3>3. Len(stack') = n - 1 BY <1>1, <2>5, <3>2, Prefix, Zenon DEF LeaveWith, Leave
    <3>. QED BY <3>1, <3>3
  <2>6. CASE pending = "break"
    <3>1. n - 1 = aim BY <1>5, <2>6 DEF t
    <3>2. \E code \in Codes : LeaveWith(code) BY <2>4, <2>6 DEF JumpEnds
    <3>. QED BY <2>5, <3>1, <3>2 DEF Lands
  <2>7. CASE pending # "break"
    <3>1. pending = "continue" /\ n = aim BY <1>5, <2>7 DEF Jumps, t
    <3>2. \/ \E phase, condition : GoOn(phase, condition)
          \/ \E code \in Codes : LeaveWith(code)
      BY <2>4, <3>1 DEF JumpEnds
    <3>3. pending' \notin Jumps BY <2>5, <3>2, JumpWords DEF GoOn
    <3>. QED BY <3>1, <3>3 DEF Lands
  <2>. QED BY <2>6, <2>7
<1>6. CASE t # n
  <2>. DEFINE more == IF Top.kind \in Loops THEN 1 ELSE 0
  <2>1. t \in 1..n-1 /\ n \in t..n BY <1>1, <1>3, <1>6
  <2>2. Top.kind \notin Traps BY <1>1, <1>2, <2>1
  <2>3. \E o \in OpenIn(stack, n) : o <= t
    <3>1. t <= t BY <1>3
    <3>. QED BY <1>2, <3>1
  <2>4. /\ pending' = pending /\ Height' = n - 1
        /\ \A k \in 1..n-1 : stack'[k] = stack[k]
        /\ OpenIn(stack', n - 1) = OpenIn(stack, n) \ {n}
        /\ Cardinality(OpenIn(stack', n - 1)) \in Nat
        /\ Cardinality(Above(stack', n - 1, t)) \in Nat
        /\ Cardinality(OpenIn(stack, n)) = Cardinality(OpenIn(stack', n - 1)) + more
        /\ Cardinality(Above(stack, n, t)) = Cardinality(Above(stack', n - 1, t)) + more
        /\ levels' = IF AtLoop THEN levels - 1 ELSE levels
        /\ levels' > Cardinality(Above(stack', n - 1, t))
    BY <1>2, <2>1, <2>2, <2>3, PassedOn
  <2>5. AtLoop = (Top.kind \in Loops) /\ AtLoop \in BOOLEAN BY <1>4 DEF AtLoop
  <2>6. levels' = levels - more
    <3>1. CASE AtLoop
      <4>1. more = 1 BY <2>5, <3>1
      <4>2. levels' = levels - 1 BY <2>4, <3>1
      <4>. QED BY <4>1, <4>2
    <3>2. CASE ~AtLoop
      <4>1. more = 0 BY <2>5, <3>2
      <4>2. levels' = levels BY <2>4, <3>2
      <4>. QED BY <1>1, <4>1, <4>2
    <3>. QED BY <3>1, <3>2
  <2>7. more \in Nat OBVIOUS
  <2>8. \/ levels' = Cardinality(Above(stack', n - 1, t)) + 1
        \/ Cardinality(OpenIn(stack', n - 1)) = Cardinality(Above(stack', n - 1, t)) + 1
    <3>. HIDE DEF n, more
    <3>. QED BY <1>1, <1>2, <2>4, <2>6, <2>7 DEF n
  <2>9. t \in OpenIn(stack', n - 1) BY <1>2, <1>6, <2>4
  <2>10. \A k \in t..n-1 : /\ stack'[k].kind \notin Traps
                           /\ stack'[k].kind # "until" \/ stack'[k].phase # "condition"
    <3>1. \A k \in t..n-1 : k \in 1..n-1 /\ k \in t..n BY <1>1, <1>3
    <3>. QED BY <1>2, <2>4, <3>1
  <2>11. OnCourse(stack', n - 1, t, levels') BY <2>4, <2>8, <2>9, <2>10 DEF OnCourse
  <2>. QED BY <2>4, <2>11 DEF Destined, t
<1>. QED BY <1>5, <1>6

-----------------------------------------------------------------------------
(***************************************************************************)
(* break and continue find the loop they lead to, and the trap handler     *)
(* they end first is the innermost one.                                    *)
(***************************************************************************)
LEMMA TargetFound ==
  ASSUME IInv, pending \notin Outcomes, loopDepth > 0, NEW n \in Nat, n > 0
  PROVE  LET t == Target(n) IN
         /\ t \in OpenIn(stack, Height)
         /\ n > Cardinality(Above(stack, Height, t))
         /\ \/ n = Cardinality(Above(stack, Height, t)) + 1
            \/ loopDepth = Cardinality(Above(stack, Height, t)) + 1
<1>. DEFINE O == OpenIn(stack, Height)
            m == IF n > loopDepth THEN loopDepth ELSE n
            t == Target(n)
<1>1. /\ loopDepth = Cardinality(O) /\ O \in SUBSET (1..Height) /\ OpenLoops = O
      /\ Height \in Nat /\ loopDepth \in Nat
  BY LoopsOpen, TopFacts DEF IInv, Typed
<1>2. m - 1 \in Nat /\ m - 1 < loopDepth /\ n > m - 1 /\ (n = m \/ loopDepth = m)
  BY <1>1
<1>3. \E i \in O : Cardinality({j \in O : j > i}) = m - 1
  <2>1. m - 1 \in Nat /\ m - 1 < Cardinality(O) BY <1>1, <1>2
  <2>2. Height \in Nat /\ O \in SUBSET (1..Height) BY <1>1
  <2>. DEFINE l == m - 1
              h == Height
  <2>3. l \in Nat BY <2>1
  <2>5. l < Cardinality(O) BY <2>1
  <2>6. h \in Nat BY <2>2
  <2>7. O \in SUBSET (1..h) BY <2>2
  <2>. HIDE DEF O, l, h
  <2>4. \E i \in O : Cardinality({j \in O : j > i}) = l
    BY <2>3, <2>5, <2>6, <2>7, NthFromAbove, Zenon
  <2>. QED BY <2>4 DEF l
<1>4. t = CHOOSE i \in O : Cardinality({j \in O : j > i}) = m - 1
  BY <1>1 DEF Target
<1>5. t \in O /\ Cardinality({j \in O : j > t}) = m - 1
  <2>. HIDE DEF O, m, t
  <2>. QED BY <1>3, <1>4
<1>6. Above(stack, Height, t) = {j \in O : j > t} BY DEF Above
<1>7. m = (m - 1) + 1 /\ m \in Nat BY <1>1
<1>. HIDE DEF t, m
<1>. QED BY <1>2, <1>5, <1>6, <1>7 DEF t

LEMMA BreakAims ==
  ASSUME IInv, NEW jump \in Jumps, NEW n \in 1..MaxLevels, HandleBreak(jump, n), loopDepth > 0,
         pending' \in Jumps, aim' # 0
  PROVE  Destined'
<1>. DEFINE h == Height
            t == Target(n)
<1>1. /\ pending \notin Outcomes /\ stack' = stack /\ Height' = Height
      /\ pending' = jump /\ levels' = n /\ aim' = Aim(jump, n)
  BY JumpWords DEF HandleBreak, Simple, Outcomes, Height
<1>2. n \in Nat /\ n > 0 BY ControlAssumption
<1>3. /\ t \in OpenIn(stack, h)
      /\ n > Cardinality(Above(stack, h, t))
      /\ \/ n = Cardinality(Above(stack, h, t)) + 1
         \/ loopDepth = Cardinality(Above(stack, h, t)) + 1
  BY <1>1, <1>2, TargetFound
<1>4. /\ stack \in Seq(Frames) /\ h = Len(stack) /\ h \in Nat
      /\ loopDepth = Cardinality(OpenIn(stack, h))
      /\ t \in 1..h /\ stack[t].kind \in Loops
  <2>1. stack \in Seq(Frames) /\ h = Len(stack) /\ h \in Nat BY <1>1, TopFacts DEF Height
  <2>2. loopDepth = Cardinality(OpenIn(stack, h)) BY <1>1, LoopsOpen
  <2>. QED BY <1>3, <2>1, <2>2 DEF OpenIn
<1>. HIDE DEF t
<1>5. CASE Handling(t) # {}
  <2>1. PICK j \in Handling(t) : \A k \in Handling(t) : k <= j
    <3>1. Handling(t) \in SUBSET (0..h) BY <1>4 DEF Handling
    <3>. QED BY <1>4, <1>5, <3>1, Largest
  <2>. DEFINE top == CHOOSE i \in Handling(t) : \A k \in Handling(t) : k <= i
  <2>2. top \in Handling(t) /\ \A k \in Handling(t) : k <= top BY <2>1
  <2>3. aim' = top - 1 BY <1>1, <1>5 DEF Aim, t
  <2>. HIDE DEF top
  <2>4. top \in t..h /\ stack[top].kind \in Traps BY <2>2 DEF Handling
  <2>5. top # t BY <1>4, <2>4 DEF Traps, Loops
  <2>6. top \in 1..h /\ t < top /\ aim' \in Nat /\ top = aim' + 1 /\ t <= aim'
    BY <1>4, <2>3, <2>4, <2>5
  <2>7. ASSUME NEW k \in top+1..h PROVE stack[k].kind \notin Traps
    <3>1. h \in Nat /\ t \in 1..h BY <1>4
    <3>2. top \in 1..h /\ t < top BY <2>6
    <3>3. k \in t..h /\ ~(k <= top)
      <4>. HIDE DEF h
      <4>. QED BY <3>1, <3>2
    <3>4. k \notin Handling(t) BY <2>2, <3>3
    <3>. QED BY <3>3, <3>4 DEF Handling
  <2>8. n > Cardinality(Above(stack, h, top))
    <3>1. Above(stack, h, top) \subseteq Above(stack, h, t)
      <4>1. \A o \in OpenIn(stack, h) : o \in Nat BY <1>4 DEF OpenIn
      <4>. QED BY <1>4, <2>6, <4>1 DEF Above
    <3>2. Above(stack, h, t) \in SUBSET OpenIn(stack, h) BY DEF Above
    <3>3. Above(stack, h, top) \in SUBSET OpenIn(stack, h) BY DEF Above
    <3>4. IsFiniteSet(Above(stack, h, t)) BY <1>1, <3>2, LoopsOpen
    <3>5. Cardinality(Above(stack, h, top)) <= Cardinality(Above(stack, h, t))
      BY <3>1, <3>4, FS_Subset
    <3>6. Cardinality(Above(stack, h, top)) \in Nat /\ Cardinality(Above(stack, h, t)) \in Nat
      BY <1>1, <3>2, <3>3, LoopsOpen
    <3>. QED BY <1>2, <1>3, <3>5, <3>6
  <2>9. Handled(stack, h, aim', n)
    <3>1. aim' + 2 = top + 1 BY <2>6
    <3>. QED BY <1>3, <2>4, <2>6, <2>7, <2>8, <3>1 DEF Handled
  <2>. QED BY <1>1, <2>6, <2>9 DEF Destined
<1>6. CASE Handling(t) = {}
  <2>1. ~Stray(t) /\ aim' = IF jump = "break" THEN t - 1 ELSE t
    BY <1>1, <1>6 DEF Aim, t
  <2>2. \A k \in t..h : /\ stack[k].kind \notin Traps
                        /\ stack[k].kind # "until" \/ stack[k].phase # "condition"
    BY <1>6, <2>1 DEF Handling, Stray
  <2>3. OnCourse(stack, h, t, n) BY <1>3, <1>4, <2>2 DEF OnCourse
  <2>4. aim' \in Nat /\ t = IF jump = "break" THEN aim' + 1 ELSE aim' BY <1>4, <2>1
  <2>. QED BY <1>1, <2>3, <2>4 DEF Destined
<1>. QED BY <1>5, <1>6

-----------------------------------------------------------------------------
LEMMA AimStays ==
  ASSUME IInv, [Next]_vars, aim' # aim
  PROVE  pending \notin Jumps
BY JumpSteps DEF vars

LEMMA JumpStep ==
  ASSUME IInv, [Next]_vars, JumpInv
  PROVE  /\ JumpInv'
         /\ pending \in Jumps /\ pending' \notin Jumps /\ aim # 0 => Lands
<1>1. ForBodies' BY ForBodiesStay DEF JumpInv
<1>2. CASE pending \notin Jumps
  <2>. SUFFICES ASSUME pending' \in Jumps, aim' # 0 PROVE Destined'
    BY <1>1, <1>2 DEF JumpInv
  <2>. QED BY <1>2, JumpBegins, BreakAims
<1>3. CASE pending \in Jumps /\ aim = 0
  <2>1. aim' = 0 BY <1>3, AimStays
  <2>. QED BY <1>1, <1>3, <2>1 DEF JumpInv
<1>4. CASE pending \in Jumps /\ aim # 0
  <2>1. Destined BY <1>4 DEF JumpInv
  <2>2. CASE UNCHANGED vars
    <3>1. Destined' = Destined /\ pending' = pending
      BY <2>2 DEF vars, Destined, Height
    <3>. QED BY <1>1, <1>4, <2>1, <3>1 DEF JumpInv
  <2>3. CASE /\ pending \notin Outcomes /\ aim' = aim
             /\ \/ JumpPasses \/ JumpEnds \/ CompoundPasses \/ SubshellExits
                \/ StatementFails \/ ScriptPasses
    <3>1. IF pending' \in Jumps THEN Destined' ELSE Lands
      BY <1>4, <2>1, <2>3, HandledStep, OnCourseStep DEF Destined, JumpInv
    <3>. QED BY <1>1, <1>4, <3>1 DEF JumpInv
  <2>. QED BY <1>4, <2>2, <2>3, JumpSteps
<1>. QED BY <1>2, <1>3, <1>4

(***************************************************************************)
(* break and continue end at the loop their argument says, whatever        *)
(* constructs are between, and within a trap handler at its end            *)
(* (handleLoopError, BreakError and ContinueError): for every depth of     *)
(* nesting and every argument.                                             *)
(***************************************************************************)
THEOREM JumpsLand == Spec => JumpLands
<1>1. Init => JumpInv
  <2>. SUFFICES ASSUME Init PROVE ForBodies
    BY DEF Init, JumpInv
  <2>1. PICK s \in Starts :
          stack = << [kind |-> "main", phase |-> "body", stage |-> s, found |-> Here("main")] >>
    BY DEF Init
  <2>. QED BY <2>1 DEF ForBodies, Height
<1>2. IInv /\ [Next]_vars /\ JumpInv => JumpInv' BY JumpStep
<1>3. IInv /\ [Next]_vars /\ JumpInv =>
        [(pending \in Jumps /\ pending' \notin Jumps /\ aim # 0) =>
           Len(stack') = aim \/ (pending = "continue" /\ Height = aim)]_vars
  BY JumpStep DEF Lands
<1>. QED BY <1>1, <1>2, <1>3, Invariant, PTL DEF Spec, JumpLands
=============================================================================
