---------------------------- MODULE ShellControl ----------------------------
(***************************************************************************)
(* Control flow of the interpreter (packages/bash/src/interpreter).  A     *)
(* construct is a call of a JavaScript function that executes statements;  *)
(* break, continue, return, exit, set -e and the fatal errors are          *)
(* exceptions, which every construct catches, changes or passes on, and    *)
(* which must not leave behind the counters and flags it has set.          *)
(*                                                                         *)
(* The state is the call stack, one frame for each construct, with the     *)
(* counters of InterpreterState.  The text of the program is left open:    *)
(* wherever the interpreter looks at it, every continuation is possible.   *)
(* Output, variables, the shell option lastpipe and redirections (but for  *)
(* those of a function, whose targets are expanded within its call) are    *)
(* left out, the body of a function is a group, and trap handlers are      *)
(* registered from the start.                                              *)
(*                                                                         *)
(* A definition announced as the mutant of the next one is used by no      *)
(* action.                                                                 *)
(***************************************************************************)
EXTENDS Integers, Sequences, FiniteSets

CONSTANTS
  MaxDepth,     \* bound: constructs within one another
  MaxLevels,    \* bound: the argument of break and continue
  MaxLeaked,    \* bound: calls that expand targets, under way or left by an error
  Constructs,   \* bound: the constructs programs of an instance are made of
  Faults,       \* bound: the fatal errors of an instance
  Signals       \* bound: the signals of an instance that have a trap handler, if any has

Loops     == {"for", "while", "until"}
Traps     == {"exitTrap", "errTrap"}
Isolated  == {"subshell", "userScript"}  \* they save options and loopDepth
Called    == {"eval", "source", "subst", "userScript"}
Scripts   == {"main"} \cup Called \cup Traps
Compounds == {"if", "case", "group", "subshell", "function"} \cup Loops
Jumps     == {"break", "continue"}
Fatal     == {"posixFatal", "limit", "nounset", "arithmetic"}
Errors    == Jumps \cup Fatal \cup {"return", "exit", "errexit", "subshellExit"}
Codes     == {"ok", "fail"}  \* exit status zero, and any other

ASSUME ControlAssumption ==
  /\ MaxDepth \in Nat \ {0} /\ MaxLevels \in Nat \ {0} /\ MaxLeaked \in Nat
  /\ Constructs \subseteq Compounds \cup Called
  /\ Faults \subseteq Fatal
  /\ Signals \subseteq {"EXIT", "ERR"}

VARIABLES
  stack,       \* constructs under execution, the innermost last
  pending,     \* "go": the next command of the innermost construct; a code: what
               \* just ended in it; an error: the exception on its way
  levels,      \* BreakError.levels, ContinueError.levels
  loopDepth, parentHasLoopContext, inCondition, callDepth, sourceDepth,
  errexit,     \* options.errexit
  errexitSafe,
  handlers,    \* signals with a trap handler
  exitTrapFired, executingErrTrap,
  aim,         \* history: the height of the stack a jump should lead to
  leaked       \* history: calls left without being counted back

calls == <<callDepth, leaked>>
counters == <<loopDepth, parentHasLoopContext, inCondition, calls, sourceDepth,
              executingErrTrap>>
traps == <<handlers, exitTrapFired>>
vars == <<stack, pending, levels, counters, errexit, errexitSafe, traps, aim>>

\* Where a construct is within its current statement: in the only command of a
\* pipeline, in one of several; behind the statement; in the handler of ERR; in that
\* of EXIT, to end or to exit afterwards.  A call of a function may first expand the
\* targets of the function's redirections, and then read those of its input.
Starts       == {"only", "segment"}
Redirections == {"targets", "input"}
Stages       == Starts \cup Redirections \cup {"over", "errTrap", "ending", "exiting"}
Found ==
  [loopDepth : Nat, parentHasLoopContext : BOOLEAN, inCondition : BOOLEAN,
   callDepth : Nat, sourceDepth : Nat, executingErrTrap : BOOLEAN, errexit : BOOLEAN]
Frames ==
  [kind : Scripts \cup Compounds, phase : {"condition", "body"}, stage : Stages,
   found : Found]

Height == Len(stack)
Top    == stack[Height]
Redirecting == Top.stage \in Redirections
\* The counters, callDepth without the calls that have leaked.
Here(kind) == [loopDepth |-> loopDepth, parentHasLoopContext |-> parentHasLoopContext,
           inCondition |-> inCondition, callDepth |-> callDepth - leaked,
           sourceDepth |-> sourceDepth, executingErrTrap |-> executingErrTrap,
           errexit |-> errexit /\ kind \in Isolated]

Init ==
  /\ pending = "go" /\ levels = 0 /\ aim = 0 /\ leaked = 0
  /\ loopDepth = 0 /\ callDepth = 0 /\ sourceDepth = 0
  /\ parentHasLoopContext = FALSE /\ inCondition = FALSE
  /\ errexit \in BOOLEAN /\ errexitSafe = FALSE
  /\ handlers \in {{}, Signals}
  /\ exitTrapFired = FALSE /\ executingErrTrap = FALSE
  /\ \E s \in Starts :
       stack = << [kind |-> "main", phase |-> "body", stage |-> s, found |-> Here("main")] >>

-----------------------------------------------------------------------------
(***************************************************************************)
(* Entering a construct, and leaving one.                                  *)
(***************************************************************************)
Expanding == {i \in 1..Height : stack[i].stage = "targets"}
First(kind) ==
  Starts \cup (IF kind = "function" /\ leaked + Cardinality(Expanding) < MaxLeaked
             THEN {"targets"} ELSE {})
Push(frames, kind, phase) ==
  /\ \E s \in First(kind) :
       /\ stack' = Append(frames, [kind |-> kind, phase |-> phase, stage |-> s,
                                   found |-> Here(kind)])
       /\ errexitSafe' = (errexitSafe /\ s = "targets")
  /\ pending' = "go"
  /\ UNCHANGED <<levels, errexit, handlers, aim>>

Enter(kind, phase) ==
  /\ pending = "go" /\ kind \in Constructs /\ Height < MaxDepth
  /\ Redirecting => kind = "subst"
  /\ Push(stack, kind, phase) /\ UNCHANGED exitTrapFired

ExecuteIf == 
  /\ Enter("if", "condition") /\ inCondition' = TRUE
  /\ UNCHANGED <<loopDepth, parentHasLoopContext, calls, sourceDepth, executingErrTrap>>
ExecuteCase == Enter("case", "body") /\ UNCHANGED counters
ExecuteGroup == Enter("group", "body") /\ UNCHANGED counters
ExecuteFor ==
  /\ Enter("for", "body") /\ loopDepth' = loopDepth + 1
  /\ UNCHANGED <<parentHasLoopContext, inCondition, calls, sourceDepth, executingErrTrap>>
ExecuteWhile(kind) ==
  /\ Enter(kind, "condition")
  /\ loopDepth' = loopDepth + 1 /\ inCondition' = TRUE
  /\ UNCHANGED <<parentHasLoopContext, calls, sourceDepth, executingErrTrap>>
ExecuteSubshell(kind) ==
  /\ Enter(kind, "body")
  /\ loopDepth' = 0 /\ parentHasLoopContext' = (loopDepth > 0)
  /\ UNCHANGED <<inCondition, calls, sourceDepth, executingErrTrap>>
CallFunction ==
  /\ Enter("function", "body") /\ callDepth' = callDepth + 1
  /\ UNCHANGED <<leaked, loopDepth, parentHasLoopContext, inCondition, sourceDepth, executingErrTrap>>
HandleSource ==
  /\ Enter("source", "body") /\ sourceDepth' = sourceDepth + 1
  /\ UNCHANGED <<loopDepth, parentHasLoopContext, inCondition, calls, executingErrTrap>>
HandleEval == Enter("eval", "body") /\ UNCHANGED counters
CommandSubstitution == Enter("subst", "body") /\ UNCHANGED counters

\* Mutant of RestoreLoops: an exception leaves loopDepth as it is.
RestoreLoopsOnReturn(f, result) ==
  /\ loopDepth' = IF f.kind \in Loops /\ result \in Codes THEN loopDepth - 1
                  ELSE IF f.kind \in Isolated THEN f.found.loopDepth ELSE loopDepth
  /\ parentHasLoopContext' = IF f.kind \in Isolated THEN f.found.parentHasLoopContext
                             ELSE parentHasLoopContext
\* Mutant of RestoreFlags: the options are those of the subshell.
RestoreNoOptions(f) ==
  /\ inCondition' = IF f.phase = "condition" THEN f.found.inCondition ELSE inCondition
  /\ executingErrTrap' = (executingErrTrap /\ f.kind # "errTrap")
  /\ errexit' = errexit

\* The finally blocks, restore and cleanup: subshells and user scripts have saved
\* what they set, loops, functions and source count back, conditions restore their
\* flag.  A call does not that an error leaves before its try statement.
Uncounted(f, result) ==
  f.kind = "function" /\ f.stage = "targets" /\ result \in Errors
RestoreLoops(f, result) ==
  /\ loopDepth' = IF f.kind \in Loops THEN loopDepth - 1
                  ELSE IF f.kind \in Isolated THEN f.found.loopDepth ELSE loopDepth
  /\ parentHasLoopContext' = IF f.kind \in Isolated THEN f.found.parentHasLoopContext
                             ELSE parentHasLoopContext
RestoreDepths(f, result) ==
  /\ callDepth' = IF f.kind = "function" /\ ~Uncounted(f, result) THEN callDepth - 1
                  ELSE callDepth
  /\ leaked' = IF Uncounted(f, result) THEN leaked + 1 ELSE leaked
  /\ sourceDepth' = IF f.kind = "source" THEN sourceDepth - 1 ELSE sourceDepth
RestoreFlags(f) ==
  /\ inCondition' = IF f.phase = "condition" THEN f.found.inCondition ELSE inCondition
  /\ executingErrTrap' = (executingErrTrap /\ f.kind # "errTrap")
  /\ errexit' = IF f.kind \in Isolated THEN f.found.errexit ELSE errexit

\* A command substitution leaves the rest of its command to be executed, if there is
\* any; the outermost script leaves its result, or what Bash.exec has to handle.
Leave(result) ==
  /\ RestoreLoops(Top, result) /\ RestoreDepths(Top, result) /\ RestoreFlags(Top)
  /\ stack' = SubSeq(stack, 1, Height - 1)
  /\ pending' \in
       IF Height = 1
       THEN {IF result \in Codes \cup {"exit"} THEN "ended" ELSE "aborted"}
       ELSE {result} \cup (IF Top.kind = "subst" /\ result \in Codes THEN {"go"} ELSE {})
  /\ UNCHANGED <<errexitSafe, handlers>>
LeaveWith(result) == Leave(result) /\ levels' = 0 /\ UNCHANGED <<aim, exitTrapFired>>
Pass == Leave(pending) /\ UNCHANGED <<levels, aim, exitTrapFired>>

-----------------------------------------------------------------------------
(***************************************************************************)
(* Commands without statements of their own.                               *)
(***************************************************************************)
Simple == pending = "go" /\ UNCHANGED <<stack, counters, errexitSafe, traps>>

Command(code) ==
  Simple /\ ~Redirecting /\ pending' = code /\ UNCHANGED <<levels, errexit, aim>>
SetErrexit(on) ==
  Simple /\ ~Redirecting /\ errexit' = on /\ pending' = "ok" /\ UNCHANGED <<levels, aim>>

\* The loops a jump can see, and the trap handler, if any, that it ends first.
Boundary == {i \in 1..Height : stack[i].kind \in Isolated}
OpenLoops ==
  {i \in 1..Height : stack[i].kind \in Loops /\ \A b \in Boundary : b < i}
Target(n) ==
  LET inner(i) == Cardinality({j \in OpenLoops : j > i}) IN
  CHOOSE i \in OpenLoops :
    inner(i) = (IF n > Cardinality(OpenLoops) THEN Cardinality(OpenLoops) ELSE n) - 1
Handling(i) == {j \in i..Height : stack[j].kind \in Traps}
\* executeUntil leaves a jump in its condition to the loops around it.
Stray(i) ==
  \E j \in i..Height : stack[j].kind = "until" /\ stack[j].phase = "condition"
Aim(jump, n) ==
  LET t == Target(n) IN
  IF Handling(t) # {}
  THEN (CHOOSE j \in Handling(t) : \A k \in Handling(t) : k <= j) - 1
  ELSE IF Stray(t) THEN 0
  ELSE IF jump = "break" THEN t - 1 ELSE t

HandleBreak(jump, n) ==
  /\ Simple /\ ~Redirecting /\ UNCHANGED errexit
  /\ \/ /\ loopDepth = 0
        /\ pending' = IF parentHasLoopContext THEN "subshellExit" ELSE "ok"
        /\ UNCHANGED <<levels, aim>>
     \/ /\ loopDepth > 0
        /\ pending' = jump /\ levels' = n /\ aim' = Aim(jump, n)
HandleReturn ==
  Command(IF callDepth = 0 /\ sourceDepth = 0 THEN "fail" ELSE "return")
\* exit, and break and continue with an invalid argument
HandleExit == Command("exit")
\* The error of a special builtin in posix mode, an execution limit, an unset
\* variable under set -u, an arithmetic error.
Fault(e) == e \in Faults /\ Command(e)
\* An error of the expansion of a redirection: one of these, or of ${name:?}.
ExpansionFails(e) ==
  /\ Simple /\ Redirecting /\ e \in (Faults \ {"posixFatal"}) \cup {"exit"}
  /\ pending' = e /\ UNCHANGED <<levels, errexit, aim>>

-----------------------------------------------------------------------------
(***************************************************************************)
(* A command has ended with a code: the pipeline and the statement.        *)
(***************************************************************************)
At(stage) == stack' = [stack EXCEPT ![Height].stage = stage]
Flip(code) == IF code = "ok" THEN "fail" ELSE "ok"

NextStage ==
  /\ pending \in Codes /\ Top.stage = "segment" /\ pending' = "go"
  /\ UNCHANGED <<stack, levels, counters, errexit, errexitSafe, traps, aim>>

\* The exit code of a pipeline: of its last command, a failed one under pipefail,
\* the opposite when negated.
PipelineEnds(negated, code) ==
  /\ pending \in Codes /\ Top.stage \in Starts
  /\ \E c \in {pending} \cup (IF Top.stage = "segment" THEN {"fail"} ELSE {}) :
       code = IF negated THEN Flip(c) ELSE c
Same == UNCHANGED <<levels, errexit, traps, aim>>

NextPipeline(negated, code) ==
  /\ PipelineEnds(negated, code) /\ Same /\ \E s \in Starts : At(s)
  /\ pending' = "go" /\ UNCHANGED <<counters, errexitSafe>>
ShortCircuit(negated, code) ==
  /\ PipelineEnds(negated, code) /\ Same /\ At("over")
  /\ pending' = code /\ errexitSafe' = TRUE /\ UNCHANGED counters

\* Mutant of Untested: the flag of conditions is not consulted.
UntestedAnywhere(negated, code) == code = "fail" /\ ~negated /\ ~errexitSafe

\* A failure that counts for ERR and set -e.
Untested(negated, code) ==
  code = "fail" /\ ~negated /\ ~inCondition /\ ~errexitSafe

EndStatement(negated, code) ==
  /\ PipelineEnds(negated, code) /\ Same
  /\ ~(Untested(negated, code) /\ "ERR" \in handlers /\ ~executingErrTrap)
  /\ At("over") /\ errexitSafe' = (negated \/ errexitSafe)
  /\ pending' = IF Untested(negated, code) /\ errexit THEN "errexit" ELSE code
  /\ UNCHANGED counters
ExecuteErrTrap(negated, code) ==
  /\ PipelineEnds(negated, code)
  /\ Untested(negated, code) /\ "ERR" \in handlers /\ ~executingErrTrap
  /\ Push([stack EXCEPT ![Height].stage = "errTrap"], "errTrap", "body")
  /\ executingErrTrap' = TRUE
  /\ UNCHANGED <<loopDepth, parentHasLoopContext, inCondition, calls, sourceDepth,
                 exitTrapFired>>
ErrTrapEnds ==
  /\ pending \in Codes /\ Top.stage = "errTrap" /\ At("over")
  /\ pending' = IF errexit THEN "errexit" ELSE "fail"
  /\ UNCHANGED <<levels, counters, errexit, errexitSafe, traps, aim>>

-----------------------------------------------------------------------------
(***************************************************************************)
(* A statement has ended with a code: the construct.                       *)
(***************************************************************************)
Ended == pending \in Codes /\ Top.stage = "over"

\* On to a statement of the same body, or of another part of the construct.
GoOn(phase, condition) ==
  /\ \E s \in Starts :
       stack' = [stack EXCEPT ![Height] = [@ EXCEPT !.stage = s, !.phase = phase]]
  /\ inCondition' = condition /\ pending' = "go" /\ levels' = 0 /\ errexitSafe' = FALSE
  /\ UNCHANGED <<loopDepth, parentHasLoopContext, calls, sourceDepth,
                 executingErrTrap, errexit, traps, aim>>
NextStatement == Ended /\ GoOn(Top.phase, inCondition)

\* The redirections of a function are expanded, or are ambiguous.
TargetsExpanded ==
  /\ pending \in Codes \cup {"go"} /\ Top.stage = "targets"
  /\ \/ /\ At("input") /\ pending' = "go"
        /\ UNCHANGED <<levels, counters, errexit, errexitSafe, traps, aim>>
     \/ LeaveWith("fail")
InputRead ==
  pending \in Codes \cup {"go"} /\ Top.stage = "input" /\ GoOn(Top.phase, inCondition)

IfEnds ==
  /\ Ended /\ Top.kind = "if" /\ Top.phase = "condition"
  /\ \/ pending = "ok" /\ GoOn("body", Top.found.inCondition)
     \/ pending = "fail" /\ GoOn("condition", TRUE)             \* elif
     \/ pending = "fail" /\ GoOn("body", Top.found.inCondition) \* else
     \/ pending = "fail" /\ LeaveWith("ok")
LoopEnds ==
  /\ Ended /\ Top.kind \in Loops
  /\ \/ Top.phase = "condition" /\ (pending = "ok") = (Top.kind = "while")
        /\ GoOn("body", Top.found.inCondition)
     \/ Top.phase = "condition" /\ (pending = "ok") = (Top.kind = "until")
        /\ \E code \in Codes : LeaveWith(code)
     \/ Top.phase = "body" /\ Top.kind # "for" /\ GoOn("condition", TRUE)
     \/ Top.phase = "body" /\ Top.kind = "for" /\ LeaveWith(pending)
\* After maxLoopIterations the loop is left by an exception.
TooManyIterations ==
  /\ Ended /\ Top.kind \in Loops /\ Top.phase = "body" /\ "limit" \in Faults
  /\ LeaveWith("limit")
BodyEnds ==
  /\ Ended /\ Top.phase = "body" /\ Top.kind \in Compounds \ Loops
  /\ LeaveWith(pending)

\* executeExitTrap, at the end of whatever executeScript executes: a handler is
\* pushed, or the script ends by the given result, once there is none to execute.
HasExitTrap == ~exitTrapFired /\ "EXIT" \in handlers
ExecuteExitTrap(stage) ==
  /\ HasExitTrap /\ exitTrapFired' = TRUE
  /\ Push([stack EXCEPT ![Height].stage = stage], "exitTrap", "body")
  /\ UNCHANGED counters
ScriptEnds ==
  /\ Ended /\ Top.kind \in Scripts
  /\ \/ ExecuteExitTrap("ending")
     \/ /\ ~HasExitTrap /\ exitTrapFired' = TRUE
        /\ Leave(pending) /\ levels' = 0 /\ UNCHANGED aim

\* What exit leaves of a script: a command substitution and a trap handler catch it.
ExitOf(kind) ==
  IF kind = "subst" THEN Codes ELSE IF kind \in Traps THEN {"fail"} ELSE {"exit"}
ExitTrapEnds ==
  /\ pending \in Codes
  /\ \/ Top.stage = "ending" /\ \E code \in Codes : LeaveWith(code)
     \/ Top.stage = "exiting" /\ \E r \in ExitOf(Top.kind) : LeaveWith(r)

-----------------------------------------------------------------------------
(***************************************************************************)
(* An exception arrives at the innermost construct.                        *)
(***************************************************************************)
\* Within a pipeline of several commands exit and set -e end one command.
InSegment == pending \in {"exit", "errexit"} /\ Top.stage = "segment"
SegmentEnds ==
  /\ InSegment
  /\ pending' \in IF pending = "exit" THEN Codes ELSE {"fail"}
  /\ UNCHANGED <<stack, levels, counters, errexit, errexitSafe, traps, aim>>
Thrown == pending \in Errors /\ ~InSegment

\* What becomes a failed command, once it has left the body of a construct.
Failures(kind) ==
  CASE kind \in {"if", "case"}          -> {"nounset", "arithmetic"}
    [] kind \in Loops                   -> {"nounset", "arithmetic", "subshellExit"}
    [] kind \in {"group", "function"}   -> (Fatal \ {"limit"}) \cup {"subshellExit"}
    [] kind = "subshell"                -> (Fatal \ {"limit"}) \cup {"errexit"}
CompoundFails ==
  /\ Thrown /\ Top.kind \in Compounds /\ Top.phase = "body" /\ ~Redirecting
  /\ pending \in Failures(Top.kind) /\ LeaveWith("fail")
SubshellExits ==
  /\ Thrown /\ Top.kind = "subshell"
  /\ \/ pending \in Jumps \cup {"subshellExit"} /\ LeaveWith("ok")
     \/ pending \in {"exit", "return"} /\ \E code \in Codes : LeaveWith(code)
FunctionReturns ==
  /\ Thrown /\ Top.kind = "function" /\ Top.stage # "targets" /\ pending = "return"
  /\ \E code \in Codes : LeaveWith(code)

\* Mutant of AtLoop: while leaves a jump in its condition to the loops around it.
AtLoopBody == Top.kind \in Loops /\ pending \in Jumps /\ Top.phase = "body"
\* A jump in the body of a loop, or in the condition of while.
AtLoop == Top.kind \in Loops /\ pending \in Jumps /\ (Top.phase = "body" \/ Top.kind = "while")
JumpPasses ==
  /\ Thrown /\ AtLoop /\ levels > 1 /\ loopDepth > 1
  /\ Leave(pending) /\ levels' = levels - 1 /\ UNCHANGED <<aim, exitTrapFired>>
JumpEnds ==
  /\ Thrown /\ AtLoop /\ ~(levels > 1 /\ loopDepth > 1)
  /\ \/ pending = "break" /\ \E code \in Codes : LeaveWith(code)
     \/ pending = "continue" /\ Top.kind = "for"
        /\ (GoOn("body", inCondition) \/ \E code \in Codes : LeaveWith(code))
     \/ pending = "continue" /\ Top.kind # "for" /\ GoOn("condition", TRUE)

CompoundPasses ==
  /\ Thrown /\ Top.kind \in Compounds
  /\ \/ Top.phase = "condition" /\ ~AtLoop
     \/ /\ Top.phase = "body" /\ (Redirecting \/ pending \notin Failures(Top.kind))
        /\ ~AtLoop
        /\ Top.kind = "subshell" => pending = "limit"
        /\ Top.kind = "function" => pending # "return" \/ Top.stage = "targets"
  /\ Pass

\* executeScript: these end the script, these only the statement, where a jump finds
\* no loop, and the others leave it as exceptions.
ScriptFails ==
  /\ Thrown /\ Top.kind \in Scripts /\ pending \in {"posixFatal", "errexit", "nounset"}
  /\ LeaveWith("fail")
StatementFails ==
  /\ Thrown /\ Top.kind \in Scripts
  /\ \/ pending = "arithmetic" /\ pending' = "fail"
     \/ pending \in Jumps /\ loopDepth = 0 /\ pending' \in Codes
  /\ At("over") /\ levels' = 0
  /\ UNCHANGED <<counters, errexit, errexitSafe, traps, aim>>
ScriptExits ==
  /\ Thrown /\ Top.kind \in Scripts /\ pending = "exit"
  /\ \/ ExecuteExitTrap("exiting")
     \/ /\ ~HasExitTrap /\ exitTrapFired' = TRUE
        /\ \E r \in ExitOf(Top.kind) : Leave(r)
        /\ levels' = 0 /\ UNCHANGED aim
ScriptPasses ==
  /\ Thrown /\ Top.kind \in Scripts
  /\ \/ pending \in {"limit", "return", "subshellExit"}
     \/ pending \in Jumps /\ loopDepth > 0
  /\ IF Top.kind \in Traps THEN LeaveWith("fail")
     ELSE IF Top.kind = "source" /\ pending = "return"
     THEN \E code \in Codes : LeaveWith(code)
     ELSE Pass

-----------------------------------------------------------------------------
Finished == stack = <<>> /\ UNCHANGED vars

Run ==
  \/ ExecuteIf \/ ExecuteCase \/ ExecuteGroup \/ ExecuteFor
  \/ \E kind \in {"while", "until"} : ExecuteWhile(kind)
  \/ \E kind \in Isolated : ExecuteSubshell(kind)
  \/ CallFunction \/ HandleSource \/ HandleEval \/ CommandSubstitution
  \/ \E code \in Codes : Command(code)
  \/ \E on \in BOOLEAN : SetErrexit(on)
  \/ \E jump \in Jumps, n \in 1..MaxLevels : HandleBreak(jump, n)
  \/ HandleReturn \/ HandleExit \/ \E e \in Fatal : Fault(e)
  \/ \E e \in Fatal \cup {"exit"} : ExpansionFails(e)
Return ==
  \/ NextStage
  \/ \E negated \in BOOLEAN, code \in Codes :
       \/ NextPipeline(negated, code) \/ ShortCircuit(negated, code)
       \/ EndStatement(negated, code) \/ ExecuteErrTrap(negated, code)
  \/ ErrTrapEnds \/ TargetsExpanded \/ InputRead \/ NextStatement \/ IfEnds \/ LoopEnds
  \/ TooManyIterations \/ BodyEnds \/ ScriptEnds \/ ExitTrapEnds
Throw ==
  \/ SegmentEnds \/ CompoundFails \/ SubshellExits \/ FunctionReturns
  \/ JumpPasses \/ JumpEnds \/ CompoundPasses
  \/ ScriptFails \/ StatementFails \/ ScriptExits \/ ScriptPasses

Next == Run \/ Return \/ Throw \/ Finished
Spec == Init /\ [][Next]_vars

-----------------------------------------------------------------------------
\* The values of the variables, no counter below zero, and no more trap handlers on the
\* stack than one of each.
Typed ==
  /\ stack \in Seq(Frames)
  /\ pending \in {"go", "ended", "aborted"} \cup Codes \cup Errors
  /\ levels \in 0..MaxLevels
  /\ loopDepth \in Nat /\ callDepth \in Nat /\ leaked \in 0..callDepth
  /\ sourceDepth \in Nat
  /\ parentHasLoopContext \in BOOLEAN /\ inCondition \in BOOLEAN
  /\ errexit \in BOOLEAN /\ errexitSafe \in BOOLEAN
  /\ handlers \subseteq Signals
  /\ exitTrapFired \in BOOLEAN /\ executingErrTrap \in BOOLEAN
TypeOK == Typed /\ Height <= MaxDepth + 2

Kind(kinds) == {i \in 1..Height : stack[i].kind \in kinds}

\* Whatever exceptions have crossed the stack, the counters say what is on it: the
\* loops break can see, the open conditions, the handler of ERR, and the calls, with
\* those a failing redirection has left without cleanup (callFunction, before try).
CountersCount ==
  /\ loopDepth = Cardinality(OpenLoops)
  /\ inCondition <=> \E i \in 1..Height : stack[i].phase = "condition"
  /\ callDepth = Cardinality(Kind({"function"})) + leaked
  /\ sourceDepth = Cardinality(Kind({"source"}))
  /\ executingErrTrap <=> Kind({"errTrap"}) # {}

\* set -e never stops a script within a condition.
ErrexitOutsideConditions ==
  pending = "errexit" => \A i \in 1..Height : stack[i].phase # "condition"

\* A jump ends where its target is: at the loop, or, in a trap handler, at the end of
\* the handler.
JumpLands ==
  [][(pending \in Jumps /\ pending' \notin Jumps /\ aim # 0) =>
       Len(stack') = aim \/ (pending = "continue" /\ Height = aim)]_vars

\* A construct returns, by whatever result, to the counters it was entered with, but
\* for the calls that have leaked within it, and a subshell or a user script to errexit
\* as well.
LeavesAsFound ==
  [][Len(stack') < Height => \E k \in {Top.kind} : Here(k)' = Top.found]_vars
=============================================================================
