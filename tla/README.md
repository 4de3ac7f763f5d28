# TLA+ verification of ag-bash

ag-bash is a simulated Bash for agents: an interpreter, an in-memory file
system with overlays, worker threads that run JavaScript, Python and SQL,
and services around them (sub-agents, their memory, tasks, cron, MCP, language
servers). This directory holds TLA+ modules translated from its TypeScript
source, the TLC configurations that check them on small instances, and theorems
about them that TLAPS checks for every value of the constants.

Most of the program runs in one thread, where an `await` is the only place
another activity can come between two statements. The modules therefore make
one action of each stretch of code between two awaits, and the interleavings
are those of the event loop. Worker threads and server processes run in parallel
with the main thread; the modules about them have finer steps.

| Module | What it is |
|---|---|
| `ShellSession` | the state of Bash instances: exec, nested exec, persist, snapshot, restore, fork |
| `ValueSession` | what the above promises: state as values, no sharing |
| `ShellControl` | control flow of the interpreter: the call stack of constructs, exceptions, `set -e`, traps |
| `JsExecQueue` | the queue of js-exec calls, its worker threads and timers |
| `CallsInTurn` | what that queue promises: calls are served one by one, in the order they came |
| `PyQueue` | the queues of python3 calls, a worker and a bridge for each, sessions |
| `WorkerBridge` | the shared-memory bridge over which a worker uses the file system |
| `AtomicFile` | what the bridge promises: atomic file operations |
| `AgentOverlays` | sub-agents on copy-on-write overlays, and the merge of their changes |
| `AgentMemory` | the memory of agents: hydration, eviction, save and sync over one file system |
| `McpClient` | connections to MCP servers, tool calls, and the connection the browser tools share |
| `ShellSessionProofs`, `ShellControlProofs`, `JsExecQueueProofs`, `PyQueueProofs`, `WorkerBridgeProofs`, `AgentOverlaysProofs`, `AgentMemoryProofs`, `McpClientProofs` | theorems about the module they are named after |
| `MCShellSession`, `MCJsExecQueue`, `MCPyQueue`, `MCWorkerBridge`, `MCAgentOverlays`, `MCAgentMemory`, `MCMcpClient` | instances for TLC; `ShellControl` needs none |

`PROJECT.json` maps each definition to the lines it models, and lists the
runs, the mutants (for every property, a plausible bug that breaks it), the
hazards, the findings and the theorems. Some definitions are mutants of the one
after them; the modules say so in their header, and no action uses them.

Run a check with `tlc -config MCSessions.cfg MCShellSession.tla`, a proof
with `tlapm ShellSessionProofs.tla`.

## 1. Inventory

Paths are relative to `src/packages/bash/src` unless they name another package.

### Bash instance (`Bash.ts`, `execution/`)
- State: `this.state` (an `InterpreterState`: cwd, env, functions, options,
  shoptOptions, exportedVars, readonlyVars, hashTable, ...), `this.fs`, named
  snapshots.
- Operations: `exec` (any number may be in progress), the nested exec that
  commands reach as `ctx.exec` (bash, env, time, timeout, xargs, find),
  `snapshot`, `restore`, `fork`, `createDelta`, `applyDelta`.
- Interactions: exec builds a private `execState` and runs the pipeline
  (normalize, parse, transform, sandbox, destructive check, heal, interpret,
  persist) on it; the persist stage writes back to `this.state`.
- Hard: the copies are partial and by reference; concurrent execs, a restore
  under a running exec, nested execs that commit before their caller, a timeout
  that abandons a running exec.
- Correct when: what exec copies is private until it is committed as a whole; a
  failed exec leaves nothing; instances share nothing; a snapshot never changes.

### js-exec queue (`commands/js-exec`, `services/SessionManager.ts`)
- State: module-level queue, current execution, shared worker, idle timer; the
  workers of sessions; what is in flight in each worker.
- Operations: enqueue, the timer of a call, the events message, error and exit
  of a worker, the idle timer, `closeSession`.
- Hard: late events of workers that were given up, timers that race results,
  canceled entries in the queue, session workers handled by shared-worker code.
- Correct when: one execution at a time, none after its caller was answered,
  nobody waits for ever, no answer of one call reaches another, no worker is lost.

### Worker bridge (`commands/worker-bridge`)
- State: a shared buffer (status word, request, result), the handler's read
  cache and write accumulator, the worker's local loop variables.
- Operations: `SyncBackend` requests in the worker, `BridgeHandler.run` in the
  main thread, `Atomics.wait`, `waitAsync`, `notify`; chunked transfers.
- Hard: compare-and-wait against store-and-notify in two threads; a payload in
  several round trips while others use the file; offsets and totals at the
  window's boundary; the deadline; a worker that dies.
- Correct when: every request is answered, a worker wakes to the answer of its own
  request, no frame is rejected, a chunked operation is atomic, a failed one has no effect.

### python3 and sqlite3 (`commands/python3`, `commands/sqlite3`)
- State of python3: a queue for each file system (a WeakMap) with a flag that one
  of its calls executes; for each call a worker, a bridge handler, a timer and the
  flags of its queue entry; the worker each session remembers.
- Operations: the call, the start of the next execution, message, error and exit
  of a worker, the timer, the end of the bridge, the return after both have
  reported, `closeSession`.
- Hard: worker and bridge report the same death or deadline in either order; the
  queue goes on before `terminate()` has ended; a stale session worker is
  replaced; a worker cannot be created.
- Correct when: one program at a time, none after its call was answered, every
  call returns, no worker is lost.
- sqlite3 has one worker and one timer per statement and shares nothing.

### File systems (`fs/`)
- InMemoryFs: a map of entries; snapshot and restore in one turn.
- CowFs: `local` entries, tombstones and modified paths over a parent that others
  write. Hard: operations await between a look and a change; tombstones are of
  exact paths; directories created by the constructor count as modified.
- MountableFs: routes paths; its snapshot awaits one mount after another.
- OverlayFs, ReadWriteFs: host I/O behind the same interface.
- Correct when: the overlay reads as its own writes over the parent's files, the
  parent sees nothing before the merge, no write is lost.

### Sub-agents (`services/AgentManager.ts`)
- State: the agents with status and nesting, each with a Bash on a CowFs.
- Operations: `spawn`, completion, `mergeAgentChanges`.
- Hard: no base-version check, conflicts found half-way, a merge that walks over a
  set which grows, and which a restore clears and fills again under its iterator.
- Correct when: what the agent changed reaches the parent (as text) and nothing else does.

### Interpreter (`interpreter/`)
- State for control flow: the JavaScript call stack of constructs; `loopDepth`,
  `parentHasLoopContext`, `inCondition`, `callDepth`, `sourceDepth`, `errexit`,
  `errexitSafe`; trap handlers and the flags that they ran.
- Operations: statements, pipelines, compound commands, calls, `break`,
  `continue`, `return`, `exit`, errors, handlers of EXIT and ERR.
- Hard: exceptions cross constructs that have counted something up; `set -e` and
  its exceptions; handlers within conditions within calls.
- Correct when: counters count what is on the stack, a construct leaves what it
  found, a jump ends at its loop, `set -e` spares conditions, handlers run.
- The rest of the interpreter (expansion, variables, most of redirection) is sequential
  computation.

### Memory of agents (`services/AgentMemory*.ts`, `services/ServiceContainer.ts`)
- State: a bounded map for each service container; a file for each scope and type
  of agent; a manifest for each scope.
- Operations: write, read, delete, eviction; hydration in the background of the
  first access; `dispose`, which waits for it and saves files, then manifests;
  `syncAgentMemory` of one group; `destroy`, which saves nothing.
- Hard: writes while the hydration is merging, a crash or a failing write in the
  middle of a save, a read that fails, a memory the host provides, a full map.
- Correct when: what a completed save put on disk stays there and is recalled, no
  partial memory is saved over it; an older entry never replaces a newer one.

### MCP client (`services/McpClient.ts`, `packages/browser/src/connection.ts`)
- State: connections by name; for each transport the process, the pending requests
  and their timers; the count of tool calls; the connect that browser tools share.
- Operations: `connectStdio`, `connectHttp`, the handshake, discovery of tools,
  `callTool`, replies, timers, `disconnect`, `dispose`, `ensureBrowserHarnessConnection`.
- Hard: late, repeated and missing replies; disposal within a handshake; concurrent
  connects of one name and at the limit.
- Correct when: every promise is settled once and by its own reply, no process is lost.

### Tasks, teams, state bus, cron (`services/`)
TaskManager keeps tasks with `blocks`/`blockedBy` edges and a status machine;
CronScheduler ticks over entries and runs them; SharedStateBus and TeamManager
are bounded registries. Hard: long legal sequences (delete a blocker, reopen a
failed one), ticks that overlap runs. Correct when: a task is blocked exactly
while something unfinished blocks it; an entry never runs twice at a time.

### The rest
Parser, AST, transforms and text commands are pure functions of text. Agent runtime,
agentic tools, network, security, observability, CLI, AI adapters and testing, and the
packages `mcp-server` and `agent-bridge`, are loops and adapters around `Bash.exec`;
the language server client, worktrees, git and discovery are host I/O.

## 2. Plan

Done, in this order:

1. `ShellSession` and its abstract `ValueSession`: the state every other part
   is built on.
2. `JsExecQueue`: the queue with the most event handlers per variable.
3. `WorkerBridge` and its abstract `AtomicFile`: two real threads.
4. Proofs: ownership of the session's objects; the handshake and the transfers of
   the bridge, and the refinement of `AtomicFile`.
5. `AgentOverlays`: overlay, parent and merge in one module, since the hazards are
   between them. Proofs: tracking and isolation.
6. `ShellControl`: control flow as a stack of frames with exceptions on their way,
   instead of a recursive evaluator, so that it can be proved about.
7. `PyQueue`; proofs about both queues.
8. `AgentMemory`; `McpClient` and its proofs.
9. Proofs: the refinement of `ValueSession` and `NoDirtyRead`, `MergePublishes`,
   `JumpLands`, `StartKillsNone`, and `AgentMemory`, whose maps are folds over the
   entries of a file.
10. `CallsInTurn`, which the queue of `JsExecQueue` implements, and the proof of it.

What an extension would take up, most important first:

- `JsExecQueue`: a worker whose initialization fails. It posts a message without
  a token, which `js-exec.ts:325` rejects although `worker.ts:1422` says it is
  accepted, and executes its input all the same.
- Sessions shared between js-exec and python3 (the hazard at `python3.ts:781`).
- `TaskGraph` (TaskManager) and `CronTicks` (CronScheduler); `MountSnapshot`: torn
  snapshots, composed with `ShellSession`'s fork; the buffer of the streaming
  executor and the reference count of defense-in-depth activations.
- The count of MCP tool calls is never reset, though `limits.ts:85` calls it a limit
  per execution; the model counts as the code does.
- Runs for disagreements with a comment which the models have and no run shows yet:
  - `trap-execution.ts:85` says that the EXIT handler "fires when the script finishes
    (normal completion, exit, or error)". A script that `set -e` stops ends without it, as the
    error leaves `executeScript` (`interpreter.ts:430`) before the call of the handler at
    its end (`interpreter.ts:520`); and since `eval`, `source` and command substitutions
    call `executeScript` too, the first of them to end fires it early.
  - `types.ts:258` says that `errexit` is suppressed "in condition contexts (if, while, until,
    ||, &&)". On the left side of `&&` or `||` only the code of the pipeline is spared: a
    statement within it, say of a function, still stops the script.
  - `limits.ts:82` calls `maxMcpServers` the "Maximum number of simultaneous MCP server
    connections". It is compared before the handshake is awaited (`McpClient.ts:349`) and
    the connection is registered after it, so that connects in progress exceed it.
  - `AgentMemorySync.ts:127` says that of two versions of an entry "the entry with the
    more recent `updatedAt` timestamp wins". In a full map it may not (`NewerWins`, below).

Runs are kept to one per question, and invariants that a theorem proves are
in a run only where the run adds something (a mutant, an instance to look at).

## 3. What is modelled, and how

### ShellSession
`InterpreterState` is a record of references to mutable Maps, Sets and records.
The model keeps the references: `session[i][f]` and `view[e][f]` are the objects
that instance `i` and exec `e` hold for field `f`, and `cell` gives the contents
of every object. An object is named by the call that created it, so that a copy
and an alias cannot be confused. Contents are the set of execs whose writes are
visible, which is all the properties tell apart.

| Code | Model |
|---|---|
| `exec()`: the `execState` literal | `Exec`, `ExecState`: fresh copies of `ExecCopies`, references of `this.state` for the rest |
| `ctx.exec` from bash, env, time, xargs, find, timeout | `Nest`, with the environment the command passes (`NestedEnv`) |
| the command gets its results | `NestedReturns` |
| the timer of `timeout` wins the race | `TimeoutAbandons`: the abandoned execs go on until a statement boundary |
| an assignment, export, readonly, shopt, file write | `Write`, in place |
| persist stage, exit status 0 | `Succeed`: some fields by reference, some spread, others not at all |
| non-zero status, error, parse error, blocked command | `Fail` |
| `snapshot`, `restore`, `restoreSnapshot` | `Snapshot`, `Restore` |
| `fork`: constructor and snapshot; then restore, a turn later | `Fork`, `ForkRestore` |

`ImplementsValues` maps the references to their contents and shows that, for
the copied fields, every behaviour is one of `ValueSession`, where an exec works
on a private value that replaces the instance's as a whole or not at all.

Left out: `createDelta` and `applyDelta` (one turn, no interleaving), execution
limits and counters, plan mode and checkpoints, snapshots of mounted file
systems (an in-memory one is copied in the turn that clones the state). An exec
that started before a restore commits over the restored state: the model has
that behaviour, and nothing in the repository promises otherwise.

`CustomFs` is `BashOptions.fs`: with it TRUE a fork holds its parent's file
system and `InstancesDisjoint` fails, so the run and the theorem are for FALSE.
`DefaultPersistState` is the default of `persistState`: with it TRUE a nested
exec commits for a caller that may fail, and `NoDirtyRead` fails.

### JsExecQueue
One action per handler: `Enqueue`, `Timeout`, `IdleTimeout`, `CloseSession`, and
`OnMessage`, `OnError`, `OnExit` for the head of a worker's `outbox`;
`IgnoreEvent` is the return of a handler whose worker is not the shared one.
`ProcessNext` is `processNextExecution`, called with what the handler has just
assigned. The workers step on their own (`Finish`, `Die`), and events stay in
`outbox` until the event loop delivers them, so a superseded worker's events
arrive late.

The initialization of a worker is taken to succeed. The timer of a session's call
terminates the shared worker, not the session's; what runs for a session may then
outlive its answer, and `Serialized` is stated for the calls without one. The
recursion guard rejects a nested js-exec before it reaches the queue. Wall-clock
values are abstracted: a timer may fire at any moment. A worker whose last result
finds only canceled calls in the queue is kept without an idle timer
(`js-exec.ts:394` looks at the queue before they are skipped); the model has it,
and `NoStrayWorker` counts the worker as held.

`CallsInTurn` is the queue without workers, events and canceled entries: who waits
before each call, who is being served, and what each call was told. Its `ahead` is
`Line`, made from the queue and the current execution among the calls that wait. A
handler is one of `Call`, `Serve`, `Crash` and `GiveUp`, each of which lets the first
of the line be served, or a step that no caller sees.

### PyQueue
A queue for each file system, a worker for each call. `ExecutePython` enqueues and
starts bridge and timer; `ProcessNext` is `processNextExecution`, shared by all handlers as
in `JsExecQueue`: it passes over entries that are canceled or whose worker cannot be
created and starts the next one; `OnMessage`, `OnError`, `OnExit` handle the head of a worker's
`outbox`, and `Resume` is the rest of a handler after `await terminate()`.
`BridgeEnds` is the end of `bridgeHandler.run`, `OnTimeout` the timer, `Return`
what the call does when both have reported: it reconciles the exit code that the
bridge saw with the worker's message. `CloseSession` terminates the worker that a
session remembers; a session does not keep a program between calls, its worker is
looked up only to terminate it when the session's next call starts.

`Faults` gives for each call what may go wrong with it: its worker cannot be
created, it dies, it reports a violation of the sandbox while its program goes on,
its bridge fails, or its deadline passes. `unspawnable` is decided at the start.
Timer and bridge of a call run out, in either order, only if its deadline is among its
faults. Left out: parsing of the arguments, the CPython build, the Python side of the bridge.

### WorkerBridge
The handshake is modelled at the grain of single accesses to the status word:
the worker's `Send`, `Ready`, `NotifyHandler`, `Wait`, `Woken` and the
handler's `Check`, `Arm`, serve, `Answer`, `NotifyWorker`. `Wait` and `Arm`
compare and park in one step, as `Atomics.wait` and `waitAsync` do. The
operations are `readFile`, `writeFile`, `appendFile` and `exit`, with their chunk
loops on both sides; `FsError` makes the file system reject; `Edit` is another
user of the file between any two steps; `Expire`, `Stop` and `Die` are the
deadline, the handler that stops for it and the worker that is terminated or dies.

A sequence of a few elements stands for bytes, `ChunkSize` elements for the
data window, one file for the file system. Requests that are one round trip
(stat, mkdir, rm, stdout, HTTP, exec) follow the same handshake and are not
distinguished; the size limit of the output is left out. The encoding of the buffer
is not modelled. The worker's own wait has the same limit as the timer of the
call, which was started before: the timer terminates the worker, which is
`Die`. After such a death the handler waits for its own deadline.

The main thread stores the status of an answer inside an awaited handler and
notifies some microtasks later. A worker that has not parked yet takes the answer by
comparing, and one that sends its next request and parks on it before that notify is
woken by it, with the status READY: `execFrame` reports a failure, and the handler then serves
the request all the same, and commits it if it is a write. Nothing in the code excludes this.
`Wait` and `NotifyWorker` have it, `bridge_late_notify` shows it, and the history variable `late`
records it. After such a notify the worker goes on to write frames into a buffer that
is being served, so that frames may be torn, which the model (`Send` writes a frame
in one step) cannot show. `Handshake`, `Transfer` and `ImplementsAtomicFile` are
therefore stated up to the first late notify and claim nothing of what comes after it;
`TypeOK`, `NoWakeUpIsLost` and `EveryRequestAnswered` hold before and after.

A payload longer than `MaxTransfer` (`MAX_TRANSFER_BYTES`) is refused at its first frame
(`Accepts`), after which the operation fails; one that is just as long is accepted.
A program that catches `process.exit()` may send a request after EXIT; the handler
has stopped by then, and `EveryRequestAnswered` excepts it.

### AgentOverlays
An operation of CowFs is one action for each stretch between two awaits, with what
it has seen in between kept in `op`. All of `AllKinds` are modelled, including the
recursive removal (list, filter, delete one child after another, delete) and `cp` and
`mv` of files. `View` is what an agent reads; contents are the set of operations
whose data a file holds. `ParentWrite` and `ParentRemove` are the parent's own
commands. `MergeStart`, `MergeRead`, `MergeWrite`, `MergeEnd` are
`mergeAgentChanges`, one path at a time over the modified paths as they are by then:
`walked` is what the iterator of the live set has passed. `Restore` clears and
fills the set, which puts all of it behind the iterator again, so that a merge under way
takes paths a second time; under restores without end it does not return, and
`MergeEnds` says so.

`MergeRead` passes the contents through `Recoded`: `mergeAgentChanges` reads a file as text
(`AgentManager.ts:143`) and writes the text, and what does not survive decoding and encoding
as UTF-8 (bytes that are none, or a byte order mark at the beginning) arrives altered. `Binary`
are the operations and initial files with such data, `Replaced` what becomes of it. The parent's
own binary file is altered too if the agent has only changed its mode or linked it.

`steady`, `before` and `alone` are history: whether the parent has changed since
the spawn, the parent when the merge began, and whether anything else has
interfered. Left out: copies of directories, `forget`, ids and names of agents,
the nesting limit, modes and times.

### ShellControl
A construct (`if`, a loop, a function, `eval`, a subshell, a trap handler...) is a
frame with the counters that its JavaScript function keeps in local variables;
`pending` is what has just happened in the innermost one: a command is next, a code
came back, or an exception is on its way. Wherever the interpreter looks at the
program text, every continuation is possible, so that the model stands for all
programs nested no deeper than `MaxDepth`. `Run` begins a construct or executes a
simple command, `Return` handles codes, `Throw` handles exceptions, with one action for each
way in which a `catch` or `finally` of the code treats them.

The targets of a function's redirections are expanded by `callFunction` after it has counted
the call, and outside its `try` (`functions.ts:90`, `:194`): in the stage "targets" of
its frame a command substitution may be entered and `ExpansionFails` may throw. A call left in
this way is never counted back, and `leaked`, a history variable, counts them:
`callDepth` is the number of functions on the stack plus `leaked`, for the rest of the execution
(a `return` outside of all functions is then taken for one within). The scope of locals that
such a call leaves behind, and the handler of RETURN, which it skips, are not modelled.

`ErrexitOutsideConditions` is about the conditions of `if`, `while` and `until`, in which
`inCondition` is set. On the left side of `&&` and `||` it is not (section 2).

`aim` is history: the height of the frame a `break n` or `continue n` names.
Left out: variables, the other redirections, `lastpipe`, timing, the registration of handlers
and the DEBUG handler; the body of a function is a group.

### AgentMemory
One container after another over one file system, as processes or sessions follow each
other. `HydrateScope`, `HydrationFails`, `HydrateManifest`, `HydrateFile` and
`ScopeHydrated` are `loadMemoryFromFs` (directory, manifest and files have a step and a
failure each; reading a file and merging it is one step), which runs while `WriteEntry` and
`DeleteEntry` go on; `SaveBegins`, `SaveGroup`, `SaveManifest` are `dispose` and
`saveMemoryToFs`; `SyncBegins` to `SyncManifest` are `syncAgentMemory`. Of an entry only its
identity and the time of its update are kept. `promised` is history: the entries that a
completed save or sync has put on disk and nobody has deleted or evicted since. `Keep` picks
the entries of a group (or all but a deleted one) and `Newer` merges one entry of a file;
both are folded over the map or the file in its order, so that the order of evictions is
that of the code.

`NewerWins` has an exception. `loadMemoryFromFs` says of colliding keys that "the entry
with the more recent `updatedAt` timestamp wins" (`AgentMemorySync.ts:127`). In a map that
is full this fails: an entry written during the hydration is evicted to make room for
other entries of the file being merged, its key no longer collides, and the older version
in the file comes back. TLC finds this with two entries of one file and a map
with room for two; the property excepts a map that is full at the end of a file, and
nothing else.

`Faults` says what may go wrong: writes fail ("write"), processes crash ("crash"), a
directory, a manifest or a file cannot be read ("read"), the host provides the memory
("override"), an agent syncs before the hydration has ended, or without one ("early sync"),
containers are up at once or one is disposed while it syncs ("overlap"). The run has all but
the last.

`dispose` waits for the hydration so that it may "never save a partially-loaded store over good
data" (`ServiceContainer.ts:301`-`303`). `GoodDataKept` says so, and the code breaks it, as
`memory_partial_save` shows: a memory the host provides (`ServiceContainer.ts:109`) is never
hydrated but saved over the files of its types (`:309`), and so is a memory whose hydration
could not read something, which counts as empty (`AgentMemorySync.ts:82`, `:175`,
`ServiceContainer.ts:144`). The history `missed` marks such a hydration, and `spoiled` is set
once a memory is saved that was loaded in part or not at all, be it by `dispose`, by a sync, or by
a sync that could not read the manifest and writes it anew. `PromisesKept` and `Recalled`
hold until then; both faults are in the run, where the constraint `Unspoiled` (a bound) leaves
out what comes after. With "overlap" TLC finds `PromisesKept` violated, and no text
promises otherwise. A memory that two containers share (one override given to both) is not modelled.

### McpClient
A connect has a transport of its own and is named after it. `Connect` and `Spawn`
begin it, `OnReply` is a line of the server: an answer to any request it has ever
been sent, in any order, late, repeated, a result or an error; `OnTimeout` a timer;
`FetchEnds` the end of an HTTP request; `Disconnect` and `Dispose` close transports,
which rejects what is pending. `Ensure` and `Ensured` are
`ensureBrowserHarnessConnection` before and after its await. `replaced` is
history: connects whose name a later one has taken over, which the code drops without
closing.

Left out: the SSRF check of URLs, the registration of tools with the toolbox, and
a server that cannot be started or closes its input: nobody handles the `error`
event of the child process, which ends the host.

## 4. Runs

| Run | Instance | Shows |
|---|---|---|
| `sessions` | 2 instances, 2 execs, 1 snapshot, 1 restore; cwd, env, fs; execs interchangeable (387 thousand states) | `InstancesDisjoint`, `Ownership`, `PrivateExecState`, `SnapshotFrozen`, `NoDirtyRead`, refinement of `ValueSession` |
| `js_queue` | 3 calls, one with a session (29 thousand) | serialization, no stall, no lost worker, refinement of `CallsInTurn`, every call answered |
| `py_queue` | 3 calls on one file system, two in one session; each fault given to one call (427 thousand) | serialization, no stall, no lost worker, an answered call never starts, starting one execution kills none, every call returns |
| `bridge_file` | 2 operations and the final exit, 1 edit, window 2, limit of a transfer 3, payloads of 0, 2, 3 and 4 (799 thousand states) | until a late notify: refinement of `AtomicFile`, handshake, transfers; always: every request answered |
| `agent_overlays` | 1 agent, 2 operations of any kind, one with binary data, the paths bin, d and d/f (941 thousand) | modified paths are tracked, the parent does not show through, an undisturbed merge publishes the agent's files as text, a merge ends |
| `shell_control` | constructs nested 3 deep, every kind of construct and error, handlers of EXIT and ERR or none, levels up to 2, 1 call that expands targets or has leaked (4 million) | counters, `set -e` in conditions, jumps, constructs leave what they found; deadlock is checked |
| `agent_memory` | 2 containers, 3 entries, two of them in one file, room for 2, 2 moments; every fault but "overlap" (653 thousand) | types, promises kept and recalled until a partial memory is saved, newer entries win |
| `mcp_client` | a stdio and an HTTP connect of one name, 2 connects of the browser tools, 3 calls; limits of 1 server, 2 tool calls (409 thousand) | types, requests and timers agree, no reply mistaken, no process lost, one browser, everything settles |
| `js_session_result` | 1 call with a session | violation: the result of a session's call is dropped |
| `merge_conflict` | 1 agent, 1 operation | violation: a merge reports a conflict although the parent has not changed |
| `bridge_late_notify` | as `bridge_file` | violation: a worker is woken without an answer to its request |
| `memory_partial_save` | as `agent_memory`, with "override" as the only fault | violation: a memory that was not loaded is saved over good data |

Each violating run is a finding in `PROJECT.json`, with the line of the
repository that says otherwise.

Why the bounds are enough. In `ShellSession` sharing needs two holders and one object: two
instances, or two execs, and a snapshot between them; a third exec adds nothing another idle
or finished one would not. In the queues three calls put one in the worker, one in the queue
behind it and one more behind that, which is what skipping a canceled head and going on
after a failed start need; in `py_queue` two of them share a session, so that a stale worker
is replaced, and the three have different faults that meet in every order. In `js_queue` one
call has a session, and the reuse of a session's worker by a second call is left to the
theorems. In `WorkerBridge` a payload of 3 with a window of 2 has a full and a partial
chunk, one of 2 is exactly a window, the empty one sends an empty chunk, and one of 4 is
over the limit; a second operation meets the caches and accumulators of the first, failed or
not. In `AgentOverlays` two operations, one of them with binary data, can overlap at each of
their awaits, with each other and with the merge; a directory, a file in it and a directory
of the constructor are the kinds of path that the code tells apart. A stack of three lets
every construct lie directly within every other with one around both; with two levels a jump
passes a loop and ends in the next; one leaked call is enough, a second only adds to the count.
`AgentMemory` needs two containers for a save and the recall of it, three entries in two
scopes and of two types for a save of several files and manifests, two of them in one file
so that merging a file can evict what it is about to merge, and room for two for evictions.
`McpClient` has two connects for one name, so that one replaces the other, and two of the
browser for a shared, a failed and a second connect.

`CHECK_DEADLOCK FALSE` stands where the system may stop: every exec done, every call
answered, every operation performed, the last container ended. `ShellControl` has a
step of its own for the end of the script (`Finished`), so its deadlock check is on.

`TypeOK` is an invariant of the runs of `AgentMemory` and `McpClient`; of the other
modules it is proved and not run again.

Fairness. `ShellSession`, `ShellControl` and `AgentMemory` have safety properties
only. `JsExecQueue!FairSpec`: the event loop delivers every event, the idle timer
fires, and a worker with an execution ends it or dies (QuickJS is interrupted by a
deadline, and the bridge has one too); the timer of a call is assumed to fire only
for calls with a session, so that for the others `EveryCallAnswered` is a property
of the handlers and not of the timers. `PyQueue!FairSpec`: handlers run, programs that
can go on end, and a deadline that one of timer and bridge has seen is seen by the
other; no deadline is assumed to pass. `WorkerBridge!FairSpec`: each of the two threads
keeps running, and the file system answers; neither deadline nor death is assumed.
`AgentOverlays!FairSpec`: a merge goes on, since the promises of the parent's file
system settle. `McpClient!FairSpec`: imports end, timers that are not cleared fire,
fetches end; a server need not answer. In `PyQueue` and `McpClient` every call does
finitely many things, so one weak fairness over all of progress is enough.

## 5. What is proved

Each theorem is for every value of the constants that satisfies the module's
assumption (`SessionAssumption`, `ControlAssumption`, `JsExecAssumption`,
`PyQueueAssumption`, `BridgeAssumption`, `NoneAssumption`, `OverlayAssumption`,
`AgentMemoryAssumption`, `McpAssumption`; TLC evaluates them in the runs). Every module
but the abstract `ValueSession`, `AtomicFile` and `CallsInTurn` has a theorem `TypeCorrect`.

`ShellSessionProofs`, for every set of instances, execs, snapshots, restores and fields:

- `OwnershipHolds`: `Spec => []Ownership`. This is the inductive invariant.
  Disjointness alone is not inductive: a commit stores references the exec has
  held since it began, so one must know where they came from. `Ownership` says it:
  an object held by instance `i` was created with `i`, by a restore of `i`, or
  by a committed exec on `i`; a running exec holds its own copies, and for shared
  fields objects of its instance.
- `ExecStateIsPrivate`: what exec copies is reachable from nobody else.
- `InstancesAreDisjoint`: assuming `~CustomFs`, which is needed: with `CustomFs` TRUE TLC
  finds it violated.
- `SnapshotsAreFrozen`: every step leaves the objects of a snapshot alone, since
  by `Ownership` nobody holds them.
- `SessionsImplementValues`: the refinement of `ValueSession`, restricted to the fields
  exec copies. An instance maps to the contents of its objects, a running exec to those
  of its copies, and an idle one to nothing. Under `Ownership` a write reaches one
  value only, and a commit, a capture and a reset copy what they share; each has a
  lemma. `Root` must be known never to end (`RootStaysLive`).
- `NoDirtyReads`: assuming `~DefaultPersistState`, the default of
  `BashOptions.persistState`, without which an inner exec commits before the one that
  called it has ended. The invariant is `TopLevel` (an exec that persists has no caller)
  and `Clean` (instances and snapshots hold committed writes alone, an exec those and
  what its callers passed down).

`WorkerBridgeProofs`, for every window, payload, limit of a transfer, and number of calls and
edits; all but `TypeCorrect` and `NoWakeUpIsLost` speak of the behaviour up to the first
late notify (section 3), which is a state of the model and no assumption about timing:

- `TypeCorrect`, which includes that what a thread is about to use is in the
  buffer.
- `ThreadsAgree`: `[]Handshake`. Each thread is where the status lets it be:
  while the worker prepares a request the handler is quiet, while the handler
  serves the status is READY. An answer is there to be taken from the moment its status is
  stored, so that while the handler is about to notify the worker may be anywhere, also
  parked on its next request.
- `NoWakeUpIsLost`: while the worker waits for an answer, or is about to, its comparison
  fails, or the handler serves it, will see the request, or is about to notify, unless
  the deadline has stopped the handler. This is the safety half of
  `EveryRequestAnswered`, and holds for late notifies too. The invariant: the handler
  never waits for a change from READY (`Compared`), and parks at a READY status only
  before the worker's notify.
- `TransfersAgree`: `[]Transfer`. Before a request is served the accumulator (or
  the cache) holds exactly the chunks before `offset`; after it the answer brings
  the next chunk, and the operation has taken effect if that was the last
  request of a write or the first one of a read. The proof turns on adjacent
  subsequences concatenating to a longer one (`AdjacentPieces`), `Continues` for
  writes and `ReadsOn` for reads, `ServeAnswers` and `WokenEnds` for the two
  sides of a round trip.
- `EveryFrameAccepted`: `accumulateChunkedPayload` throws at no frame, but for payloads
  above `MAX_TRANSFER_BYTES`.
- `BridgeImplementsAtomicFile`: calls map to `Invoke`, the request that reads or commits to
  `TakeEffect`, the end of an operation to `Return` or `Fail`, the rest stutters. Every step
  up to the first late notify is one of these. `effect` is a history variable: it remembers
  what the operation will return once it has taken effect.

`AgentOverlaysProofs`, for every set of agents, operations and paths:

- `ModifiedIsShadowed` and `ChangesAreTracked`: modified paths are decided in the
  overlay, and files, links and tombstones of the overlay are modified paths. The
  two are inductive together with types, of the current layers and of a snapshot of
  them, since an operation in progress stores over what others have done meanwhile.
- `IsolationHolds`: a change of the parent shows through no modified path; it follows
  from the first, a path that is shadowed being read from the overlay alone.
- `MergePublishesAll`: `[]MergePublishes`, where what the parent receives is the agent's version
  decoded and encoded as text (`Recoded`). The invariant (`Published`) says it of every
  moment of a merge that nothing has interfered with: the parent is what it was before, but
  for the paths already merged; what the merge is about to write is still what the
  overlay shows; conflicts are paths that cannot be read or have no directory; and at
  the end every modified path is among the merged ones and the conflicts.
- `MergeDecidesAll`: the last of these for every merge, whatever operations, restores and
  the parent do meanwhile: no change of the agent is left out without a report. What the
  iterator has passed is decided but for the one path being written (`Walking`).
- `MergeGoesOn`, for a finite set of paths: each step of a merge leaves it fewer steps
  (`StepsLeft`: two for every path that the iterator may still yield, one for a write under
  way, one to return), and of all other steps only a restore of the agent leaves it
  more. This is the safety half of `MergeEnds`.

`ShellControlProofs`, for constructs nested to any depth:

- `CountersAgree`, `ErrexitSpares`, `ConstructsLeaveAsFound`, all from one inductive
  invariant (`IInv`): every frame remembers, in `found`, the counters as they were
  below it, and those count the frames below it; so whatever leaves a frame by
  restoring what it found leaves counters that count. Of `callDepth` this is said without
  the calls in `leaked`: the theorems say that a failing redirection of a function is the only
  way to leave a call uncounted, and by how much `callDepth` is then off. `set -e` is suppressed by
  `inCondition`, which the invariant ties to the stack.
- `JumpsLand`: `Spec => JumpLands`. While a jump is on its way its levels are one more than
  the number of loops it has still to pass (`OnCourse`), or there are fewer loops
  than levels and it aims at the outermost; in a trap handler they outlast its loops
  (`Handled`). That a jump which begins has such a target is an induction over the loops
  of the stack, by the least counterexample (`WFMin`), since the library's induction
  cannot be used.

`JsExecQueueProofs` and `PyQueueProofs`, for any number of calls, sessions, workers (and
file systems):

- `NothingIsLeftWaiting`, `OneAtATime`, `EveryWorkerIsHeld`, and `AnswersAreOwn` of js-exec,
  `AnsweredStayUnstarted` and `StartsEndNone` of python3; the last assumes `OneFilesystem`,
  since two file systems that share a session manager have two queues, and the start of one
  ends a worker of the other (a hazard of `PROJECT.json`). Handlers change flags and then
  call `processNextExecution` with what they have just assigned. The invariants are
  therefore stated of any values of the variables, not of the variables, and one lemma about
  that function serves every handler.
- `EveryCallIsServed` of js-exec: while a call has no answer some execution is current,
  the call is that one or waits behind it, and the current one, if it has no session, is
  in the hands of a live shared worker or of an event that the main thread has still to
  handle. With it, fairness of the events and of the workers is all that
  `EveryCallAnswered` adds. Its invariant (`ServedInv`) says that whatever takes a call
  out of the queue or gives up the current one has answered it, and that the end of the
  shared worker stays among its events until it is handled, behind its messages.
- `CallsAreServedInTurn` of js-exec: the refinement of `CallsInTurn`, in which no answer
  is malformed, so that `AnswersAreOwn` follows from it. Its invariant (`TurnInv`): the
  current call waits for its answer and is not in the queue, and an entry of the queue
  waits or is canceled. A canceled entry is then in nobody's way (`LineBehind`), the
  head of the queue stays the first when it becomes the current one (`LineHead`), and an
  answer takes its caller out of the line and leaves the others in their order
  (`LineTold`); `NoLostWakeup` says that a call which finds nobody current finds nobody
  before it.
- `EveryCallIsServed` of python3: a call that waits for its result has a worker that is
  alive or whose exit has still to be handled, or it is in a queue of which that is true
  of another call or on which a handler goes on after `terminate()`; and a call whose worker
  has posted success finds the exit code of the bridge. No call is left to its timer,
  the safety half of `EveryCallReturns`. `ServedInv` says that a file system is executing
  only with an execution without a result (`Busy`), that the exit of a dead one is
  among its events (`Heard`), that the timer alone cancels, and that success is posted
  behind the exit (`Seen`).

`McpClientProofs`, for any sets of connects, calls and names:

- `RequestsAreTimed`, `RepliesAreOwn`, `ServersAreReachable`, `BrowserIsShared`. The
  requests of a transport are numbered in the order they are sent, the first is the
  handshake and the second the discovery of tools, so that a connect is at the stage
  of its one pending request and a reply to another is ignored.
- `NobodyIsLeft`: an unsettled connect or call has a request that waits, with a timer
  if its server is a process, or waits for a connect that has begun. This is the safety
  half of `EverySettles`: fairness of timers and fetches does the rest.

`AgentMemoryProofs`, for any set of entries, number of containers and bound of the map:

- `TypeCorrect` and `NewerEntriesWin` hold whatever the faults. Maps are proved stronger
  types than `TypeOK` states: an id has one entry, and no entry is from the future. A
  fold is unrolled into the sequence of its intermediate maps (`FoldExists`, `MergeSteps`,
  `KeepSteps`), over which `MergeFacts` and `KeepFacts` go by counting up; the first
  of these shows that an entry the file brings is lost only if it was in the map
  before, which needs the distance of an entry from the end of the map.
- `PromisesStay` and `MemoryRecalls` assume `OneAfterAnother`: containers follow one
  another, none has a sync in progress when it is disposed, and every type of agent has a
  file of its own. Two types that `sanitizeAgentType` maps to one file overwrite each
  other's entries. Writes and reads may fail, processes crash, hosts provide memories and
  agents sync early: the properties say what holds until a partial memory is saved, and
  `spoiled` stays once it is set (`StaysSpoiled`), so that the invariant, `Unspoilt`, need
  only be kept until then. The inductive invariant (`IInv`) says, of the one container that
  is up: entries lie in the files of their groups (`Filed`); an entry whose file the
  hydration has passed is no older than what is promised of it (`Recalls`, `Loaded`), though
  it may be written, evicted and merged meanwhile; what is being saved or synced is no older
  than the promise and no newer than the map (`Current`), so that overwriting a file breaks
  no promise; a group is still to be written or in its file, and a scope still to be written
  or its manifest names the type (`SaveRight`, `SyncRight`). The last manifest then makes
  promises of what is on disk already.

Only model-checked: the liveness properties `EveryCallAnswered`, `EveryCallReturns`,
`EveryRequestAnswered`, `MergeEnds` and `EverySettles`, which are out of the prover's reach
(the safety half of each is a theorem: somebody is always about to go on, and a merge
comes nearer to its end);
and the four violations, each of a property that the code does not have. Every safety
property of a passing run is a theorem as well, so that TLC finds a mistake in it before
the prover fails on it, and shows that its mutants break it.

## 6. What is not modelled

Every component is in `PROJECT.json` with its status and the reason. In short:
pure computation on text (parser, expansion, text commands, transforms), host I/O
(overlay and real file systems, network, worktrees, git, language servers), patches of
JavaScript globals (defense in depth), adapters around `exec` (CLI, AI, MCP server), and
what section 2 leaves to an extension. These make up by far the most lines of
the repository, and a model of them would repeat the code.

Hazards that no property covers, each with a note in `PROJECT.json`: an exec that
began before a restore commits over it, two appends to an overlay of which one is
lost, and a merge that overwrites what the parent has changed (the models have the
behaviour and no text of the repository promises otherwise); the EXIT handler that fires
early or not at all, and the limit of MCP connections (the models have the behaviour, and
section 2 quotes the comments that say otherwise); the failing initialization of a js-exec
worker, and torn snapshots of several mounts (not modelled). The notes also say which half of a
hazard is not caught: writes of an and-or list that `timeout` has abandoned, though
`timeout.ts:120` promises none after the next statement boundary; a connection that is
registered after its client was disposed, though `McpClient.ts:487` releases all of them, and
one that was replaced under its name; the resolved promise that `ensureBrowserHarnessConnection`
keeps after a disconnect; workers of sessions that js-exec and python3 share.
