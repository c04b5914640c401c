# Verification of the oh-my-kimichan orchestrator

oh-my-kimichan (`omk`) runs goals as directed acyclic graphs of tasks: an agent
process works on each node, evidence gates decide whether its result counts,
and a run can be cancelled, resumed from disk and replayed.  This directory
holds TLA+ modules that model the parts of the program that carry its own
logic, the TLC configurations that model-check them, and TLAPS proofs of the
properties that should hold for every DAG and every number of workers, calls,
servers, nodes and commands.

Paths below are relative to the repository root.

## 1. Inventory

### The system's components

**DAG definition and scheduler** (`src/orchestration/dag.ts`,
`task-graph.ts`, `scheduler.ts`).  State: per node a status, a retry count and
the list of dependencies.  Operations: `createDag`, `runnableNodes`,
`updateNodeStatus` with its two walks `blockDependents` and `skipNode`,
`isComplete`, `isFailed`.  Hard: six ways in which a failure is excused
(`skipOnFailure`, `blockDependents: false`, `fallbackRole`, optional outputs,
optional inputs, retries) meet in four predicates that have to agree with each
other.  Correct when a node only starts on dependencies that are done or
excused, when skips have a cause, and when both verdicts on a DAG follow from
what happened to its nodes.

**DAG executor and node monitor** (`executor.ts`, `node-monitor.ts`).  State:
the DAG, `runningMap`, the follow-up ticks, the abort flag, the final snapshots
being saved, the promise `execute()` returned.  Operations: `tick` (called at
the start, at the end of every attempt, after a stall kill and after the
creation of a fallback), `runNode` (an async function with four awaits),
`onKill`, the abort signal, `resolveOnce`.  It calls the scheduler
synchronously and the persister asynchronously.  Hard: every await of
`runNode` is a point where a tick of another node, a kill or the signal
changes the node; results are applied to nodes that have moved on; the promise
must resolve once, with the right verdict, after the last attempt.

**State persistence** (`commitState` in `executor.ts`, `state-persister.ts`).
State: a chain of promises, a counter that limits it, `state.json`.
Operations: queue a snapshot (or drop it when the queue is full), write a
temporary file, rename it, resume from it.  Hard: failing saves, a process
that dies between two steps, snapshots of several callers in one queue.

**Resume and replay** (`run-state.ts`, `commands/dag.ts`, `replay/`).
State: a saved run.  Operations: rebuild a DAG from a snapshot,
`resumeFromState`, resets of the replay modes.  Hard: the snapshot may be from
any step of the executor, of a cancelled run, or hold fallback nodes beside
the nodes they replaced.

**Evidence gates** (`evidence-gate.ts`, `repair-policy.ts`).  Child processes,
files and patterns decide whether a result counts; no state of their own.

**Ensemble** (`ensemble.ts`).  State: worktrees of concurrent candidates, the
base directory.  Hard: the winner is compared with and copied into a base that
other nodes change; a candidate's worktree has the same name in a retry; copies
that go on after one of them failed; files that cannot be merged, walks and
removals that fail, which the call swallows.

**Provider task runner** (`providers/`).  State: the health of the two
providers, shared by all nodes; per fork a notification flag.  Operations:
route, retry, fall back, mark unhealthy.  Hard: a node's provider is decided in
three places (the router, the vetoes of the route ensemble, the recovery from
an exhausted quota), while the health changes under nodes that were routed
already.  Correct when no way leads a node to DeepSeek that the rules exclude,
and failures of both providers do not hand a node to and fro.

**Kimi runners** (`kimi/wire-client.ts`, `kimi/runner.ts`).  State: pending
calls with their timers, a child process.  Hard: an answer, a time limit, the
exit of the process and `stop` all want to settle the same call.  Correct when
every call is settled, once, by an answer to itself or by a reason.

**MCP sessions and host** (`mcp/client.ts`, `mcp/host.ts`, `mcp/transports/`).
State: pending requests, a transport, the host's table of sessions with their
connection times.  Hard: three records of "connected" (`connectedAt`,
`initialized`, the transport) that no step changes together, requests without
a time limit, servers that crash or exit at any moment.  Correct when no server
process is left behind and no request outlives the one that needed it.

**Cron engine** (`util/cron-engine.ts`).  State: jobs, running promises.  Hard:
concurrency policies against detached runs, a configuration file re-read on
every tick, ticks that overlap.  Correct when `forbid` means what it says.

**Goal loop** (`orchestrate-prompt.ts`, `goal/`, `commands/goal.ts`).  State: a
goal on disk and each command's copy of it.  Hard: the copy is written back
over what other commands did to the file; two guards bound the loop, and each
has a case the other must cover.  Correct when the loop is bounded and a run
that was recorded stays recorded.

**Project memory** (`memory/memory-store.ts`, `local-graph-memory-store.ts`,
`memory-config.ts`).  State: one graph file, the Markdown pages beside it, and
in each store a promise that the project node exists.  Operations: `read`, which
takes what the graph lacks from a page and writes it into the graph, and
`write`, which saves the graph, then the pages, then the page of the path.
Hard: every process loads the whole graph and writes its changed copy back
without a lock and in place; the writes are several steps of which any may fail.
Correct when what is written belongs together, when a text that was saved stays
while accesses do not overlap, and when no page shows what was never saved.

**Chat session** (`commands/chat.ts`, `util/chat-state.ts`, `chat-cockpit.ts`,
`todo-sync.ts`, `session.ts`).  State: `state.json`, `todos.json` and
`session.json` of a chat, the queue of patches, the pause before a sync, the
updates that are under way.  Operations: heartbeats and activities, syncs of the
todos, the end, the resumption.  Hard: the end must wait for updates that begin
while Kimi exits, and each of them may fail.  Correct when patches are serial,
when nothing is left that could write after the end was recorded, and when the
command always comes to its end.

**Everything else** (checkpoints, todos, commands, MCP servers,
routing, context budget, the command line, reports) is listed with its status
in `PROJECT.json`.

### How they interact

    commands/parallel, run, dag ──execute()──> executor ──> scheduler, dag
                │ abort signal                   │  │ └─> commitState ─> state.json
                └────────────────────────────────┘  └──> evidence gates
                                                 └──> runner: ensemble ─ provider runner
                                                      └─ print runner (kimi), DeepSeek
    commands/dag replay <── resume ── state.json
    commands/goal ── goal loop ──parallelCommand──> commands/parallel
    mcp/host ── sessions ── server processes        cron engine ── handler

The executor calls its runner through one promise per attempt, and everything
behind that promise is a single nondeterministic answer in the executor model:
success, failure, rejection or time-out, at any turn, or after the node was
killed.  The scheduler is called synchronously and is a set of operators.  The
persister is only reached through `commitState`, whose await can delay the
executor (the phases *starting* and *closing*, and the set `finals`) but never
changes what it does; that is what allows it a module of its own.  The goal
loop awaits a whole run as one call.  A replay, on the other hand, starts from
whatever the executor has left on disk, so that `Replay` extends `Executor`
and takes its steps.  The wire client, the MCP host and the cron engine share
no state with the rest.  The project memory is shared by processes through its
file alone; a chat keeps files of its own.

## 2. Modules

| module | models | role |
|---|---|---|
| `DagScheduler` | `dag.ts`, `task-graph.ts`, `scheduler.ts` | operators over a definition, statuses, retries and dependencies |
| `Executor` | `executor.ts`, `node-monitor.ts`, signal of `parallel.ts` | one `execute()` call, extends `DagScheduler` |
| `RunContract` | what the caller of `execute()` may rely on | abstract specification, implemented by `Executor` |
| `MCExecutor` | DAG definitions | instances for TLC |
| `ExecutorProofs`, `DagProofs` | | theorems about `Executor`, about its DAG and about `Replay` |
| `CommitQueue` | `commitState`, `state-persister.ts` | promise chain, failing saves, crash |
| `SnapshotStore` | what `state.json` stands for | abstract specification, implemented by `CommitQueue` |
| `Ensemble` | `ensemble.ts` | overlapping `run()` calls, worktrees, merge of the winner |
| `MCEnsemble` | | instance for TLC |
| `EnsembleProofs` | | theorems about `Ensemble` |
| `Replay` | `commands/dag.ts`, `run-state.ts`, resume of `executor.ts` | resets a run and executes it again, extends `Executor` |
| `WireClient` | `kimi/wire-client.ts` | calls to one process at a time |
| `CallContract` | what a caller may expect of a call | abstract specification, implemented by `WireClient` |
| `McpHost` | `mcp/host.ts`, `client.ts`, `transports/stdio.ts` | the host's main loop over the sessions of its servers |
| `ProviderRouter` | `providers/router.ts` | operators: who may work on a node |
| `ProviderRunner` | `provider-task-runner.ts`, `health.ts` | nodes run beside each other over one health registry, extends `ProviderRouter` |
| `GoalLoop` | `orchestrate-prompt.ts`, `goal/`, `commands/goal.ts` | commands on one goal, the auto-continue loop |
| `CronEngine` | `util/cron-engine.ts` | overlapping ticks, merge, concurrency policies |
| `MCServices` | | one instance of the seven modules above for TLC |
| `MemoryStore` | `memory-store.ts`, `local-graph-memory-store.ts`, `memory-config.ts` | processes on one graph file and its pages |
| `ChatSession` | `chat.ts`, `chat-state.ts`, `chat-cockpit.ts`, `todo-sync.ts`, `session.ts` | the files of one chat, its end and its resumption |
| `MCFiles` | | one instance of `CommitQueue`, `MemoryStore` and `ChatSession` for TLC |
| `FilesProofs` | | theorems about `CommitQueue`, `MemoryStore`, `ChatSession` and the composition `MCFiles` |
| `WireClientProofs`, `McpHostProofs`, `ProviderProofs` | | theorems about them |
| `ServicesProofs` | | theorems about `GoalLoop`, `CronEngine` and the composition `MCServices` |

### DagScheduler

A definition `def` is what `createDag` accepts, reduced to the fields the
status machine reads.  `dependsOn`, `retries` and `status` are the mutable
fields of a node and are passed to the operators, because the code calls the
scheduler in the middle of a turn with values it has just changed.  The
breadth-first walks of `blockDependents` and `skipNode` are least sets closed
under the edges they follow (`Reached`), which is what a walk with a visited
set over a finite graph computes.  `createDag` refuses a graph with a cycle,
which `Acyclic` says of a definition: every set of nodes has one that depends
on none of the others.  Priorities are left out: they decide which
runnable nodes take the free slots, and the executor model allows any choice.

### Executor

A step is a turn of the event loop between two awaits.  `Tick(st, rt, ph, tk)`
is a `tick()` call on the values its caller has just computed: the end of an
attempt (`Close`), a kill (`Kill`) and a follow-up tick (`RunTick`) run it in
the same turn, as the code does.  Its branches are separate operators in the
order of the code: `TickAfterEnd`, `TickCreatesFallbacks`, `TickCancels`,
`TickEnds`, `TickHolds`, `TickDispatches`.

| variable | code |
|---|---|
| `def`, `status`, `retries`, `dependsOn`, `attempts` | the nodes of the DAG |
| `phase` | `runningMap`, and which await of `runNode` an attempt is parked at |
| `stalled`, `kills` | monitor entries that were killed; a bound |
| `pendingTicks` | the first `tick()` and those a fallback branch has called |
| `aborted`, `aborting` | `signal.aborted`; the executor has read it |
| `finals`, `outcome` | verdicts whose awaited save is under way; the promise |

Four kinds of faults are modelled: a failing, rejecting or timed-out runner
call (the same step, as the code treats them alike); a stall kill, after which
the runner call still answers; the abort signal at any turn, also before the
start; and a decision record that cannot be appended
(`evidence/decision-trace.ts` writes synchronously and may throw), which makes
the catch clause of `runNode` report a failure a second time, or turns a
success into a failure.

### CommitQueue

The DAG is a count of changes and a snapshot the count it shows, so that order
and durability can be told apart and nothing else.  `queue` holds the links of
the promise chain that have not settled, `size` is `commitQueueSize`, `disk`
is what `state.json` shows.  A save has the steps of the code: the callback
runs and the counter goes down, the temporary file is written, it is renamed;
each I/O step may fail.  A crash loses the queue and resumes from the file.

### Ensemble

What happens behind the runner promise of the executor: the calls of several
nodes, or of one node whose earlier call was given up, share the project
directory (`root`) and the worktrees, which are named after node and candidate.
`MayBegin` is the executor's side: a node is run again after a call that
failed, or that lost the race with its time limit (`TimeOut`) and is still at
work.  A candidate (`phase`, `left`) copies the project file by file, works,
and ends; the call then chooses (`Aggregate`), merges file by file
(`MergeFile`) and removes the worktrees (`Return`).  The content of a file is
the candidate that wrote it, so that the origin of everything in the project
can be read off.

Every operation on files may fail, up to `MaxFaults` in a behavior.  On the way
to a candidate: `CopyFails`, `CopyMissed` and `CandidateThrows`; the copies of
one `Promise.all` that are under way when another one fails are not awaited and
go on.  On the way back: `MergeFails`, where a `readFile`, `ensureDir` or
`copyFile` of `mergeWinnerWorktree` is caught and noted in `mergeErrors`;
`WalkFails`, where a directory of the winner cannot be read, so that the merge
is over for the call (`unwalked`) while files already listed are still being
merged, also after it has returned; and the removals in `Return` and
`CandidateThrows`, which leave what `Remains` allows because `cleanupWorktree`
ignores the failure of `rm`.  A `copyFile` that fails may remove its target
(`Loses`), as Node does.

Five variables are history: `wrote`, the files a candidate changed;
`overlapped`, the calls that did not have the project to themselves; `torn`,
those that left copies under way; `stale`, those that found files of an earlier
call in the worktree and failed to copy the project over them; and `undeleted`,
the candidates whose worktree could not be removed.

An agent's work is one step, and so is the removal of the worktrees.  Scores
are reduced to *zero or above*, because the winner is the first candidate when
all are zero and any other candidate may have the highest score, depending on
what the agents print.

### Replay

`DagReplay` resets the nodes its mode chooses, with everything behind them,
and starts an `execute()` call on the result.  The state it starts from is any
state of `Executor`: the run ended, was cancelled, or its process died, and by
`CommitQueue` the file then shows the state of some earlier moment, which is a
state of the executor as well.  After the replay the steps are those of
`Executor` (`Goes`).  `DependenciesMet` is the property of the executor,
checked again where nodes start beside results of another run.

### WireClient

A call is its id.  `call` is the promise, `pending` and `timers` the two maps
beside it, `proc` and `rl` the fields that decide which process is listened
to, `kimi` the life of each process.  The steps are the callbacks: `Response`,
`TimeLimit`, `ExitHandler`, and the methods `Start`, `CallKimi`, `Stop`.  A
process may end any time before its exit event is handled.

### McpHost

The main loop handles one request of its own client at a time, so `op` is what
it awaits; `connectAll` is the one request with several sessions at work
(`conn`).  A pending request is represented by the process it was written to,
which is all that matters for who can still answer it.  `Crash` is the path
on which the transport rejects what is pending, `ExitUnnoticed` the exit with
code 0 or by a signal, which nothing reports.  The answer to `initialize` may
be a result, an error or neither.

### ProviderRouter and ProviderRunner

`Job` is what the router reads of a node.  `Winner` is `routeProvider`, its
conditions in order; `Vetoed` is the second computation of the same question
for the vote of the route ensemble.  A run of a node is the sequence of its
provider calls (`calls`); each call, the backoff and the awaited notification
are steps, so that the health changes between any two of them.

### GoalLoop

Each command is a process with a copy of the goal; `Save` writes the whole copy.
`goal run` and `goal continue` load twice and then loop on the second copy
without ever loading again.  Votes and scores are choices of the environment.

### CronEngine

`TickBegins` decides what the tick will read, `TickRuns` is the rest, which is
synchronous in the code.  The clock is reduced to what it makes of
`nextRunAt`: to come, due, or due for longer than two ticks.  `activeRuns` is the
map of the code, `working` what really goes on.

### MemoryStore

A client is a process with a store that does one thing at a time; `plan` is what
is left of its request (`ensureGraphState`, the graph, the page), and `at` is
where it is in the first step of that.  `Load` reads the file and changes the copy,
`OpenGraph` empties the file, `SaveGraph` writes it, `MirrorGraph` writes the
pages that show the graph, `WritePage` the page of the path.  A file that is
being written reads as no graph, and two writers at once may leave a mixture
(`crossed`).  A text is a sequence of pieces: a memory keeps `Kept` of them and
its version all, and the concepts, files and edges that the code generates from a
text are one concept per piece.  `WriteFails` and `ClientDies` may cut off every
one of these steps.

### ChatSession

A patch of `state.json` is its number.  `ops` and `draining` are the queue of
`chat-state.ts`, `drain` the patches a loop has read and not yet written (more
than one only if two loops ran); `unfinished` is `pendingUpdates`, `pausing` the
timer of the debounced sync, and a sync has the awaits of `flushTodoSync`.
`KimiExits`, `Finalize`, `Finalized` and `CloseSession` are the `finally` block in
its order.  `Killed` is a death or the handler of a signal that exits at once,
`Resume` a new command on the files.  The status "done" of `state.json` and
"completed" of `session.json` are one value.

## 3. Runs

| run | bounds | shows |
|---|---|---|
| `executor_core` | 4 nodes and 4 fallbacks, 2 workers, no faults; every assignment of six policies to the nodes before the last one, in a join with a node behind it and in a fork that joins again, inputs required or optional, inner node retried or not, last node blocking or replaced | a started node's dependencies stay met, skips are justified, both verdicts are, every attempt is charged once |
| `executor_faults` | 3 nodes, 2 workers, one policy for all nodes, chain and join, one retry; 1 kill, abort, decision records that throw | `InductiveInv` (with it the pool size, the one verdict and what the proofs say of the DAG), retry budget, results never taken back, no overlapping attempts, nothing started after the abort, `RunContract`, and under fairness that the promise is settled |
| `fallback_in_chain` | 1 definition | **violation** (finding 1) |
| `optional_input` | 1 definition | **violation** (finding 2) |
| `late_answer_after_kill` | 1 worker, 1 kill | **violation** (finding 3) |
| `files` | one of three parts per behavior: a commit queue with limit 2, 2 changes, 2 awaited commits, 2 failed saves per process, 1 crash; 2 clients of a memory of 3 paths (one of them mirrored), texts of one or two pieces of which one is kept, all pages or none at the beginning, 3 writes, 1 fault; a chat with 1 todo, 1 heartbeat, 2 syncs per session, 1 fault, 1 resumption | commits: order and durability of acknowledged saves (`IInv`), `SnapshotStore`, awaits end; memory: the inductive invariant, saved texts kept, pages never ahead; chat: the inductive invariant (patches serial, the end awaits all), nothing left after the end, the end is reached |
| `commit_queue_full` | limit 1 or 2, 1 failure | **violation** (finding 4) |
| `commit_awaited` | 1 failure | **violation** (finding 5) |
| `ensemble` | 2 calls of one node or of two, 2 candidates in parallel with the weights 1.0 and 0.8, 1 file the project may have or not, the first call may exceed its limit, 1 operation on files may fail (and those beside a copy that failed) | the inductive invariant; candidates meet only in the directories of a call that was given up, only winners reach the project, what was merged stays, only worktrees whose removal failed are left |
| `lanes_shared` | as above, nothing fails | **violation** (finding 6) |
| `memory_seed` | as the memory in `files`, each page there or not | **violation** (finding 7) |
| `services` | one of six parts per behavior: 1 replay of 4 DAGs of 3 nodes, with abort; 4 calls, 2 pending, 3 processes; 2 servers, 3 server processes; 2 nodes of 8 kinds, 1 retry; 2 commands, limits up to 2; 1 job, 2 overlapping ticks, 3 runs, 1 edit | replays keep no stale result; calls settle once, in the end, as `CallContract` says; no server process or request left behind, requests to the host end; nodes change provider once and only where they may; the goal loop is bounded and its runs recorded; `forbid` waits |

`services` checks six components with one instance, `files` three.  They share
no state, so a behavior lets one of them (`part`) take steps and leaves the others at rest;
that adds their state spaces up and does not multiply them.  The fairness of a
part at rest concerns steps that are disabled there.

Why these bounds are enough to be interesting: three nodes are the smallest
DAGs with a *transitive* dependent (chain), with siblings that run together
(fork) and with a dependency that fails while another one still runs (join).
Two of the properties are decided only by a fourth node (see section 4), hence
the two shapes of `executor_core`, which contain those of three;
two workers make attempts overlap; each policy meets each policy as
predecessor, sibling and successor.  One retry is what separates a terminal
failure from one that is not.  One kill is enough for a result that arrives
for a node that has moved on; a second kill of the same attempt is excluded by
the code (`stalled`).  For the queue, a limit of two leaves room for a
snapshot that saves and one that waits, and two failures let the drift of the
counter exceed one.  For the ensemble, two calls are what overlaps or follows
in a retry, two candidates are the default, and one file is enough for a lost,
stale or foreign content, as it is copied, written and merged on its own.  A
limit that the last call exceeds lets nothing begin that would not begin
anyway, so only the first call has one.  One failure meets each operation at
each point; a copy, the copies beside it and a removal that fail together take
two, and a run with `MaxFaults = 2` (5.6 million states) was made once without
an error, as was one of three calls in sequence (`MaxParallel = 1`, stopped
after 28 million states).  The proof holds for any number of calls and
failures; one hazard that takes three calls, an older worktree that is merged
over a newer result (section 5), was found in it.  `Node` is symmetric there
and the properties are invariants.  Each exception they make for a failure
(`unwalked`, `mergeErrors`, `undeleted`, `GivenUp`, `overlapped`) was taken out
once, and TLC then found the property violated.

In `services`: one replay suffices, as what a second one starts from is again
a state of the executor; the four DAGs put a result behind a failure that is
skipped, that blocks or that does not, with required and optional inputs, and
a larger set of definitions of three nodes (1536 initial states, 452 430
states) was run once with the same outcome.  Four calls against a limit of two
let a call be refused at the limit, fill the place of a settled one, and belong
to a second process; three processes are two restarts.  Two servers are what
`connectAll` overlaps and what a search goes on to; three processes allow a
reconnect of one server beside the other.  The eight kinds of node take each
way through the router (`ProviderProofs!RouterAgrees` covers all of them); two
nodes are what shares the health, one retry separates a last try from others.
Two commands overwrite each other; limits of 0, 1 and 2 are the cases in which
the guards differ.  Three runs of a job are one that a tracked run overtakes,
the tracked one and the one that must wait.

In `files`: two clients are what overlaps, and three writes are the
`ensureGraphState` of both and a write of one beside it, or a write that
replaces an earlier one; one mirrored path, the project's path and one other
are the three ways a page is treated; a text of two pieces is one that does not
fit.  A project comes with all its pages, as `omk init` leaves them, or with
none.  One fault separates a step that failed from those after it that go on.
Two syncs overlap, or one is waiting for its pause while the other runs; one
resumption meets everything an end or a death can leave.

Bounds that belong to the model only: `MaxKills`, `MaxChanges`, `MaxFinals`,
`MaxFailures`, `MaxCrashes`, `NumCalls`, `MaxReplays`, `MaxCalls`, `MaxKimis`,
`MaxTransports`, `MaxTicks`, `MaxRuns`, `MaxEdits`, `MaxWrites`, `MaxFaults`,
`MaxUpdates`, `MaxSyncs`, `MaxIOFaults`, `MaxResumes`.  `Workers`,
`MaxCommitQueue`, `MaxPendingRpcs`, `DeepSeekRetries` and `MaxIterations` are
parameters of the code (`MAX_COMMIT_QUEUE` is 10 there), and `Kept` stands for
the 500 characters a memory keeps.

### Deadlock

It is checked in every run but `services` and `files`. In `Executor` the only
state without another step is a resolved promise with nothing in flight
(`Terminated`); a run that waits for ever would be reported. In `Ensemble` it
is a state in which no candidate or call is at work and no call may begin. In
`services` the parts may stop for good: a host that was closed or that waits
for a process that exited, a client stopped after its last call, nodes and
commands that are done. There `CallsSettle` and `HostReplies` say what must not
wait for ever. In `files` the bounds on commits, writes and updates end a
behavior, and `AwaitsEnd` and `ChatEnds` say what must have come to its end by
then.

### Fairness

`FairSpec` of `Executor` assumes that called ticks begin, that every attempt
goes on, and that an awaited final save comes back.  The code justifies each:
ticks are microtasks; `runNode` races the runner call with the node's timeout
and a 30-minute hard limit; gate commands have time limits; `commitState`
turns a failed save into a warning.  Nothing is assumed of the runner itself,
of kills or of the signal.  `FairSpec` of `CommitQueue` assumes that file
system calls return, with a result or an error.

`WireFairness` assumes that timers fire, and nothing of the process, of the
exit event or of the callers.  `HostFairness` assumes that the host goes on
with what it awaits and that a server which runs answers what it was asked,
with a result or an error: there is no time limit that would do without.
`HostReplies` therefore excepts exactly the wait for a process that exited
without an error.

`ChatFairness` assumes that reads and writes of files come back, with a result
or an error, and that the command goes on with what it awaits: the queue of
patches, each sync, and the steps of the `finally` block.  It assumes nothing of
Kimi, of the timers or of a signal.  No liveness is stated of the memory, whose
steps are awaited one after the other.

## 4. Proofs

Every invariant and every action property that a passing run checks has a
theorem, for every value of the constants that the named assumptions allow.
Eight modules hold them.

### The executor

`ExecutorProofs` and `DagProofs` prove, for any finite set of nodes, any
acyclic definitions, any pool size and any bound on faults (`NodesAssumption`,
`ExecutorAssumption`):

| theorem | states |
|---|---|
| `Invariance`, `InductiveInvariance` | `IInv`, and `InductiveInv == IInv /\ GraphInv` |
| `TypeCorrect`, `WorkersBounded`, `VerdictUnique`, `Quiescence` | `TypeOK`, `WorkerLimit`, `OneVerdict`, `SettledQuiescent` |
| `ResultsAreFinal`, `AttemptsDoNotOverlap`, `AbortStopsDispatch` | the action properties `DoneIsFinal`, `NoOverlappingAttempts`, `NoStartAfterAbort` |
| `Refinement` | `Spec => ImplementsContract` |
| `DependenciesStayMet`, `SkipsJustified` | `DependenciesMet`, `SkippedJustified` |
| `SuccessHonest`, `FailureForCause` | both verdicts: `HonestSuccess`, `FailsForCause` |
| `AttemptsAddUp`, `RetriesBounded` | `AttemptsAccounted`, `RetryBudget` |
| `ReplayTypeCorrect`, `ReplayedDependenciesMet`, `ReplayedFailureForCause` | types, `DependenciesMet` and `ReplayFailsForCause` over any number of replays |

`IInv == TypeOK /\ Sound(status, retries, phase, pendingTicks)`.  `Sound`, like
every part of `GraphInv`, is stated on *arguments* rather than on the
variables because a tick runs on values its caller has changed in the same
turn; the central lemma says that a tick called on sound values leaves a sound
state, and each caller (`RunTick`, `Close`, `Kill`) only has to show that the
values it passes are sound.  It strengthens the properties in two ways.  An
open attempt's node is not done, which is why no failure, kill or
cancellation can undo a result (`DoneIsFinal`) and why a delivery happens once
(`Refinement`).  And once a final snapshot of an uncancelled run is being
saved (`Over`), nothing is in flight, no fallback is due, and the DAG is
complete or failed in a way every further tick agrees with: without it two
ticks during the save could each add a verdict.

`GraphInv` describes the DAG.  `Graph` holds of every run: dependencies are
nodes of the DAG that nothing replaced (`Enlisted`), only started nodes run or
are charged (`Begun`), what failed used up its tries (`Terminal`), and what a
started node consumes stays delivered (`Fed`).  `Budget` compares attempts with
charged failures, and `Quiet` is what is lost only when a kill interferes.  The
effect of a failure is put into words once (`FailureWalk`): which nodes the
walks of `blockDependents` and `skipNode` reach, that each of them requires
one reached before, and that a skip walk leaves no waiting node behind that
requires a skipped one.  Two arguments go beyond one step.  That a skip has a
cause takes a *set* of lost nodes (`LostSet`), because a node may be blocked by
another failure after the one it requires was skipped.  And that a run fails
for a cause, `Runnable = {}` and nothing in flight, takes the acyclicity of
the definition: among the pending nodes one depends on no other, so it would be
runnable.

Two properties had to be restated when their proofs failed; both
counterexamples take four nodes, and TLC confirms them.  *A started node's
optional input may be freed again*: a node runs although its weak input is
blocked by a failure, then a fallback unblocks that input, which is now pending
under a node that is running.  `DependenciesMet` therefore speaks of required
inputs where a fallback was created (`Weakly`).  *The node a skipped node
requires does not stay skipped*: it can be blocked by a second failure, and
`Excused` says so.  `executor_core` has four nodes since.

### Ensemble

`EnsembleProofs`, for any number of calls, candidates, nodes and files
(`EnsembleAssumption`):

| theorem | states |
|---|---|
| `EnsembleInvariance` | `EnsembleInv` |
| `WinnersOnly`, `DeliveriesStay` | `OnlyWinnersReachRoot`, `DeliveredStays` |
| `SharingIsForced`, `WorktreesRemoved` | `SharedOnlyWhenGivenUp`, `NoWorktreeLeft` |

Nothing is assumed about which operations fail or how many: `MaxFaults` is any
number, and a failure may leave any part of a directory.

The calls of one node follow each other: an earlier one has failed or was
given up (`CallCourse`), so that a directory has one call at work, or one and
those that were given up.  `Overlaps` keeps what `Begin` recorded: two calls at
work at the same time are marked both, where a call that has returned counts as
at work while files of a failed walk are still being merged (`AtWork`).
`Traced` says where every file of every worktree came from: from the project,
where it was earned, or from a candidate of that directory, whose call is at
work, was given up, or could not remove the directory (`undeleted`); so that
what a merge copies is the work of a winner or has `Strayed` there.  `Owned`
says the same of the worktrees themselves.  The changes of a call that has the
project to itself are in its worktree, out of reach of any copy, and after the
choice in the project, still to be merged, or noted as not merged
(`Delivering`).  A later call works on them because it copies before it works
(`Fresh`), and here the proof failed at first: a rejected call leaves its
worktree behind, and when the next call of the node cannot copy a file into it,
it works on what is there.  `DeliveredStays` excepts by name what a later call
may undo (`Undone`): that case, and a file that a later call failed to merge,
which the failed copy may have removed.

### State, memory and chat

`FilesProofs`, for every limit of the queue, any clients, paths and texts, any
todos, and any number of changes, writes, updates, failures and restarts:

| theorem | states |
|---|---|
| `Invariance`, `AcknowledgedStays`, `Refinement` | of the commit queue: `IInv`, `AckedIsDurable`, the refinement of `SnapshotStore` |
| `GraphCoherent`, `SavedIsKept` | of the memory: `MemoryInv`, `MemoryKept` |
| `PatchesApplied`, `ClosesClean` | of a chat: `ChatInv`, `ChatCloses` |
| `PartsAsSpecified` | `MCFiles` behaves as each of its parts is specified |

*Commits.*  The queue is sorted: every queued snapshot lies between the file
and the state (`QueueInOrder`), commits append the largest, saves take the
smallest.  The counter equals the number of waiting links less the number of
failed saves (`CounterDrifts`), which is finding 4 as an invariant.

*Memory.*  The invariant speaks of the copies the clients hold as well as of
the file: a save writes a copy that was loaded some steps before, and a load
that finds the file empty starts with a fresh graph, so that the file is
coherent only because each copy is (`WrittenCoherent` is the one step that
makes a new one).  A page never gets ahead because each plan has the graph
before the page, and the version with the page's text is the latest of its path
in the copy about to be written (`PageFollows`).  Nothing is lost while accesses
do not overlap and nothing fails, because then at most one client has the graph
open and its copy holds everything saved (`Undisturbed`).

*Chat.*  `ChatInv` follows a patch on its way.  One patch at a time is read and
written, each once (`OnePatchAtATime`, with the queue as the set `Queued`), so
that what a patch read is still the file when it is written.  The end waits for
every patch but its own and for every sync, directly or through the sync that
made the patch (`EndAwaitsAll`); hence when the final patch is queued nothing
else is (`FinalIsLast`).  `PatchesCounted` says who makes patches, which bounds
their number, and `TodosOnTheirWay` where a parsed todo is.

### The components around the executor

| module | theorems | state |
|---|---|---|
| `WireClientProofs` | `WireInvariance`, `WireRefinement` | `WireInv`; the client implements `CallContract` |
| `McpHostProofs` | `NoProcessLeft`, `NothingLeftOwed`, `HostTypeCorrect` | `NoServerLeftRunning`, `NothingOwedWhenIdle`, `HostTypeOK` |
| `ProviderProofs` | `RouterAgrees` | route and vetoes agree for every node and either health, but for coders with a hint to DeepSeek |
| | `DeepSeekOnlyReads`, `NodesSwitchOnce`, `DisabledStaysDisabled` | `ReadOnlyForDeepSeek`, `OneSwitch`, `OnlyRetriesWhenDisabled` |
| | `AuthorIsHonest` | a result names the provider asked last |
| `ServicesProofs` | `LoopIsBounded`, `RunsAreRecorded` | of the goal loop: `LoopBounded`, `RunsRecorded` |
| | `CronInvariance`, `ForbidIsKept` | the tracked run is the latest while it goes on; `ForbidWaits` |
| | `PartsAsSpecified`, `ServicesTypeCorrect` | `MCServices` behaves as each of its parts is specified; `ServicesTypeOK` |

`WireInv` is inductive as it stands: the map, the timers and the open promises
are the same set, and each of its calls was written to the process that is
read; the bound on open calls and the refinement follow.  For the host, a
session that is being connected is registered and not in `connectedAt`
(`Connecting`), so that opening a transport replaces none whose handshake
succeeded; and what the main loop awaits says which sessions owe it an answer
(`Owing`).  Its types take an invariant beside that (`HostBounds`): the
processes spawned and the sessions still to be opened are together no more than
the bound, which `Connect` checks where several are opened at once.  For the
provider runner the invariant describes `calls` by the step a node is at (`n`
direct calls, then one of Kimi, and so on).  For the goal loop it says that a
command never loses a run it made from its own copy; for the cron engine,
`CronTracked`.

The two theorems `PartsAsSpecified` are what allows `services` to check six
components as one instance, `files` three, and the theorems to speak of them one
by one: a behavior of the composition satisfies the specification of each.

### What is only model-checked

Liveness, which is out of the prover's reach: `Settles`, `AwaitsEnd`,
`CallsSettle`, `HostReplies`, `ChatEnds`.  The other way round, `WorkerLimit`,
`OneVerdict`, `SettledQuiescent` and `AckedIsDurable` are conjuncts or
consequences of invariants that the runs check, and have theorems of their own.

## 5. Findings

1. *A fallback does not save a run whose DAG has a third node in the chain.*
   The failure of a node blocks all transitive dependents; the fallback branch
   unblocks only the direct ones (`executor.ts:538-549`).  The next tick sees
   a blocked node, takes the run as failed and ends it before the fallback was
   started.  The comment above the branch (`executor.ts:503-504`) promises the
   opposite.  (`FailureHasFailedNode`)
2. *Nodes that may run in spite of a failure are not run.*  A scheduler test
   expects a node with an optional input to stay runnable behind a blocked
   one; the executor starts nothing in a failed DAG.  (`NothingRunnableLeft`)
3. *A killed node can come back.*  `runNode` applies the awaited result
   without a look at the status, so a node killed at its last try becomes done
   while the nodes blocked or skipped because of the kill stay so.
   (`KilledIsOver`)
4. *The limit of the commit queue drifts.*  A failed save takes
   `commitQueueSize` down twice.  (`SkippedWhenFull`; what does hold is
   `CounterDrifts`: it is too low by the number of failed saves.)
5. *Awaited commits do not guarantee durability.*  The await ends although the
   save failed.  (`DurableWhenAwaited`; what does hold is `AckedIsDurable`.)
6. *Lanes of a retried node are shared.*  The call that exceeded its time limit
   goes on, and the candidates of the retry use the same directories
   (`ensemble.ts:269`), where the README of the repository promises isolated
   lanes (`README.md:223`).  (`IsolatedLanes`; what does hold is
   `SharedOnlyWhenGivenUp`.)

7. *The pages a project comes with are overwritten before they are read.*  Every
   save of the graph rewrites `project.md`, `goals.md`, `decisions.md`,
   `commands.md` and `risks.md` from the graph alone
   (`local-graph-memory-store.ts:373`), and the first write of a store is the
   one of `ensureGraphState`.  The comment on `migrate_files`
   (`memory-config.ts:70`) promises "seed the graph from existing .omk/memory
   files on first read"; what the first read finds is the generated page.
   (`SeededFromFiles`)

Observed while modelling, not a disagreement with any stated intent.  In the
ensemble: a call merges the winner's whole copy, so files that another node
delivered meanwhile go back to their older content (`DeliveredStays` speaks of
calls that do not overlap); a rejected call leaves the worktrees of the
candidates that did not throw, and when the next call of the node cannot copy
the project into such a worktree, it starts on the old files and merges them
over what another node delivered in between (`stale`, `Undone`); a change that
could not be merged is mentioned in the metadata of the result only, and the
call succeeds or fails as the votes say (`mergeErrors`); after a walk that
failed, `mergedFiles` and the errors of single files are lost, the files already
listed are still being merged while and after the worktrees are removed, and
may then replace what a later call has delivered (`unwalked`); a worktree that
could not be removed is found by the next call of its node, and what it has
more than the project is merged with the work of the winner (`undeleted`);
copies that outlive a failed one can overwrite a candidate's work or create a
removed worktree again (`Settled`, `torn`); the work of a winner is merged also
when the quorum was missed.  In the executor: a
node skipped together with a failed dependency can be blocked by another failure
and set back to pending by a fallback; its run then ends in the "deadlock or
nothing to do" branch of `tick()`.  `FailsForCause` therefore speaks of runs
without fallback, and `AttemptsAccounted`, `HonestSuccess`, `SkippedJustified`
of runs without kills, where finding 3 does not interfere.

In replays: `--node X` of a run in which another node failed that is not
behind X keeps that failure, and the new run ends at once without running X
(`executor.ts:471`); a reset node that requires a node which stays skipped ends
in the "deadlock" branch (`Unreachable`); a full replay after a fallback runs
the original node and its fallback beside each other.

In the router: for a coder with the hint `deepseek` and a task that is not
simple, `routeProvider` selects `deepseek-pro-advisory` while the ensemble
vetoes it; the branch at `router.ts:128-133` is implied by the one at 120 and never
decides.  In the runner: retries do not look at the health; the recovery from
an exhausted quota does not ask the router (it is stricter, which
`ReadOnlyForDeepSeek` shows); each fork notifies once.

In the goal loop: a `goal close` or `goal block` during a run is overwritten by
the loop's next save; at the last iteration the guard turns a vote to close
into a handoff although the score passes; the save at
`orchestrate-prompt.ts:150-153` cannot happen for goals the program created.

In the MCP host: requests have no time limit; an exit with code 0 is not
reported; a reconnect after a failed handshake replaces the transport and
leaves the old process; an answer to `initialize` without a result counts as
initialized; a call hinted at a server that was never connected leaves an entry
in the map; `connectedAt` survives a crash; `checkPermission` is asynchronous and
its callers do not await it.

In the project memory: two overlapping writes lose one of the versions, and a
load during a write starts a fresh graph, which is then saved over the old one;
a read meanwhile migrates an older page into the graph; the promise of
`ensureGraphState` is kept when it was rejected, so that one failed save makes
every later write of the process fail; `read` returns at most 500 characters of a
text, the rest is only in its versions; the copy saved under the default path,
which a comment calls the source of truth (`local-graph-memory-store.ts:534`),
is read by nothing; `append` has no callers.

In a chat: a resumed one keeps the status of its last end until it ends again;
a `state.json` whose writing was cut short cannot be parsed and never be patched
again; the handlers of signals in `util/fs.ts:1280` exit at once and cut an
orderly end off; of two overlapping syncs of the todos one may overwrite the other.

In the cron engine: the document of the feature says that `forbid` skips a run
(`docs/2026-05-05-adjustable-timeouts-and-cron-jobs.md:142`); the code leaves
it due and starts it when the run in its way has ended, unless it is by then
overdue and without catch-up.  A tick that is reading goes on after `stop()`.

## 6. What is abstracted, and what is not modelled

In the executor: names, prompts, routing, environment variables, heartbeats as
clock values, the live view, the UI's progress events, and `state.nodes` (see
`CommitQueue`).  A runner call that lost its race with a time-out goes on in
the code; here it is not seen any more, because nothing in the executor
depends on it.  An exception between the start of `runNode` and its `try` block
is not modelled.  Runs start from pending nodes; `Replay` adds the start from
what an earlier run has left.  The forced exit five seconds after SIGINT is
the crash of `CommitQueue`.

In the ensemble: subdirectories (a copy may still create the worktree again, as
the walk into one does), nodes with a worktree of their own, secrets and
`SKIP_DIRS`, configuration, and everything the agents print.  The copy of a
file is one step, with its reading and comparison, and so is the removal of
the worktrees of a call: no copy finds half a file, and no merge a directory
that is being removed.  What a failed operation leaves is the file as it was,
no file, or, of a directory, any part; a copy that breaks off and whose target
cannot be removed either, and so stays cut short, is not modelled.  The
failures of one `Promise.all` beside the first one, and the several failures
it takes for a candidate to throw, count as one against `MaxFaults`.

In replays: runs with a fallback, which would need a second fallback id; the
bootstrap node; the evidence-only mode.  In the wire client: events and
requests of the server, which change no call.  In the MCP host: the HTTP
transport, governance and audit around calls, requests and notifications of
the servers, texts.  In the provider runner: model tiers, scores and reasons,
and how a failure's text is classified (its class is a choice).  In the goal
loop: evidence, history and decision files, `intentFrame`.  In the cron engine:
manual runs, which it does not track, the logs, the arithmetic of schedules,
and a configuration that cannot be read.  In the memory: searches, mind maps and
queries, which only read; settings that are not strict or do not mirror; kuzu.
In a chat: the terminal and its filters, the startup artifacts, and the report
about a chat that failed.

Not modelled at all, with reasons: see the `components` of `PROJECT.json`.  The
modules cover the parts in which steps interleave, fail or are resumed.  By
lines they are a small part of the program: most of its 61 000 lines are
commands that read, format and print, generated or templated text, probes of
the environment, and text heuristics.  These have no state that outlives a
call, and a model of them would repeat the code.

## 7. Plan

Done: the modules of section 2, with the proofs of section 4; every safety and
action property of a passing run has a theorem.  Left, in the order of what
would say most:

1. `RunContract` across restarts: that a result delivered by one `execute()`
   call is delivered by the replay as well unless its reset names it, as an
   abstract specification that `Replay` implements.
2. Replays of runs with a fallback, which need a second fallback id per node.
3. An abstract specification of a store that processes share, for
   `MemoryStore` without overlaps, and its refinement.
4. Nodes of the ensemble with a worktree of their own.
