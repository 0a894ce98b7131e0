# Portrail, specified

Portrail is a daemon that lets other programs start coding agents (Codex, Claude) in
enrolled folders, through an HTTP API, and that answers every permission question those
agents ask. This directory holds TLA+ specifications of its source, the TLC
configurations that check them, and proofs checked by TLAPS. Paths are relative to the
repository; line numbers are those of the commit the specifications were written from.
`PROJECT.json` maps every definition to the lines it stands for.

    tlc -workers 2 -config Dispatch.cfg MCGateway.tla      # a run
    tlc -workers 2 -config Providers.cfg MCProviders.tla
    tlapm GatewaySafety.tla                                # the proofs of a module

## 1. Inventory

| part | state | operations | hard behaviour |
|---|---|---|---|
| Gateway engine, `core/gateway.ts` | run, session, workspace and operation records; a map of workers (abort signal, handle, epoch); `pumping`, `closing`; timers | create / close session, create / cancel / steer run, pump, execute, decide, resolve, retention, recover, shutdown, add / remove workspace | every `await` in execute(), decide(), cancel() and shutdown(); crash at any point; timers against completions |
| Parking lot, `core/parking.ts` | parked promises with deadlines | park, resolve, drain | a deadline, an answer, a drain and the end of the run race for one promise |
| Store, `store/index.ts` | SQLite tables; stack of open transactions | tx with savepoints, afterCommit, event, put, queries | callbacks must wait for the outermost commit; the command line opens the same file |
| Event stream, `server/app.ts`, `server/event-pacer.ts` | cursor and page of each stream, one rolling allowance per session | subscribe, wake, pump, close | replay while events are appended and retention deletes; streams starve each other; the stream must end |
| HTTP API, `server/app.ts` | stream and wait counters per key; stored idempotent commands | the routes | retries, held responses, callers that leave |
| Keys and lock-out, `core/keys.ts`, `server/auth-guard.ts` | key records; failures per address | create, revoke, authenticate; retryAfter, failed, sweep | last-use write against a revoke in another process; window boundaries |
| Output batches, `core/delta-batcher.ts` | a text buffer and a timer | append, flush, dispose | byte bound against character bound, failing writes on a timer |
| Client, `client/index.ts` | cursor, attempts | request, wait, stream | resume without loss or repetition, and stop |
| Codex provider, `providers/codex/*` | RPC calls in flight, turn state, a private home | start, turn events, approvals, interrupt, close | exit of the child with calls pending; approvals after the turn |
| Claude provider, `providers/claude/*` | SDK message stream, pending permissions | start, canUseTool, interrupt, close | same |
| Built-in decider, `decide/*` | none | decide | command analysis: pure, large |
| Paths, `core/paths.ts`, `core/reach.ts`, `core/protected.ts` | none | contains, reach | symlinks, missing tails |
| Daemon, `daemon.ts`, `cli/shutdown.ts` | `daemon.lock`, `daemon.json`, the assembled parts | start, close, release, status | independent processes, file-system calls one at a time, kills |
| Extensions, `extension*.ts` | one optional extension | decider, routes, resolve | acts through decide() and resolve() |
| Command line, configuration, service, tunnel | none of their own | prune, workspace, keys, start, ... | a second process on a live database |

**How they interact.** The server calls the gateway synchronously. The gateway calls a
provider's `start` and is called back: events, `decide` for every permission question,
and a `done` promise. A decider answers, or says *ask*, and then the operation parks until
`resolve()` (a person at the machine, or an extension), the deadline or a drain. Every
record goes through the store; every event goes through `afterCommit` to the streams. The
command line is a second process on the same database.

**What makes each part correct.** The engine: at most one run in progress per session; no
run is given to an agent twice, whatever crashes; a run that is over stays as it is; no
*yes* reaches an agent whose run may no longer act; a decision is made once and counted
once; no slot is lost or overbooked and no queued run forgotten; an uncertain outcome is
recorded as uncertain and blocks its conversation. The lock: one owner per data directory.
The stream: each event of the run once, in order, then the end. Keys: a revoked key is
refused, and its streams end. Requests: a retry starts nothing twice. The store: nobody
hears of what was rolled back, and of everything else in order. Batches: the log holds the
agent's words, whole. A provider: `start` and `done` settle once and truly, and a yes reaches
the agent only as the gateway's verdict. The policy: nothing passes on a search that was
judged by less than the tool will read, and nothing leaves the workspace.

## 2. Modules

| module | what it is |
|---|---|
| `Gateway` | the engine with its parking lot, retention, recovery and shutdown, the agents and the second process as far as they touch the same records |
| `MCGateway` | small instances of it |
| `RunLifecycle` | abstract: the life of runs as a client of the API is promised it, shown to be implemented by `Gateway` |
| `GatewaySafety` | the type invariant, the inductive invariant, the safety theorems, that `Gateway` implements `RunLifecycle`, and the slots |
| `GatewayQuestions` | theorems about questions, their answers, and the agents that ask them |
| `EventStream`, `MCEventStream` | how the events of a session reach their readers: log, route, pacer, resuming client |
| `EventStreamProofs` | its theorems: readers, window, turns, stream slots |
| `DaemonLock`, `MCDaemonLock` | who owns a data directory: start, stop and kill of several processes |
| `DaemonLockProofs` | its theorems |
| `Provider` | abstract: what the gateway takes for granted of an adapter |
| `CodexRun`, `ClaudeRun`, `FakeRun` | one run of each of the three adapters |
| `Providers`, `MCProviders` | the three beside each other; each is shown to implement `Provider` |
| `ProvidersProofs` | that they do, for any scripts, requests and messages, and what Codex is granted |
| `Journal` | abstract: a log that grows, and listeners told of it in order |
| `Store` | transactions with savepoints and callbacks, shown to implement `Journal` |
| `Output`, `MCOutput` | on top of `Store`: a run's text through the batcher, and how execute() ends |
| `OutputProofs` | theorems about the text of a run, its end, and the listeners |
| `Server`, `MCServer` | requests: keys, lock-out, retries, held responses, heartbeats |
| `ServerProofs` | theorems about retries, the slots of held responses and `Retry-After` |
| `Policy`, `MCPolicy` | how one operation is judged: enrolment, containment, searches, git, the lists |
| `PolicyProofs` | its theorems |

## 3. How the modules correspond to the code

### Gateway

The daemon is one Node process. An action of `Gateway` is one macrotask: the handler of a
request, a timer, or a callback of a provider, **with every microtask it lets run**. So
`CreateRun` contains the pump that `afterCommit` queues, and `EndTask` contains the drain
in `finish()`, the continuations of the drained `decide()` calls, the cleanup of
`execute()`, the release of the slot and the pump that follows. Steps interleave exactly
where the code awaits something outside itself: `provider.start`, `handle.done`,
`handle.interrupt`, `decider.decide`, a parked operation, a timer.

| variable | in the code |
|---|---|
| `enrolled`, `session`, `workspaceOf`, `run`, `sessionOf`, `op`, `opRun`, `tally` | the records in the database; `op` also carries the verdict, `"removed"` is a deleted row |
| `worker` | the entry of the run in `Gateway.workers`: `"launching"` while `execute()` awaits `provider.start`, `"working"` while it awaits `handle.done` |
| `aborted`, `handed`, `deadline`, `interrupting`, `grace` | the worker's `AbortController`, the local `handedToAgent`, the time-limit timer, the `await handle.interrupt()` of `cancel()`, the five-second timer after it |
| `visited` | how far the loop of `shutdown()` has come |
| `asking` | what `decide()` of an operation awaits: the decider, or a promise in `ParkingLot.waiting` |
| `agent`, `closing`, `answer` | outside the daemon: which agent processes live and were not told to exit, which were and may live on, and what they were told |
| `removing` | the command line between the check and the delete of a workspace |
| `launched` | history: the runs ever given to a provider |

Runs are numbered in the order of their creation, which is the row order in which `pump()`
reads the queue; the queue therefore is the set of runs in state `queued`. What one pump
starts is given in closed form (`Reached`): a queued run is reached while fewer than
`maxConcurrent` slots are taken by workers and by older runs that can start. A run that
cannot start, because its session closed or its workspace is gone, gives its slot back
within the macrotask, so it takes none.

Three things act beside the daemon. The agents: `ProviderStarted`, `StartReturns`, `Done`
and `TaskFails` are their promises as the daemon sees them, in any order and with any
outcome a provider can report. The command line: `RemoveWorkspaceCheck`,
`RemoveWorkspaceDelete` and `Prune` run in their own process on the same database, with an
empty worker map. And faults: `Crash` at any moment, `StorageFails` when streamed output
cannot be written, `Shutdown` by a signal or by an error nobody handled.

When a worker ends, the timers it leaves behind (`grace`, `interrupting`) find another
worker or none and do nothing: the model drops them at once. Its agent is told to exit
(`ToldToExit`), and that is all: `close()` is a SIGTERM and two seconds later a SIGKILL
(`providers/codex/rpc.ts:232-240`), the pump waits for neither, and so the old process may be
alive beside the next run's agent (`Lingering`, `AgentExits`; the bound `MayLinger` switches
this off where no property looks at agents). What it still asks is refused as of a run that is
over.

A kill falls between two macrotasks (`Crash`) or, in one place, inside one: `resolve()` commits
the decision, and `decide()` commits the tally and the state of the run a microtask later
(`gateway.ts:844-859`); a process that dies between the two leaves a decision that nobody counted
and no agent heard of (`KilledInResolve`). The other macrotasks with more than one transaction
are: the end of a run (`finish()`, then its drained questions one by one, then the expiry of what
is undecided, `gateway.ts:443-463, 659-665`), a creation (the insert, then the pump), a cancel
(the state, then `finish()` of a queued run) and `shutdown()`. A kill inside these is not a step
of its own. What it would leave is a prefix of their transactions: a run that is over with
questions that are still `pending` or `deciding`, a run that is queued although a slot is free, a
run that is `cancelling`; `recover()` ends the last, pumps for the second, and nothing looks at the
first again but retention.

What a client is told of these records is `LifeOf`: a run in flight works while the daemon
lives, and is lost when it is down. Under this mapping, with `launched` as the runs that were
given away, `Gateway` implements `RunLifecycle` (`LivesAsTold`).

### EventStream

The events of one session are positions in `log`. A stream is one response of the events
route: `cursor` is its `seq`, `fetched` the end of the page in `buffered`, `phase` whether
it is open, ended by the server, or closed. `sinks`, `turn`, `sent`, `timer` are the
pacer's window of the session, `sent` as ages in ticks. `pump()` is a loop that does not
give up the process; its attempts are single steps (`Attempt`), during which nothing else
of the daemon moves, and a wake-up queued behind a commit is `woken`: several events may be
appended before the streams hear of the first. A reader is `stream()` of the client with
what is on its way to it (`wire`, `eof`); it is another process and reads at its own pace.
`got`, `start`, `recent` and `served` are history for the properties.

`EventStream` is the view of one session from behind the log: that at most one run of
a session is active is `OneActiveRun` of `Gateway`, that decisions may follow a
`run.completed` follows from `EndTask` there (`LateDecision`).

### DaemonLock

One file-system call is one action, because two starts are two processes. `pc` is the next
call of each, `seen` the pid it read, `lock` the process whose file `daemon.lock` is,
`written` those that have filled in the file they created, `info` the pid in `daemon.json`.
Nothing keeps starts apart: any number of them may be between any two calls. `stolen` is
history: has a start unlinked a file other than the one whose pid it had read? Pids are not
reused.

### Providers

`Provider` has the promises and callbacks of one run as `execute()` relies on them, and no
agent: `start`, `outcome` (of `done`), `started`, `aborted`, `verdict` of each question and
what the agent was `told`. Two of its variables are about the agent itself, `work` and
`report`, so that `Vouched` can say when a record is true. Its actions are relations between a
state and the next, so that an adapter may do several things in one macrotask.

`CodexRun` is `CodexProvider.start()` with its `CodexRun` and `CodexRpc`: `step` is the call
that `begin()` awaits, `pending` the calls the RPC waits for, `owed` those the child has not
answered, `wire` what the child wrote and the daemon has not read, `child` the process, `link`
the connection. A request with several parts (`item/permissions/requestApproval`) puts one
operation after another to the gateway; `request[r]` says how far it is and what was granted.
The gateway decides a part (`GatewayDecides`) or fails to (`GatewayRejects`): then the catch of
`onRequest()` declines the whole request with `{ decision: "decline" }`, whatever kind it is of, and
does not ask whether it was withdrawn meanwhile, which may be so from its second part on.
`scout` is the second process that `runtime()` starts to learn what this Codex can do.
`ClaudeRun` is the message stream of the SDK (`feed`) against the PreToolUse hooks, the
interrupt and the end of the SDK's process. `FakeRun` is the scripted agent the daemon offers
for trials; it lives in the daemon and runs until it must wait.

`Gateway` sees the same promises as `ProviderStarted`, `StartReturns`, `Done` and `TaskFails`,
in any order and with any outcome; `Contract` is why it need not look further.

### Store and Output

`disk` is the log in the file, `view` what this connection reads, `frames` the open
transactions with the callbacks each has collected, `queue` the microtasks. A `throw` is
`raised` and unwinds one frame per step; `"undone"` is a failure at which SQLite has rolled
the whole transaction back by itself, so that the rollback of `tx()` fails in turn. `Output`
adds one run: `given` is what its agent said, byte by byte with a mark where a character
begins, `rest` what the running `append()` has not taken, `text` and `armed` the batcher's
buffer and timer, `stage` how far the end of `execute()` is. `OtherEmit` ... `OtherUnwind` are
the rest of the process, which writes to the same store. An error nobody handles (the timer's
write and the write that ends the run both fail) is `uncaught`: the process shuts down and its
successor recovers (`Recover`). A daemon that starts does nothing else with its runs before that
(daemon.ts:133), so `"recover"` is one of the stages at which the process is `Busy`.

### Server

A request goes through stages: `Arrive` (the lock-out), `Lookup` (the key is read),
`Unauthorized` or its handler, and for a held response or a stream what follows. Handlers of
one thread do not interleave; the command line is another process, so its read and its write
of a key (`CliReads`, `CliRevokes`) may fall between the read and the write of
`authenticate()` (`Lookup`, then the handler's `Touched`). `failures` holds ages, a `Tick` is a
part of the window, `DayPasses` what a day does to the table of commands, `Retention` the
sweep. What the requests ask for is given (`Forms`): a retry is a second request like the
first.

### Policy

One operation is judged at a time, against a file system that does not change meanwhile. What is
on disk are nodes, what names it are paths: `Lstat` is the entry a path finds, `Real` what the
system opens for it. A path is what `path.resolve()` leaves of a name, so it holds no `..`: each
has taken back the name before it, be that a directory or a link. `Canonical` is
`canonicalPath()` look by look and call by call (`Looked`, `CanonicalPath`): the text of a link
is resolved in the same way, by name, against the directory as it is spelled (`Relinked`), and
what is not there is put below what a call for its parent finds. So a name in an operation
(`Names`) has two parts, its path, which is all the code has, and the node that is opened when it
is used as it was written. These agree for a *straight* name (`StraightName`): no `..` of it, nor
of a link's text on the way, takes back a link. What the properties say of a file, they say of
the node that is really opened, and for straight names and links; that `canonicalPath()` finds
just that for them, through any number of links, is proved (`CanonicalFinds`). A glob is the set
of nodes it matches. `ToolToOperation` is the reading of Claude's tool calls, `RefuseWorkspaceRoot`
the enrolment, `ContainRefuses` the check that no list can lift, `NextSearch`, `ReadDir` and
`Visit` the walk of `reachableFiles`, one directory entry at a time in any order, `GitAnswers`
and `GitFails` the question to git, `Decide` the three lists. The definitions under
"properties" (`Meets`, `Opens`, `ToolReads`) say independently of the walk what the tool will
read: the least set of directories that holds the start and what is met there.

**Composition.** `Gateway` takes for granted that one daemon at a time works on its records
(`Restart` needs `daemon = "down"`). That is what `DaemonLock` is about, with the exception
`OneOwner` names. It takes a transaction as one step and its callbacks as part of it: `Store` and
`ListenersFollow`. It takes any promise of a provider: `Providers` and `Contract`. It takes any
verdict of a decider: `Policy` is about which. The event that `Output` writes is one position in
the log of `EventStream`, whose streams `Server` ends when their key is revoked.

## 4. The runs

| run | instance | distinct states | question |
|---|---|---|---|
| `dispatch` | 3 runs, 2 sessions, 1 slot, 2 queue places, all faults | 313 000 | do the records tell the promised life of each run, is the dispatcher safe and fair? |
| `two_runs` | 2 runs, 2 sessions, 2 slots, 2 questions | 960 000 | do two runs stay out of each other's way, old agents included, and is a question answered once, counted once and never too late? |
| `liveness` | 2 runs, 2 sessions, 1 slot, 1 question | 96 000 | do slots come back, does the queue drain, is every question answered; what can one agent, claude, withhold? |
| `pacing` | 2 runs, 4 events, 2 readers (one with `all=true`), 2 deliveries in 2 ticks | 999 000 | are streams never too fast, never stuck, and served in turns? |
| `resume` | 2 runs, 4 events, 1 reader who begins anywhere, 2 streams, 2 faults | 135 000 | is nothing missed, no stream slot lost, and does a reader get to the end? |
| `one_start` | 4 processes that may overlap, 2 deaths | 22 000 | one owner of the directory, whoever starts, stops or dies and when |
| `providers` | one run of each adapter, 1 request (of up to 3 parts), 2 unread messages, scripts of 2 steps | 272 000 | does each adapter keep what the gateway relies on, grant no more than it was told, and come to an end? |
| `output` | 5 bytes in batches of 3, transactions two deep, 2 lives of the process | 603 000 | is the log what the agent said, do listeners follow it, is no success short of text? |
| `server` | 4 scenes of 2 to 4 requests, 2 keys, 2 addresses, a lock after 2 failures | 187 000 | are retries safe, slots exact, is `Retry-After` kept, do streams of revoked keys end? |
| `policy` | a tree of 43 nodes with 6 further paths, 7 207 cases of an operation, lists and a limit | 158 000 | does nothing pass that should not, is a refusal for a cause, does every judgement end? |

The bounds. Three runs are the fewest with one at work and two in the queue, which is what
order, a full queue and a pump that skips a run need; two sessions let two of them be of
one conversation and the third of another. One slot makes slots scarce (`dispatch`,
`liveness`), two let runs work at once (`two_runs`). Two questions are the fewest that can
be parked together, in one run or one in each of two (`two_runs`). Crashes,
restarts, cancels, prunes and shutdowns are not bounded: every one may happen in every
state. Sessions, workspaces and operations are model values under symmetry where no
liveness is checked. Deadlock is checked for `Gateway`; `DaemonLock` may stop, when every process
is gone. `one_start` needs four processes so that two may die and a third be refused by a
fourth; three that overlap are the fewest with which one start can unlink another's file.
`MayLinger` is on where agents matter (`two_runs`, `pruning`); elsewhere an agent told to exit is
gone at once, on which no property of `dispatch` or `liveness` depends.

For `EventStream`, an allowance of two and pages of two stand for the hundred of each: a run
with its own events and another's exceeds both, so that pages end, allowances run out and
timers must fire. Two events of two runs each are the fewest with something of another run to
skip, and a third of the first run can be a decision that comes late. Two stream records under
a limit of two let a lost connection still count while the reader asks again. A reader may begin
anywhere (`MayResume`), at the end of its run and behind it too.

For `Providers`, one request is enough because requests do not share state: what they share is the
turn and its end, and the parts of one request wait for each other. Its three demands are one with
two things to judge and one the agent forbids itself, one with the network, and one that cannot be
judged. Two unread messages let a message overtake the exit of the child and a result be followed
by an error. For `Output`, characters of one and two bytes in batches of three fill a batch
exactly and straddle its end; two nested transactions are the fewest in which a callback must be
handed to a parent. For `Server`, the scenes are a command from two keys; a command, its retry and
a changed command; two admins who revoke one another beside a stream; and strangers at the address
of a caller. Two failures lock an address, so that a third is refused. For `Policy`, the tree has
hidden, ignored and unreadable things, `.git` with a credential, a link to a file, links to
directories, three that lead back, one that leads out, one to nothing and one to itself; names
that climb with `..` from a directory reached by a link, and link texts that do, are among the
cases, and `TextAssumption` checks the tables against the texts. `MaxHops` is the code's;
`MaxSteps` bounds the calls `canonicalPath()` makes of itself, far above what the tree needs. The
limits 3 and 4 are met exactly by some searches and missed by others.

A property that is a conjunction of named parts (`SlotsKept`, `QuestionsKept`, `WorkGoesOn`,
`Paced`, `TextIntact`, `EndIsTrue`, `Idempotent`, `PermissionIsSafe`, `Contained`) has a mutant for
each part. `LivesAsTold` has one for each of an outcome overwritten, a run that recovery overlooks, and a
session left open after an unknown outcome. `TypeOK` of the other modules is left to whoever changes them: added to the
`INVARIANTS` of their cfg, it holds.

**Fairness** (`Fairness` in `Gateway`): timers fire; `provider.start` returns, since codex
puts a time-out on each of its calls (`providers/codex/rpc.ts:200`) and claude awaits
nothing of its agent there; a decider answers (the built-in one waits for
git only, `decide/ignored.ts`; an extension's must); a shutdown ends, if only by the hard exit of
`cli/shutdown.ts` after ten seconds. It is weak fairness of each action, since nothing
disables a timer again and again. `handle.interrupt()` returns (`InterruptsReturn`) for the
sessions whose agent is codex, which puts ten seconds on the call
(`providers/codex/index.ts:716`). Of claude's, which has no limit (`claude/index.ts:554`), nothing is
assumed: one of the two sessions of `liveness` is claude's, and `WorkGoesOn` says that a slot
comes back or its worker is waiting for such an interrupt (`AtClaudesMercy`), and that all slots
come back and the queue drains if none waits for ever (`SlotsComeBack`).
Nothing is assumed of agents (they may hang), people (a question may stay open until its
deadline), or whoever restarts the daemon. `liveness` excludes failing
storage, with which a slot really can be lost until the daemon stops: `cancel()` and the
time limit return early for a run that is over (`gateway.ts:927`).

In `Providers` timers fire, a signal that cannot be caught kills, an exit is noticed, the
gateway's grace ends and a script runs on; nothing is assumed of what Codex or Claude say or
do, nor of when the gateway decides a question of theirs. In `Output`
the process goes on with what it has begun, and a timer that is due and a microtask get
their turn: strong fairness, because other work may hold the process when they are due, but
not for ever. In `Server` handlers
end, the command line is not stopped between its read and its write, and a heartbeat comes
while its stream is open: strong fairness, because other requests may hold the thread whenever
the timer is due, but not for ever. In `Policy` the daemon goes on with a judgement it has begun,
and git ends: that is assumed of git, for the code puts no limit on it
(`decide/ignored.ts:17`), and a git that hangs leaves its question open.

### Runs that end in a violation

Each checks a statement of the repository that the code does not keep.

| run | statement | what happens |
|---|---|---|
| `pruning` | prune is safe next to a running gateway (cli/help.ts:74) | a run is cancelled while its provider starts, its session is pruned from the command line, the time limit of the removed run rejects in `cancel()`, and the handler of unhandled rejections stops the daemon |
| `revocation` | revocation takes effect on the next request (docs/security.md:68) | a request has read its key to note when it was used; the command line revokes the key in its own process; the request writes back the record it read, and the key is good again |

## 5. What is proved

Every theorem is about the specification a run checks, for all values of its constants that
satisfy the named assumption. `PROJECT.json` lists them with the property each states.

| module | assumptions | for any | theorems |
|---|---|---|---|
| `GatewaySafety` | `GatewayAssumption` | runs, sessions, workspaces, slots, a finite set of operations | `TypeOK`, `OneActiveRun`, `ActiveInOpenSession`, `UnknownBlocksSession`, `InFlightHasWorker`, `SlotsKept` in every state; `NeverReplayed`, `FirstComeFirstServed`, `TerminalIsFinal` in every step; the refinement `LivesAsTold` |
| `GatewayQuestions` | the same | the same | `OneAgent`, `QuestionsKept` in every state; `NoLateAllow`, `DecisionIsFinal` |
| `DaemonLockProofs` | `LockAssumption` | processes and deaths | `OneOwner`, `OwnerIsFindable` |
| `ProvidersProofs` | `ProvidersAssumption` | scripts, a finite set of requests, unread messages | the refinement `Contract` of each adapter; `WithdrawnUngranted`, `GrantsExact` |
| `EventStreamProofs` | `StreamAssumption` | readers, runs, events, lost connections, allowance, window, page, a finite set of streams | `NothingMissed`, `Paced`, `SlotsCounted` in every state; `TakeTurns` |
| `OutputProofs` | `LimitAssumption` | chunks of text, limit of a batch, depth of transactions, restarts | `TextIntact`, `EndIsTrue`; the refinement of `Journal` but for its fairness (`ListenersFollowSafely`) |
| `ServerProofs` | `FormAssumption` | a finite set of requests, keys, addresses, limit, window | `RetryAfterSuffices`, `SlotsExact`, `Idempotent` |
| `PolicyProofs` | `TreeAssumption`, `SystemAssumption`, `StraightAssumption`, `CaseAssumption` | finite trees, paths, links, workspaces, operations, rule lists and limits | `Contained` (`ReachStays`, `NoRuleLifts`), `PermissionIsSafe`, `RefusedForCause` |

What the assumptions ask beyond ranges and finiteness: `ProvidersAssumption`, that each
permission of a script is a question of its own; `LimitAssumption`, that a chunk is not empty,
which `append()` sees to, and that a character fits in a batch; `TreeAssumption`, that `Above` is
the chain of directories a node lies in, without a cycle, and that devices are files;
`SystemAssumption`, how a file system works: a path finds the entry of its last name in the
directory the rest really leads to, a node is its own real path, a link leads to what is no link,
and neither is what `canonicalPath()` makes of a path; `StraightAssumption`, that from a straight
path the text of a link, resolved by name, is a straight path to where the link leads;
`CaseAssumption`, that a command searches only directories it names or the one it runs in, which
is how `decide/recursive.ts` builds a search. TLC evaluates each of them in the runs.

**The argument for the engine.** None of the four invariants is inductive. A run that ends
as unknown blocks *its session*, so the proof must know that a run has one
(`SessionKnown`); a worker that ends must not be one of a run that is still queued
(`WorkersBegun`), nor may a timer belong to one (`DeadlinesOwned`); a run that was once
launched is never back in the queue (`LaunchedBegun`), which is what makes `NeverReplayed`
hold through crash and recovery; and an answer to a question must not wake a run that
never began (`QuestionsBegun`). `Inv` is the conjunction. Rather than proving each conjunct against each of
some thirty actions, every step is shown to be of one of a few kinds (`SafeStep`):

- `Calm`: run records move within the states of a run at work, or a queued run is
  cancelled; nothing starts, no worker ends. One lemma (`CalmPreserves`) covers these.
- `Pumping`: the step ends in the pump, on intermediate run records in which what was over or
  queued is unchanged. One lemma (`PumpPreserves`) says what the pump keeps.
- The few others (removal of a session, the end of a shutdown, a restart) have lemmas of
  their own.

The action properties and the slots then use only that a step is `Quiet` or
`Pumping`. For the slots, the pump's choice is a matter of rank: the rank of a run is the
number of older startable runs, ranks are distinct, so as many runs have a rank below the
number of free slots as there are, up to that number (`RankCount`, by an injection into an
interval of numbers). Hence the pump fills the slots, no more and no less.

For the refinement every kind of step also says what it may do to one run (`Moves`) and to all
of them (`Lived`). What a step that pumps does is what was prepared before the pump and then the
pump's own choice (`Prepared`, `PumpLived`). That a conversation is removed as a whole, and takes
no run while one of it is unknown, needs the last conjunct of `Inv`: a run is removed exactly when
its session is (`SessionsKept`). Then each move of a record is a move of its life (`MovesTold`),
and `TerminalIsFinal` is what it says of a run that is over. That a run is given away once is in
`RunLifecycle` a matter of records; `NeverReplayed` says it of the worker map.

**The argument for questions and agents.** `OneAgent` holds because an agent that is alive is
owned by a worker (`WorkersAlive`), or its run is unknown or was given up (`AgentStates`), and a
session that holds an unknown run takes no other, so there is one of these at most
(`OneUnknown`); an agent that was told to exit is one of a run that is over (`ClosingOver`). For the questions, the state of the record and what `decide()` awaits determine
each other (`WaitingOpen`, `ParkedIsPending`) although retention may remove a record while its
question is open (`RemovedTogether`) and a crash forgets whom to answer (`DownIdle`). `TallyMatches` then
needs that a drain counts exactly those it decides: the count of a run is a cardinality, and a
drain moves disjoint sets of operations. Only a kill in `resolve()` leaves a decision unheard, and
it takes the daemon down with a run that recovery ends as unknown, so that none of that run is
decided after it (`UnheardIsLost`); every other step leaves what was heard heard (`Heard`).

**The argument for the adapters.** One invariant for each adapter, joined in `ProviderInv`. Its core is
what the wire may still carry: an unread completion is the one the agent reported, a request is
asked once, and a question that has not been read was not put to the gateway (`CodexWire`,
`ClaudeFeed`, `FakeQuestions`). For Codex, `CodexCalls` relates the call that `begin()` awaits to
what the child may have and may have done, and `CodexRequests` says of a request half judged what
was granted so far. With these every step of an adapter is a step of `Provider`: it ends the
promise as `Vouched` allows, or only decides, or only tells.

**The argument for streams.** For `NothingMissed`, `Follower` says what a reader has got, the
events of its own between where it began and the last it saw, and that what is on the wire to it
continues this without a gap up to the place where its stream is (`OnTheWire`); a reader whose
connection was lost asks again from what it has. For `Paced`, the window `sent` is the
deliveries of the last second and perhaps some older ones in front (`Remembers`), and while the
pump goes round, a stream with something to send is still to be tried (`YetToTry`). `TakeTurns`
adds one fact about the ring of sinks, in arithmetic modulo its length: the stream served last
is the last to be tried again (`LastInRound`). A stream that joins or leaves renumbers the ring,
and turns are counted anew from there.

**The argument for output.** `StoreInv` says that each savepoint is the one around it and what
happened since then, so that a rollback undoes exactly that and the callbacks left are those of
what stayed (`CallbacksMatch`), and that what was told and is queued to be told is the log since
the start (`QueueMatches`). `RunInv` says that log, buffer and what `append()` still holds are
together what the agent said as long as the run may be a success (`NothingLost`), and that every
cut between batches is one between characters (`WholeCharacters`). What a list of events comes to
as text is a fold; the few facts about it that are needed are proved by least counterexample
(`Smallest`), since the induction theorems of the library are out of the provers' reach.

**The argument for requests.** A run of today that was started under a key's command has a record
(`TodayRecorded`), every record is of a run with the same command and body (`RecordsTrue`); hence
a retry finds its run. The slots of a key are the responses held for it because handlers do not
interleave: who has read a key has yet to answer (`SlotsInv`). An address that was promised a time has
as many failures as the limit, and the oldest leaves the window when that time is over (`LockInv`).

**The argument for the lock.** Until a start unlinks a file it never read, whoever is past
the creation of the lock and has not removed it is the one whose file it is (`HolderHasLock`),
so there is one owner. This is inductive with little else: a start comes to unlink only after it saw
that the pid it read is of a dead process (`StaleIsDead`), a process that died does not start again
(`SeenStarted`), so if the file is still that one no living process holds it; and it is created only
when there is none. That starts overlap does not matter, then, but for the one call that
goes by name.

**The argument for containment.** This needs no induction over the tree. Its base is that
`canonicalPath()` finds, for a straight path, the node the system opens or nothing
(`CanonicalFinds`), by induction on the number of calls and looks (`CallFinds`): a link is
followed along a straight path, and below what is missing lies what is missing. The invariant then
says that once a directory is enrolled no protected place lies in it or above it (`Enrolled`), that
a judgement under way was not refused by containment (`Passed`), that a search of a straight path
still to be walked starts inside, and that stack, entries and files of its walk lie inside
(`Confined`). A step of the walk goes from a directory to what lies directly in it (`ChildInside`) or
along a link to what `canonicalPath()` makes of it, which was looked at first (`EnterInside`). That
a search starts inside is where enrolment, containment and the reading of a command meet
(`SearchesInside`, `StraightStart`). For a crooked path or link this says nothing, and
section 6 says why it cannot.

**The argument for permissions and refusals.** What the tool will read is a least fixed point
(`Opens`), built in as many rounds as there are directories. That these suffice is a pigeonhole
argument: a round that adds nothing ends it, and each other adds one (`OpensClosed`); that no
smaller set will do is by least counterexample (`OpensWithin`). The walk keeps a set of directories
done such that what the tool meets in them is found, on the stack or among the entries
(`WalkCovers`), as long as the links met there are straight; when it comes to its end that set is
closed, so it contains `Opens` (`WalkFindsAll`), and each straight search of an operation was judged by all that its tool reads
(`HasCome`). For refusals the other direction: with straight names a refusal by containment is one of
what is opened (`ContainCauses`), what the walk met the tool would meet
(`WalkTagged`), and it counts no file more often than there are ways to it, one directly and one
through each link (`CountBounded`). This bound was found by the attempt to prove the property: a
file in a directory that links lead to is counted once for each of them, so `SearchCause` could
not be the number of files alone.

**Only model-checked.** Liveness, since the prover has no rules for `ENABLED`: `WorkGoesOn` and
`EveryQuestionAnswered` of the engine, `StartSettles`, `CancelEnds` and `ChildStops` of the
adapters, `ReaderReturns`, `StreamsEnd`, `TextGetsOut`, `Judged`, and in `ListenersFollow` that
listeners are told in the end. The type invariants of the modules other than
`Gateway` are parts of the inductive invariants, as far as these need them.

## 6. What is not modelled

- The event log as data, usage figures, summaries, native session ids, labels, models and
  prompts: no guard of the engine reads them. `cancellationRequested` only marks an event.
- `steer()`: changes no record but the event log.
- Decisions of earlier runs handed to the decider: a decider may answer anything anyway.
- An agent name no provider answers to: refused at creation; it would end like a removed workspace.
- A reused pid, and an empty `daemon.lock` left by a kill between create and write, other than that
  the next start refuses (`ReadLock`): the code leaves that to the operator.
- The 400 answers of the events route, the pause between two requests of the client as a
  length of time, `reconnect: false` and abort signals.
- Of the adapters: `steer()`, progress notifications, models and efforts, the private home of Codex.
  Which shell words a command consists of (`codex/shell.ts`) is data, as in `Policy`.
- Of the store: `migrate()`, the generic reads and writes of records.
- Of the server: routes that only call the gateway, the validation of bodies, `create()` of keys, the
  last use of a key beyond "within a minute".
- Of the policy: what is read out of the text of a command (`decide/command.ts`, `recursive.ts`,
  `filter.ts`, `sed.ts`) comes with the operation, since no bounded set of texts would say much about
  a parser; globs as texts; case folding; a tree that changes during a judgement (which the code
  does not guard against either); that a workspace is enrolled once (`addWorkspace`). A WebSearch
  is a WebFetch with its name. An absolute link text is a path of the model, so it holds no `..`.
- `config.ts`, extensions' loading, `doctor`, `init`: they read once and keep no state.
- Pure input and output: service files, the tunnel, argument parsing, printing, detection.

Questions and failing storage are not checked in one run: `two_runs` with
`StorageMayFail = TRUE` has too many states for a short run. With one run and one slot only
(`NumRuns = 1`, `MaxConcurrent = 1`) it has a few thousand, and its properties hold.

**Disagreements without a run.** Met while modelling. The first four are formulas that the named cfg
refutes; the others are visible in the actions named:

- docs/api.md:110: an agent that does not stop within five seconds is stopped. `cancel()` awaits
  the agent's `interrupt()` before it sets the timer; claude's has no limit
  (claude/index.ts:554), and if it does not return the agent is never stopped
  (`CancelEnds` of `Gateway`, in `Liveness.cfg`, where one session is claude's; gateway.ts:939).
- docs/security.md:62 and gateway.ts:86: an unconfirmed outcome is `outcome_unknown`, never a
  guess. A failed write of streamed output ends the run as `failed` while its agent goes on
  (`NoGuess`, in `Dispatch.cfg`; gateway.ts:542).
- daemon.ts:227: the lock makes this process the one. While a daemon stops, two starts can each
  unlink the lock they take for stale, the second one the first one's (`OneOwner`
  without its `~stolen`, in `OneStart.cfg`; daemon.ts:244).
- docs/api.md:94: the stream always ends with the run's own `run.completed`. A reader that resumes
  with the seq of `run.completed`, the last one it had, gets an empty stream that ends; the client
  waits and asks again, for ever (`ReaderReturns` without its `EndIsAhead`, in `Resume.cfg`;
  client/index.ts:357).
- docs/security.md:20-26 and core/paths.ts:4-9 speak of real paths, of what the file system would
  touch. `canonicalPath()` lets `path.resolve()` take every `..` back by name, in what was declared
  and in a link's text (paths.ts:11, 22), where the system first follows what came before it; behind
  a link to a directory the two may differ. Hence the properties of `Policy` speak of straight names
  and links, and the runs have crooked ones among their cases.
- The catch of codex's `onRequest()` declines a request that may have been withdrawn while an earlier
  part of it was judged (`GatewayRejects`, the exception in `WithdrawnUngranted`;
  codex/index.ts:635).
- A decision of a person that is on record when the process dies in the next microtask is missing
  from the tally of its run (`KilledInResolve`, the exception in `QuestionsKept`; gateway.ts:844).
- core/reach.ts:13: "More files than this and a search is refused"; it is refused at exactly that many
  (`Truncates`; reach.ts:106).
- The process that tells what Codex can do is left to itself when it does not answer
  (`scout = "left"`; codex/index.ts:105).
- Two questions are parked and one is answered: the run shows `running` while the other waits
  (`Unpark`; gateway.ts:857, docs/api.md:75).
- A `started` event after a cancel puts `cancelling` back to `running` (`ProviderStarted`;
  gateway.ts:561, docs/api.md:50).
- While `provider.start` is pending the grace timer has no handle to close: the run is `cancelled`, and
  the agent lives until the start returns (`GraceExpires`; gateway.ts:944, docs/api.md:110).
- Questions refused by the end of a run are decided, and announced, after its `run.completed`
  (`EndTask`; gateway.ts:747, docs/api.md:95).
- Retention removes runs together with their events, so a reader of them is told 404 and never the
  410 of docs/api.md:105 (`Refused`; app.ts:517, 540).

## 7. Plan

The components a model can say something about are modelled, and each safety property that a run
checks is a theorem. What is left:

1. **`migrate()`** of the store, a crash in the middle of it included.
2. **The daemon composed**: `DaemonLock` with `shutdownOnce`, the hard exit and recovery.
