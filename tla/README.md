# IM.codes: models and proofs

TLA+ models of the parts of IM.codes that carry a chat message from the browser
to a coding agent, that supervise and audit what the agent does with it, that let
several agents discuss, that show the user the files they changed, and that copy a
group of sessions; the TLC runs
that check the models on small instances; and TLAPS proofs of their invariants and
refinements. Paths below are relative to the repository.

    tlc -config TransportSession.cfg MCTransportSession      # one run
    tlapm TransportSession_proofs.tla                        # one proof module

## 1. The system

A **browser** (`web/`) talks over a WebSocket to a **server** (`server/`), one
`WsBridge` object per daemon. The bridge relays to the **daemon**
(`src/`), a Node process on the developer's machine, which drives coding agents:
as **transport sessions** (an SDK or JSON-RPC provider with callbacks) or as
**process sessions** (a program in a tmux pane). Each side is one JavaScript
thread, so the concurrency is that of awaits, timers, callbacks, connections that
come and go, worker threads, and processes that restart.

| Component | State | Operations | Interacts with |
|---|---|---|---|
| Transport session runtime, `src/agent/transport-session-runtime.ts` | status, `_sending`, active turn, pending queue, provider session id | send, dispatch a turn, onDelta/onComplete/onError, cancel, kill, undo | provider (calls, callbacks), session manager (status callback) |
| Session manager, `src/agent/session-manager.ts` | runtime map, recovery set and timestamps | launch, stop, restore, error recovery, drain the resend queue | runtime, resend queue, command handler |
| Resend queue, `src/daemon/transport-resend-queue.ts` | per session, at most `MAX_RESEND_ENTRIES`, with an age limit | enqueue, drain, clear | session manager, command handler |
| Command handler, `src/daemon/command-handler.ts` | dedup of commandIds, send mutex, `pendingSessionRelaunches` | session.send, /stop, /clear, restart, cancel, undo, and some hundred other messages | all of the daemon |
| Server bridge, `server/src/ws/bridge.ts` | daemon socket, authentication, grace and auth timers, inflight commands, seen acks, message queue; terminal, file and preview routing | connection handling, relay, ack timeout, grace expiry, housekeeping | daemon link, browsers, database |
| Daemon link and ack outbox, `src/daemon/server-link.ts`, `src/daemon/ack-outbox.ts` | socket, backoff, watchdogs; outbox file | connect, trySend, enqueue, tombstone, flush on reconnect | bridge, command handler |
| P2P orchestrator, `src/daemon/p2p-orchestrator.ts` | runs, rounds, hops, idle waiters, helpers, deadlines | start, cancel, resume, dispatch a hop, time out, summarise | sessions' idle events, server link, files |
| Supervision automation, `src/daemon/supervision-automation.ts`, `-broker.ts` | active task run, queued intents, rework count | register intent, decide when a session goes idle, audit, continue | timeline events, broker runtime, P2P |
| Upgrade coordination, `server/src/ws/daemon-upgrade-*.ts` | one upgrade per daemon: delivered, queued, attempts, timers | request, flush on connect, auto send, resume after publication, clear | bridge, npm registry |
| Preview, directory and git-status workers, `src/daemon/file-preview-read-*.ts`, `fs-*-pool.ts` | slots with generations, queue, active jobs, fan-out, cache | submit, admit, dispatch, worker result/failure/timeout, restart, shutdown | worker threads, file system |
| Hook server and router, `src/daemon/hook-server.ts`, `src/router/` | port, rate window; a queue per busy target that nothing fills | agent-to-agent send | sessions |
| Session group clone, `src/daemon/session-group-clone.ts` | operations by key, created sessions | clone with rollback, cancel | session manager, server |
| Timeline, `src/daemon/timeline-*.ts` | event log, sequence numbers, projection database, worker pools | emit, append, project, read back | everything that reports to a browser |
| Terminal streaming, relays, cron, tmux drivers, session store, context memory, autofix, server routes, web client | see PROJECT.json | | |

### What is hard in it

- **Several runtimes of one session.** Recovery, relaunch and restore each stop
  and launch under a lock of their own, while handlers hold runtimes they read
  before an await, and provider events carry no turn id.
- **Several places where a message waits.** The pending queue of a runtime, its
  active turn, the resend queue, the bridge's inflight table: a message must be in
  one of them, or its sender must hear of it.
- **Several retries of one command.** The ack timer, the replay after a reconnect,
  the outbox, and the browser after command.failed all send again what may
  already have been accepted, possibly by a daemon that has since restarted.
- **Several connections of one daemon.** A new socket replaces the bridge's while
  the old one's auth handler is still waiting for the database.
- **Waiting for something that may not come.** Parked commands, sends behind a
  relaunch, commands whose daemon hangs in its handshake, an audit that is cancelled
  in its own view, a participant that never writes its file, a worker thread that
  never answers.
- **Continuations that outlive their cause.** An evaluation comes back for a task
  that was stopped, a dispatch for a run that was cancelled, a `terminate()` for a
  pool that was shut down, a snapshot for a file that has been written since.

### What makes each part correct

- Transport session: an idle runtime has nothing left to do; a busy one has
  something that will end its turn; messages are routed to a runtime in service;
  a message waits in one place and leaves it accountably; sends that wait for a
  relaunch are released.
- Command acknowledgement: the browser hears a consistent story of each command
  (`CommandPromise`); no command waits for nothing; every dispatched command is
  settled unless the daemon reconnects for ever; "offline" is withdrawn when the daemon is
  back.
- Supervision: a supervised run always has something that will drive it on; an idle
  task is decided; an intent waits with its message; with supervision off nothing is left
  that could wake, but for a send that read the settings before.
- P2P orchestrator: no summary before everyone is heard, no cycle before the last
  one was executed; a cancel reaches everyone at work and stays; a run ends and
  leaves the table of active runs.
- Worker pool: a job is settled once, with its own answer, whatever its thread does;
  no job waits for a pool in which nothing is due.
- File preview: a read is answered once, and never with contents older than a write
  acknowledged before it was asked for.
- Session group clone: one owner per name, a group that is whole when it is reported,
  no result after a cancel; what a rollback could not undo is on its list.
- Upgrade coordination: at most one upgrade in progress for a daemon, no attempt
  before publication, retries bounded, a newer target supersedes.

## 2. Plan

| # | Module | Of | State |
|---|---|---|---|
| 1 | `TransportSession` | runtime, session manager, resend queue, send handler | done, proved |
| 2 | `CommandPromise` | abstract: what a browser may be told of a command | done |
| 3 | `CommandAck` | bridge, connections, receipt, outbox; implements 2 | done, safety proved |
| 4 | `CommandAckPromise_proofs` | 3 implements 2, for every instance | proved |
| 5 | `Supervision` | the automation of one session, its evaluations and audits | done, safety proved |
| 6 | `P2pDiscussion` | abstract: the phases of a discussion | done |
| 7 | `P2pRun` | chain, dispatches and cancel of a P2P run; implements 6 | done, proved |
| 8 | `PoolPromise` | abstract: what dispatch promises its callers | done |
| 9 | `PreviewPool` | slots, queue, threads and timers of the preview pool; implements 8 | done, proved |
| 10 | `FreshReads` | abstract: what reading a file promises | done |
| 11 | `FilePreview` | fs.read and fs.write of one file; implements 10 | done, proved |
| 12 | `CloneTransaction` | abstract: what cloning a group promises | done |
| 13 | `SessionClone` | the clone command and its rollback; implements 12 | done, proved |
| 14 | `DaemonUpgrade` | coordinator and publication gate, composed with the connections of 3 | next |
| 15 | `Conversation` | composes 1 with a history of /clear and /stop | later |
| 16 | `FsPools` | `fs-list-pool.ts` and `fs-git-status-pool.ts` against 8 | later |

The order follows what a user loses when it goes wrong: first the message, then
the answer about it, then the agents' long work, then what the user is shown of it.
Each component is checked on the smallest instance in which two actors of every kind
meet; an abstract specification is stated where the code makes a promise to a caller
that can be said without its machinery.

## 3. TransportSession

One session of one daemon life. A variable is a field or module-level structure:

| Variable | Code |
|---|---|
| `rt` | the `TransportSessionRuntime` objects ever built: life, `_status`, `_sending`, `_activeDispatchEntries`, `_pendingMessages` |
| `registered` | `transportRuntimes.get(name)` |
| `dispatches` | async halves of `_dispatchTurn` not settled: context preparation, then `provider.send` |
| `turn` | the turn the provider is running |
| `resend` | the session's resend queue |
| `launch` | the three code paths that stop and launch: recovery (`transportErrorRecoveryInFlight`), relaunch (`pendingSessionRelaunches`), restore |
| `restarts` | recoveries inside the window |
| `handler` | where each `handleSend` stands: waiting for the relaunch, holding a captured runtime, holding the mutex |
| `told` | history: messages whose drop the user was told of, or asked for |

An action is what the code does between two awaits. `StopAndLaunch` is the start
of every stop: the runtime leaves the map and is unsubscribed at once, `kill()`
then awaits `endSession`. `KillReturns` and `KillThrows` are its two ends,
`LaunchSucceeds` and `LaunchFails` those of the launch, whose success also drains
the resend queue (the `await` between entries yields only microtasks, so the
drain is one action). `FailTurn` is the status "error" with the callback it calls
synchronously, in which recovery starts. A second launcher can register its
runtime over the first's; the model keeps both alive, as the code does.

`ProviderFatalError` may come without a turn: a provider reports a lost connection
to all its sessions. `DispatchRejects` ends whichever turn is running, since a
rejection is not tied to the turn it belongs to.

Not modelled: context preparation itself, approvals, editing queued text, model and
effort commands, closing a session or its project, the branch of `handleSend` for a
session without a record, the rollback in `launchTransportSession` (what it guards
does not throw), exceptions in the runtime's synchronous prologue.

### Runs

| Run | Result | Question |
|---|---|---|
| `TransportSession` | holds, 1.3 M states | Do sessions never sleep on work (`IdleMeansDrained`, `NotWedged`), route to live runtimes (`MapHoldsLive`), keep a message in one place (`WaitsInOnePlace`) and release it accountably (`ResendHandsOver`)? |
| `TransportSessionLive` | holds | Is a send that waits for a relaunch released (`WaitingSendsSettle`)? |

Bounds: two messages, two runtimes, one recovery per window (`MaxRestarts`), a
resend queue of one (`ResendCap`). Two runtimes suffice for one in service or being
killed beside its successor, with stale handlers on the first; two messages for a
turn with a queue behind it, and for the overflow of a queue of one. A behaviour
ends when both runtimes are used up, hence no deadlock check. The liveness run has
one message: the property is about the lock, not about messages.

Fairness: weak, of each handler past its await and of the two ends of a kill and of
a launch. The event loop runs every settled continuation; `endSession` and
`initialize` are awaited by the code as settling one way or the other. Nothing is
assumed of provider turns or users.

## 4. CommandAck and CommandPromise

`CommandPromise` is the contract of `shared/ack-protocol.ts` seen from the browser:
a command is acknowledged, rejected or failed. Nothing is said of a command that was
not sent, it is never reported failed once accepted or rejected, and it has at most as many
acks as it was sent and as the bridge forgot that it had relayed one. A rejection ("duplicate") is allowed even if the
browser sent one copy only: the code does that (section 11). `CommandAck` implements
the contract (`PromiseKept`), with the variables `user`, `sends`, `acks` and `lapses` shared.

| Variable | Code |
|---|---|
| `link` | the daemon's WebSockets as the bridge holds them, and where the auth handler of each stands |
| `bridge` | `daemonWs`, `authenticated`, `authPromise`, auth and grace timers, the offline flag; `evicted` is a history of `kickDaemon` |
| `inflight`, `seen`, `queue` | `inflightCommands`, `seenCommandAcks`, the queue for an absent daemon |
| `current`, `down`, `up` | the daemon's own socket, and the messages in flight |
| `dedup`, `outbox`, `echoDue` | `sessionDedups`, `AckOutbox.entries`, `handleSend`s between receipt and the timeline message |
| `lapses`, `forgets` | histories: how often the bridge forgot the acks of a command, the daemon the command |

The auth handler has two awaits (token, feature flags); `AuthArrives`,
`AuthChecked` and `AuthFinishes` are its three pieces, and like the code the last
two do not look whether their socket is still the bridge's. A message on `up` is
handled only when no auth promise is pending; the head of `up` is lost
(`MessageBails`) when its handler finds the link replaced.

Both memories of what was seen are limited. `Sweep` is the bridge's housekeeping: it drops
entries older than `INFLIGHT_GC_TTL_MS` and the acks older than `ACK_DEDUP_TTL_MS`, five
minutes; the daemon's outbox replays for ten, so any remembered ack may expire in the model.
The daemon's `CommandDedup` lets go of a command after five minutes or behind a hundred
others, which `DaemonReceives` finds out when the command comes again. `Reported` is
`emitCommandFailed`: a browser whose socket is closed is not told.

Time is counted in ticks. A tick does not pass over a timer that is due, so a timer
fires before the next tick, in any order with the others; messages and, with
`SlowDb`, database reads take as long as they like.

Not modelled: the age of remembered acks and commands, the outbox's attempt and age caps,
`MAX_QUEUE_SIZE` (100, never reached here), session.cancel, the daemon's backoff and
watchdogs (they only choose when `DaemonLoses` and `Connect` happen), the order in which an
outbox flush sends.

### Runs

| Run | Result | Question |
|---|---|---|
| `CommandAck` | holds, 1.2 M states | Does the bridge keep `CommandPromise`, strand no command (`NoStranded`) and take back "offline" (`OfflineIsTemporary`)? |
| `CommandAckLive` | holds, 0.5 M states | Is every dispatched command settled, or does the daemon reconnect for ever (`CommandSettles`)? |

Bounds: one command; the bridge forgets its acks once (`MaxLapses`). In the safety run it is
sent up to twice, over two connections: the old and the new one overlap with every stage of
their handshakes; the daemon forgets it by restarts only. In the liveness run it is sent once,
a running daemon forgets it once (`MaxForgets`), and one connection, when it is dead, stands
for the next (`Reuse`), so that reconnects are not bounded; the handlers of two connections do
not overlap there. The safety run with `MaxForgets` 1 was checked once and holds (4.5 M
states), and `KeepsPromise` is proved for every bound. Commands do not interact in the bridge
except through the order of a replay. Timers keep the order of the real ones as far as it
matters: `AuthTimeout` shortest, `AckTimeout` < `Grace` (1, 1, 2 ticks, and 2 for `GcTtl`;
in the liveness run 1, 2, 3, and 5, longer than the retries on a link that does not flap).

Fairness: ticks, the four kinds of timers that settle commands, the database and
the last piece of an auth handler. Timers of a Node process fire, and a query
answers or fails. Nothing is assumed of the daemon, the network, the user, or of the
housekeeping sweep, which should not be what settles a command. One case needs it, and
`CommandSettles` excepts it: a daemon that opens one connection after the other for ever,
each replay arming the ack timer anew and each close the grace window.

`NoStranded` names one exception: `kickDaemon` clears `daemonWs` before the close
event, which therefore opens no grace window; commands buffered during that
handshake wait for the next connection.

## 5. Supervision

One transport session under supervision, with the P2P audits it launches.

| Variable | Code |
|---|---|
| `mode` | the supervision mode in the session's record: off, or on for supervised and supervised_audit |
| `sends` | where the `handleSend` of each message stands: waiting for the session's mutex with the snapshot it took ("off", "on"), waiting with a runtime that has been killed ("orphaned"), or done |
| `sup` | the maps of `SupervisionAutomation` at this session: `run` is its `ActiveTaskRunState`, `pending` the intent of a queued message, `candidate` and `answered` the implicit run that may start, `poller` the audit poller, `jobs` the continuations in flight |
| `audits` | the audit runs in the orchestrator's table, by status |
| `life`, `turn`, `queue`, `active` | the session's runtime: in the map, being killed or none; the state it last reported; the messages behind its turn and those of the turn |
| `resend` | the session's resend queue |
| `late`, `lost` | histories: the sends that were waiting with supervision on when it was switched off, and the tasks whose messages were dropped while their intents waited |

The handlers of `handleTimelineEvent` run inside the step that emits the event, as
`timelineEmitter` calls its listeners synchronously: `TurnEnds` drains the queue, which
may register the intent of a message it starts (`OnDelivered`), or goes idle, which may
start an evaluation (`OnIdle`). An evaluation is a job: it awaits the broker, then
perhaps the audit's baseline, then the launch. Each time it re-reads the active run and
recognises it by its generation, which starts again at 1 when a run was deleted; the
model keeps that, so the answer about one task can be taken for the next.

`own` marks the continuations that hold the object of the active run, which the code
mutates after an await (`run.discussionId = ...`): on a detached object the assignment
is lost.

`handleSend` reads the settings and the runtime (`Arrive`), waits for the mutex, and then
sends, registers or queues with what it read (`SendNow`, `SendQueued`). Supervision may be
switched off in between, and the runtime killed, in which case the send throws
(`SendThrows`). Without a runtime the message goes to the resend queue and its intent is
queued at once (`ArriveUnready`).

An error report may be followed by recovery (`TurnFails`): the failed turn's messages go to
the resend queue, the runtime leaves the map and is killed, which empties its queue while
`pendingTaskIntents` keeps the intent. `Relaunch` kills it in mid-turn. `LaunchSucceeds` puts
the next one in the map and drains the resend queue into it in the same step, as no real
await lies between the two. Of the idle report of `kill()` the model takes both outcomes when
no turn is running, since `setStatus` says nothing if the status was idle already.

Not modelled: what the broker answers with (any decision, at any time) and how it times
out, the prompts, the audit's own steps, and more than one session. Of the runtime's
replacement, what `TransportSession` is about is left to it: two launchers at once, an old
runtime being killed beside a new one, `endSession` rejecting. A failed launch leaves the
session without a runtime.

| Run | Result | Question |
|---|---|---|
| `Supervision` | holds, 1.7 M states | Is a supervised run always driven (`RunIsDriven`) and an idle task decided (`IdleTaskIsDecided`)? Does an intent wait with its message, unless the session dropped that (`IntentIsQueued`)? Is nothing but a late send left when supervision is off (`OffMeansInert`)? |
| `SupervisionAuditStuck` | violated | Does a run under audit come back to its user? |

Bounds: two messages, two evaluations and one audit in flight, one message waiting
behind a turn (`QueueCap`), room for two in the resend queue (`ResendCap`), one automatic
continue, one rework. Two evaluations are what a cleared `evaluating` flag can start; two
messages suffice for a stopped task and its successor, and for a late send beside one.
Messages and the slots of evaluations are interchangeable, so the next one is chosen
(`NextSent`, `FreeSlot`) instead of trying each.

Fairness: `IdleTaskIsDecided` needs only that the broker's answer and the audit's baseline
come or fail (`AnsweringSpec`; both have time limits). `FairSpec`, of the other run, adds the
launch of an audit, the poller's interval, and that a turn, a kill and an audit run end one
way or another. The user owes nothing, nor does the launch of a runtime.

## 6. P2pRun and P2pDiscussion

`P2pDiscussion` is what a P2P run promises: in each round the initiator analyses, every
participant is heard, the initiator summarises; at the end of a flow cycle the request
is executed, and only then may the next cycle begin; it may be dropped anywhere, and it
ends. `P2pRun` is the code: one `executeChain`, a `dispatchHop` in flight per session,
`cancelP2pRun`, and the projection sent to the server.

| Variable | Code |
|---|---|
| `run` | the `P2pRun` object: status, `_cancelled`, round, `currentTargetSession`, `activeTargetSessions`, `remainingTargets`; `step` is the await the chain stands at, `sends` the prompts of the execution gate |
| `hop` | the status of each participant's hop |
| `task` | the `dispatchHop` call to each session: attempt, and the await it stands at |
| `tally` | `completedHops` and `skippedHops`, counted per session |
| `stop` | cancel calls that wait for their C-c keys |
| `seen` | `activeRuns`, the clean-up timer, the debounced push, and the status the server has |
| `late` | history: prompts sent after the cancel |

`Phase` and `Heard` map the chain's await to a phase, and the dispatches not in flight
to the participants heard. A participant of another project has its file copied first,
and that copy may throw (`DispatchThrows`); `allSettled` swallows it. Polling is one
action per thing the poll may find: nothing, growth, the answer, an idle session, the
deadline.

Not modelled: the advanced workflow chain (2486-3155), the contents of the discussion
file, helper sessions, restoring runs after a restart, and two runs of one initiator.

| Run | Result | Question |
|---|---|---|
| `P2pRun` | holds, 300 K states | Is the run a discussion (`IsADiscussion`) and does it leave the table (`LeavesTheTable`)? Does a cancel reach everyone (`InFlightIsReachable`) and stop them (`FewLatePrompts`)? Is every hop counted once (`HopsAccounted`)? |
| `P2pRunResurrected` | violated | Does a cancelled run stay cancelled? |

Bounds: two participants, one of another project, two flow cycles of one round, one
cancel, two prompts of the execution gate per cycle. Two cycles are needed to come back
to the top of the loop, where the violation is; two participants for dispatches that
end in any order.

Fairness: promises settle and timers fire; strong for the deadlines, which a poll looks
at again and again. No agent need ever write anything, and no user cancel.

## 7. PreviewPool and PoolPromise

`PoolPromise`: a call of dispatch is refused or accepted; an accepted one is settled,
once and for good. `PreviewPool` is `PreviewReadWorkerPool`.

| Variable | Code |
|---|---|
| `fate` | each promise: new, waiting, waiting with its deadline past, or settled and how |
| `source` | history: the job whose answer a promise was resolved with |
| `queue`, `started`, `closing` | `queue`, `started`, `shuttingDown` |
| `slot` | the `WorkerSlot` objects, those of earlier starts included, since callbacks keep them; `term` is the `terminate()` whose continuation is to come |
| `starts` | how often the slots were built |
| `posted` | requests posted to threads and not answered |
| `pumping` | the turn of the event loop is in the loop of `pump` |
| `faults` | failing starts, posts and threads so far |

Everything between two callbacks is one turn. `pump` ends several of them; it is taken
one slot at a time, and while `pumping` is set nothing else runs, so the steps are those
of the loop and not an abstraction of it. An answer may come at any time, also from a
thread that was replaced.

| Run | Result | Question |
|---|---|---|
| `PreviewPool` | holds, 775 K states | Does the pool keep `PoolPromise` (`KeepsItsPromise`)? Is a job in one place until settled (`JobsHeldOnce`), answered with its own result (`AnswersAreOwn`), and never left waiting for nothing (`NeverWedged`)? Does a slot have one thread (`OneThreadPerSlot`)? |

Bounds: three jobs, two threads and a queue of one, so the queue fills while both
threads work; threads replaced after two jobs; two faults, enough for both threads to
be down at once; one start. An instance with two starts, one after a shutdown, was
checked once for the safety properties (469 K states up to symmetry): they hold. The
pool may stop, when all jobs are settled, hence no deadlock check.

Fairness: time passes, the turn of the event loop ends, `terminate()` settles, timers
fire. Threads owe nothing: that accepted jobs are settled rests on their deadlines.
The coordinator always gives one, and the daemon leaves `activeJobTimeoutMs` at 18 s.

## 8. FilePreview and FreshReads

`FreshReads`: a read is answered once, with an error or with a version the file has had
that is not older than any write acknowledged before the read was asked for.
`FilePreview` is `PreviewReadCoordinator` with its fan-out, cache and drain, the two
requests a worker serves, and `handleFsWrite`, for one file that several paths name.
Of the pool it uses only `PoolPromise`: a job is refused, answered or rejected, at any
time or, as nothing is assumed of the pool's timing, never.

| Variable | Code |
|---|---|
| `disk`, `acked` | the version of the file, and the newest one a writer was told of |
| `writer` | the `fs.write` commands: the expected version, and the await they stand at |
| `gen`, `entry` | the file's generation and its cache entry |
| `read` | the `ExternalRequestRecord`s: open or closed, deadline past, and what was answered; `floor` is `acked` when it was asked for |
| `preflight`, `snapshots` | `preflightJobs` by path, `snapshotJobs` by signature and generation |
| `closing` | the pool is shutting down |

Two versions never have the same signature: mtime and size differ. An acknowledged
write bumps the generation and drops the entry in the step that answers. Between the
write reaching the disk and that step a read may be served from either side, as in the
code.

Not modelled: the admission estimate (a read may be refused at any time), size and
type limits, the drain's budget (its reads are answered at once), creating a new file,
and requestIds used twice.

| Run | Result | Question |
|---|---|---|
| `FilePreview` | holds | Are reads recent enough (`ReadYourWrites`) and answered once (`AnsweredOnce`)? Is a read that still waits in exactly one running job (`WaitingReadsHaveOneJob`)? Is the cache never older than an acknowledged write (`CacheIsFresh`)? Is all that `FreshReads` (`ServesFreshReads`)? |

Bounds: three reads by two names, jobs with room for two, one writer and one change of
the file: a third read meets a full job, two names give two preflights that meet in one
snapshot job. Larger instances (two changes with three reads, safety only, 1.3 M states)
were checked once and hold.

Fairness: a read's deadline timer fires. Workers, pool and writers owe nothing.

## 9. SessionClone and CloneTransaction

`CloneTransaction`: a clone is opened under a name nobody else holds, and ends as done or
as undone; asked to stop while open, it is undone. `SessionClone` is
`handleSessionGroupCloneCommand` with all it calls, one action per await, for several
clones at once, and `handleSessionGroupCloneCancel`.

| Variable | Code |
|---|---|
| `run` | per operation: the await its handler stands at, the name, how many sub-sessions (`n`), the loop index (`i`), how many members `CreatedResources` knows (`made`), `wroteDaemonP2pConfig`, the error code, which kinds of `cleanupResources` there are (`owed`), and the final state |
| `known` | the operations under way in `operationsByIdempotencyKey`: only those can be cancelled |
| `reserved`, `cancelled` | `activeTargetReservations`, `cancelledOperationIds` |
| `up`, `store`, `rows` | the sessions that exist, those with a record in the session store, and the sub-sessions with a row at the server |

`Unwound` is the throw into the catch clause: the error code, and the first step of the
rollback. `pruneOperations` forgets an operation ten minutes after its last change of
state, also one under way; time is not modelled, so a request may find any set of them
forgotten. A launch is one action: nothing in it throws after the session exists without
removing it. The close of a session is one action too, and may fail (`closeSingleSession`
collects errors and returns them).

Not modelled: what is in records and in the P2P config; the main session's row, which
writes that nobody awaits may change at any time; sessions started or stopped by others
under a reserved name; a daemon that stops in the middle of a clone.

| Run | Result | Question |
|---|---|---|
| `SessionClone` | holds, 253 K states | Does each name have one owner (`OneOwnerPerName`)? Is a reported clone whole, whatever other clones undo (`SuccessIsWhole`)? Does every main session belong to a clone or stand on a list (`LeftoversAreOwed`)? Is a clone a transaction that ends (`KeepsTheTransaction`)? |
| `SessionCloneLeak` | violated | Does a clone that reports a plain failure leave no session behind? |

Bounds: two clones and two names, so that they may compete for one name, one may take
the name another has just rolled back, or they may run side by side; one source with up to two
sub-sessions, enough for a rollback whose first step fails and second succeeds, the other
without any. The actions of different clones touch each other's state only through names. A
behaviour ends when all operations are used, hence no deadlock check.

Fairness: the next step of each handler. Directory checks, launches, closes and requests to
the server settle one way or the other, and the handler takes the continuation.

## 10. Findings

1. **A run under audit can be stuck** (`SupervisionAuditStuck`). The poller knows
   completed, failed and cancelled. A timed-out audit, and one cancelled in its own
   view, which is gone from the table at once, leave the run in its auditing phase
   with the user's task on hold.
2. **A cancelled discussion comes back** (`P2pRunResurrected`). At the top of a later
   cycle the chain awaits a file and then dispatches; `dispatchHop` sets the status
   dispatched before it looks at the cancel flag. The daemon has forgotten the run, the
   server lists it as active for ever. The end of the tail and two deadline failures
   overwrite cancelled too.
3. **A rolled-back clone can leave a session running** (`SessionCloneLeak`).
   `rollbackClone` expects `stopSubSession` to throw, but a close that fails is returned.
   The sub-session runs on without a record, and the clone reports failed or cancelled
   instead of cleanup_required. The result of `stopProject` is looked at.

## 11. Observations

Met while modelling; no run is spent on them.

- *The browser's automatic retry is rejected as duplicate* when the daemon had accepted
  the first copy and only the ack was late or lost: after command.failed the bridge
  dispatches the same commandId without its retry marker, and
  `command-handler.ts:2494` refuses it. `web/src/hooks/useTimeline.ts:1306` expects that "a
  replay with the same id is treated as a fresh dispatch". (In the model: `user[c] =
  "rejected"` is reachable.)
- *Two conditional `fs.write`s can both succeed.* `handleFsWrite` compares the mtime,
  awaits, and writes (`command-handler.ts:8090`); another one may have been reported as
  written in between, and the user of the second is not told of a conflict. (In the
  model: two writers, both with `expected` the same version, end "written".)
- *An entry of a link that flaps* has its ack timer re-armed by every replay, whatever its
  attempts (`bridge.ts:4267`), until the housekeeping sweep drops it without an answer
  (`bridge.ts:4391`); the comment there says this "shouldn't happen unless timers misfire".
  It is the case `CommandSettles` excepts.
- *An ack may be relayed twice for one send.* The bridge forgets what it relayed after five
  minutes (`bridge.ts:4398`), while the daemon's outbox replays for ten
  (`ack-protocol.ts:83`), so the reasoning of `ack-outbox.ts:15`, "Server side dedups via
  seenCommandAcks LRU, so outbox replay is safe", holds for the first five only. (In the
  model: an ack is relayed, forgotten, and flushed again from the outbox file after a
  restart.)
- *A command may be accepted twice by one daemon*, once its dedup has let go of it
  (`command-handler.ts:1145`), so also without a restart.
- *A failure may reach nobody*: `emitCommandFailed` drops it when the browser's socket is not
  open (`bridge.ts:4372`), and the entry is removed.
- *Recovery loses the queue behind a failed turn.* It requeues the turn's own messages
  and stops the runtime, whose `kill()` empties the pending queue
  (`transport-session-runtime.ts:449`). Its requeue also ignores `droppedOldest`
  (`session-manager.ts:1004`), while the two other callers of `enqueueResend` warn.
  `ResendIsHandedOver` and `OnlyAKillDropsPending` prove that these two are the only
  silent ways out of the two queues.
- *A stale auth handler* (`bridge.ts:2114`) ends the grace window of a socket that has
  gone and announces the daemon; with a third connection it can also put the unmarked
  first copy of a command into the queue, behind the bridge's marked retry, and a command
  that was sent once is shown as duplicate.
- *An ack written to a dying socket is lost* with its outbox entry
  (`command-handler.ts:473`).
- *Supervision off, and a task supervised.* A send that waits for the mutex registers or
  queues its task with the settings it read before (`command-handler.ts:2984`, 3425); if
  they were switched off meanwhile the task is supervised nevertheless. `OffMeansInert` and
  `OffIsQuiet` say that this is all.
- *An intent can outlive its message*, when a kill empties the runtime's queue, the resend
  queue overflows or expires, or /stop clears the latter without a runtime. It then waits for
  a user.message that does not come, until the next queued intent or a cancel replaces it.
- *Supervision.* The answer of an evaluation may decide the next task, because
  generations start again at 1 (`supervision-automation.ts:666`). Switching supervision
  off while a launch is in flight leaves an audit running; the catch of `startAudit`
  drops whichever run there is by then; a launch that succeeds late replaces the poller
  of the run that came after it. `evaluating` is false during the baseline await, so a second
  evaluation may start.
- *P2pRun.* A cancel during the execution gate sends no C-c to the initiator; a hop that
  was not dispatched yet stays queued; a session that was idle at one poll and grew at
  the next may be marked timed out early. The advanced chain has the same dispatch after
  an await (about line 2760).
- *PreviewPool.* `shutdown` does not wait for the `terminate()` of a thread that timed
  out or was recycled before; its continuation runs when `shuttingDown` is false again
  and starts a thread in a slot the pool has dropped. Nothing uses that thread.
- *The other two pools* (`fs-list-pool.ts`, `fs-git-status-pool.ts`) do not reject the
  queue when no thread can be started, and a queued job's deadline is looked at only when a
  thread takes it.
- *FilePreview.* A job's deadline is that of its first reads, so a read that joined later may
  be told timeout early. A read after a change by another program may get older contents
  through a preflight in flight or the cache. An `fs.write` that fails after it changed
  the file invalidates nothing.
- *Session group clone.* If the copied P2P config cannot be saved it stays in memory, as
  `wroteDaemonP2pConfig` is set only afterwards; if there was none to copy, the rollback
  removes the one the target name had. Rows are also written by calls that nobody awaits
  (`patchCloned*Record`, the launch), which may arrive after the awaited deletion. After
  ten minutes without a change of state an operation can no longer be cancelled, and its
  key may be used again beside it. `session.start` ignores reservations. A daemon that
  stops during a clone leaves half a group.
- *Upgrade coordination.* The auto-send timer fires while the daemon is away and leaves the
  state scheduled; attempts count schedules, not sends, unlike the comment at
  `bridge.ts:2135`.

## 12. Proofs

TLAPS proves these for every value of the constants that the named assumptions
allow (`SessionAssumption`, `AckAssumption`, `SupervisionAssumption`,
`P2pAssumption`, `PoolAssumption`, `PreviewAssumption`, `CloneAssumption`): any sets of
messages, runtimes, connections, participants, jobs, reads and clones, any bounds and
timings. The
assumptions are that bounds are numbers, and that special values such as `None` are
none of the others; the commands of `CommandAck` are finitely many, because a replay
lists them, and so are the reads of `FilePreview`.

**TransportSession_proofs.** `TypeCorrect`, `IdleIsDrained`, `NeverWedged`,
`RoutesToLive`, `WaitsOnce`, the action property `ResendIsHandedOver`, and
`DeadHoldsNothing`, `RuntimesLiveOnce`, `OnlyAKillDropsPending`. The
invariants are not inductive alone. `IInv` adds

- `HandlersAimed`: a handler that waits for the mutex captured a runtime;
- `DispatchesCarry`: no dispatch is empty, so a turn that starts is a turn;
- `VictimsEnding`, `VictimsApart`: what a launcher awaits is in its ending, and no
  two launchers await the same runtime. Without them `KillReturns` could wipe the
  runtime another launcher has just registered, and `MapHoldsLive` and
  `NotWedged` would not be preserved;
- `UnsentIsNowhere`: a message whose handler has not ended is in no queue and no
  turn. `WaitsInOnePlace` needs it when a handler enqueues for resend.

Each action has a lemma; `FailTurn` and `StopAndLaunch`, which several actions
share, have their own. The requeue is defined by an index function instead of a
recursion, so that the facts about it (`RequeuedFacts`) are provable.

A second invariant, `LifeInv`, is about the lives of runtimes: one that is unborn or dead
is blank and runs no turn (`DeadHoldsNothing`), and nothing refers to an unborn one. Each
action is then shown to move every runtime only as `LifeStep` and `QueueStep` allow, which
gives `RuntimesLiveOnce` (unborn, live, ending, dead, never back: the looks at
`providerSessionId` are enough against handlers and dispatches that captured the runtime
before an await) and `OnlyAKillDropsPending`: a message queued behind a turn is lost
silently only by `kill()` of its runtime. The code has this loss (section 11); the theorem
says that it is the only one of its kind.

**CommandAck_proofs.** `TypeCorrect`, `NothingStranded`, `OfflineEnds`. `IInv` adds

- `StaleAuthRuns`: a bridge that counts itself authenticated with a grace window
  open still has its daemon, or an auth handler about to finish. `GraceExpires`
  does nothing on an authenticated bridge, so without this a buffered command could
  lose its last hope;
- `OfflineRuns`: offline on an authenticated bridge means an auth handler is about
  to withdraw it, whether or not a socket is there. `OfflineIsTemporary` speaks of
  connected bridges only and is lost when a socket is replaced.

**CommandAckPromise_proofs.** `KeepsPromise == Spec => PromiseKept`: initial states
map to initial states, and each action to a step of the promise or a stutter. The
simulation holds in states of `RInv`, which adds to `IInv`

- `WaitingAnswer`: the bridge keeps a command only while its user waits and has had
  fewer acks than sends and lapses. A timer that fails an entry therefore fails a waiting
  command, and the ack that removes an entry is within the count;
- `TimersKept`: an entry that is gone has no timer, so `AckTimeoutFires` finds one;
- `AcksCounted`: none has had more acks than its sends and lapses, and one that was sent
  and is not in `seen`, never acknowledged or forgotten, has had fewer;
- `KnownOnly`: queues, messages, dedup and outbox speak of commands that a browser
  has sent. Without it an outbox replay might acknowledge a command never sent.

`RInv` also gives two facts about single steps. `OnlyTheSweepForgets`: an entry leaves the
bridge with its user told, or with a failure that has a cause but no open socket to tell it
to, or by the housekeeping sweep, and then it is very old. `FailuresHaveCauses`: a waiting
command is reported failed only while no authenticated daemon is connected, or when the
ack timer of an entry without retries left fires.

**Supervision_proofs.** `TypeCorrect`, `OffIsInert`, `IntentsAreQueued`,
`RunsAreDriven`. `IInv` adds

- `Sound`: no run means `NoRun`, a continuation that holds the active run means there is one,
  and `evaluating` means that an evaluation of this generation is still to answer. Without
  the last part an idle event that is ignored because of the flag could leave a run with
  nobody to drive it;
- `LateSends`: with supervision off, a send that waits with an older snapshot is in `late`,
  so the run or intent it makes is one `OffMeansInert` allows;
- `Served`: without a runtime no turn runs, no message is behind one and no send holds a
  runtime that could still take it; with one in the map the resend queue is empty. A turn
  that drives a run is therefore the turn of a runtime that can end it, and a launch finds
  the waiting intent in what it drains or in `lost`.

Each method of the class has a lemma that it keeps the maps sound, and the actions cite
those.

On top of it `Held` says what a run keeps while its continuations come and go: a run under
audit has its audit or a continuation about to launch it (`AuditsAreHeld`), and its
counters stay within `MaxContinue`, `MaxStreak` and `MaxAuditLoops` (`BudgetsHold`).
`OnlyALateLaunchUnwatches` complements finding 1: a watched audit stays watched until the
run leaves the phase, unless the launch of an older continuation replaces the poller.
`OffIsQuiet` is about steps: once supervision is off, no run or intent is left and no send
waits with older settings, it stays so until the user switches it on: no prompt is sent or
queued, no evaluation begins, and a turn starts only with a message of the user's. An audit whose
launch was under way may still start, which the statement leaves open, as the code does.

**P2pRun_proofs.** `TypeCorrect`, `CancelReachesAll`, `EveryHopAccounted`,
`LatePromptsBounded`, `ImplementsDiscussion`. `IInv` adds `Placed` (which dispatches may
be in flight at which await of the chain), `Reached` (the parallel dispatches share
`currentTargetSession` without clearing it for each other), `AllCounted` (the tally
of each hop against the round, with `remainingTargets`) and `LateBounds`. The simulation
needs `CycleOver`: the chain is at the gate only at the end of a cycle, and past it only
after the last.

`EndInv` is about the ends of a run: where the chain does not look at the status, an end
comes from a cancel, and the server is told of every end in the step that makes it
(`EndsAreTold`). It narrows finding 2 down to one await: `OnlyTheNextCycleRevives` shows
that of all steps, late answers, timers and repeated cancels included, only the read at the
start of the next cycle of a cancelled run gives an ended run a status that is not an end;
and a run of a single cycle stays cancelled (`SingleCycleStaysCancelled`).

**PreviewPool_proofs.** `TypeCorrect`, `HoldsJobsOnce`, `NeverWedges`,
`KeepsOneThreadPerSlot`, `AnswersOwnJob`, `ImplementsPromise`. `IInv` adds `Sound`
(what the fields of a slot say of one another), that slots of an earlier start run no
job, and `Hope`: while a job waits, some slot of the present start is idle, works, has a
restart timer or a `terminate()` to come. `NeverWedged` says less of the middle of a
turn and would not survive it.

`Requested` accounts for the messages to threads: what was asked of the thread a slot has
now is the slot's job, and no job is asked of two threads (`AsksOnce`). It follows that the
generation alone tells an answer from a stale one (`GenerationTellsAnswers`), and that a job
whose thread died, hung or was replaced is never tried again (`RetriesNothing`): its
caller is told, and decides.

**FilePreview_proofs.** `TypeCorrect`, `ReadsYourWrites`, `AnswersOnce`,
`CacheStaysFresh`, `ImplementsFreshReads`. The heart of `IInv` is `SnapshotOK`: what a
snapshot read is recent enough for every read that joined it, and, as long as the
generation it was keyed with is the present one, for every read to come. That is why
the generation belongs in the key of a snapshot job: a signature alone would let a read
join a job that has read the file before the last write.

`ReadsAreWorkedFor` and `SnapshotsAreShared` rest on `Worked`: a read that waits is in a
job, the reads of two jobs are disjoint, and no two snapshot jobs have the same key. The
parts support each other: a preflight that hands its reads on must find them in no other
job, and the snapshot job it hands them to by its key.

**SessionClone_proofs.** `TypeCorrect`, `OwnsItsName`, `SucceedsWhole`, `OwesLeftovers`,
`ImplementsTransaction`. `IInv` adds

- `Shaped`: how far the loops are at each await, so that the rollback starts at a member
  that was made and a success means that all were;
- `MembersAreThere`, `RowsAreThere`: `SuccessIsWhole` for clones still being built. The
  first also keeps `OneOwnerPerName`: a clone under way holds its name by the reservation, a
  finished one by its record, so `Free` sees both;
- `MainsAreOwned`: `LeftoversAreOwed` with the reason (`AnswersFor`): the clone has not yet
  tried to stop its main session, is done, or has it on its list. A rollback that is past
  that step answers only if it failed;
- `AskedAreActive`: only a clone under way is remembered or cancelled.

Four more theorems follow a clone through its steps. `CloneIsBounded` gives each operation a
measure, `Work`, that is at most 4 * MaxSubs + 10 and that every step of its handler
decreases: loops, rollback and cancels cannot make a clone run on. `ClonesAreIsolated`: only
its own handler touches the sessions, records and rows of a clone under way or done.
`LeaksAreUnclosed` complements finding 3: a sub-session that runs is one its clone minds
(`Minds`), and it ceases to be only in `SubStopped`, with a close that failed.
`CancelStops`: a cancel that was taken is kept until the clone ends, and the clone does not
succeed.

**Only model-checked.** Liveness (`WaitingSendsSettle`, `CommandSettles`,
`IdleTaskIsDecided`, `LeavesTheTable`, and the liveness parts of `IsADiscussion`,
`KeepsItsPromise`, `ServesFreshReads` and `KeepsTheTransaction`): temporal reasoning under
fairness is outside the prover. The violations of section 10 are counterexamples of TLC.

## 13. Not modelled

PROJECT.json lists every component with its status. The repository has 175 thousand lines;
much of it user interface, routes, translations of provider protocols and storage.
The models take the parts whose correctness lies in the order of steps. Left for later
modules: upgrade coordination, the directory and git-status pools, the bridge's routing
of terminals and files, and the memory pipeline's leases. The
advanced P2P chain has the awaits of the legacy one with a script and an artifact store
around them. Out of reach or of little use to a model checker: terminal streaming and
tmux drivers (the state is another program's screen), relays of provider events and
previews, server routes, the database, the web client's rendering, landing pages and
build scripts. The hook server has a queue for busy targets in its source that nothing
fills.
