# TLA+ models and proofs for pocopine

pocopine is a full-stack Rust framework: reactive components compiled to
WebAssembly in the browser, server functions, background jobs, authentication,
offline-first data synchronisation and collaborative documents over a WebSocket
gateway.  This directory holds TLA+ models of the parts whose correctness hangs on
interleavings, crashes and retries, the TLC configurations that check small
instances of them, and proofs, checked by TLAPS, that some of the properties hold of
every instance.

    tlc -workers 2 -config JobQueueRace.cfg MCJobQueue    # a run
    tlapm JobQueueProofs.tla                              # a proof module

`PROJECT.json` maps every definition to the source lines it models, names for every
checked property a plausible bug that breaks it, and lists the hazards of the code
with the properties that cover them.

## 1. Inventory

Paths are below `src/crates/`.

### Parts with a model

| part | state | operations | interacts with |
|---|---|---|---|
| `pocopine-jobs`, Redis backend | queue stream, consumer group and its pending list (PEL), scheduled ZSET, dead stream; what each worker holds | enqueue, schedule, promote, reclaim, read, run, acknowledge, retry, dead-letter | Redis commands and Lua scripts; handlers |
| the same, periodic jobs | per descriptor a last-fired key and a lock per slot; the slots a worker has computed | compute due slots, lock, enqueue, set last-fired | the Redis clock; the queue |
| the same, memory backend | ready, scheduled and dead queues behind a mutex; the batch a worker popped | the same operations, `drain_dead_letter` | the host that owns the `run_once` future |
| `pocopine-auth-client` | token slot, `AuthSession` (principal, epoch, status), the in-flight refresh, token and snapshot storage, BroadcastChannel | sign in/out, confirm, request with bearer, refresh and replay, hydrate from a peer tab, page load | the server's 401s; other tabs |
| `pocopine-sync-query`, writes | overlays per subscription, replay queue, pendings in the local store, driver tasks | mutate, hydrate, open, pull, persist and sweep, replay, roll back | the push endpoint and its idempotency log; the change feed; unmounts and reloads |
| `pocopine-collab` server with `pine-richtext-collab` client | per process a replica and an apply loop; the snapshot store; detached checkpoint tasks; each editor's document and session | load, subscribe, fold, checkpoint, trim, recover, hello, update, idle flush | fan-out; store; sessions |
| `pocopine-realtime`, Redis fan-out | one stream per topic, a doorbell channel | publish, subscribe from a cursor, next, trim | gateway sessions, apply loops |
| the same, gateway and browser client | the client's refs, intents and outbox; per socket a session with its inbox, bounded outbound queue, refs and pumps; subscriber counts and active handlers | connect, reconnect, subscribe, send, hello, pump, shut down | in-process fan-out; sub-protocol handlers |
| `pocopine-core`, reactive scheduler | slab and generations, both directions of the dependency graph, queue, run counts, the call stack | create, release, read, write, batch, flush, cleanup, unmount | user code, called and calling back; microtasks |
| `pocopine-storage`, uploads | per session its metadata and bytes on disk, the object; the mutex; tasks; each tab's sender and the session in local storage | initiate, inspect, append, complete, sweep; create, probe, patch, resynchronise, complete | filesystem; lost connections; reloads |

What is hard in each, and what makes it correct:

* **Job queue.**  A worker may stop between any two Redis commands; an entry idle for
  longer than the visibility timeout is reclaimed while its first owner still runs
  it, and both settle it; two workers may hold the same reply of due envelopes.
  Correct is: no job is lost, no job exists twice, what is settled stays settled,
  attempts only go up and stay within the budget written to Redis, every job is
  settled in the end.
* **Periodic jobs.**  Four commands per slot, with other workers and crashes between
  them, and a last-fired key that is written without looking.  Correct is: no slot
  fires twice, catching up leaves no gap, a job goes on firing.
* **Memory backend.**  Nothing is persisted, so a dropped future takes its batch with
  it.  Correct is: nothing else is lost, queues keep their order, the dead buffer
  keeps the newest records.
* **Auth client.**  The identity may change at every await of a request, of the
  refresh it triggers and of the replay.  Correct is: no answer obtained with one
  identity's token reaches its caller under another, a refresh does not undo a
  sign-out, waiters of the shared refresh are woken by someone, tabs agree.
* **Offline writes.**  One write is held by the call, the replay queue, a driver's
  batch, two compartments of the store and the overlays of several views, each cleared
  at another time.  Correct is: an overlay is always being worked on, a write whose
  fate is open is in the store, every write is settled.
* **Collaborative documents.**  Several processes fold one log into their replicas,
  and each saves its replica and trims the log behind it from detached tasks, while
  topics open, close and crash.  Correct is: nothing is trimmed that is not saved,
  no cursor stands for more than what was merged, no edit is lost, replicas follow.
* **Gateway.**  A reconnecting client has one live session and perhaps a dying one,
  and each numbers its subscriptions afresh; three producers share a bounded queue,
  two of which wait for room and one does not.  Correct is: no payload and no entry
  reaches another topic, a subscription has no holes, nothing precedes the handshake,
  handlers know whether anybody is there, queued data leaves.
* **Reactive scheduler.**  One thread, but every call into user code may come back:
  a body writes what it reads, releases effects (itself too), drains the queue in its
  middle.  Correct is: an id never reaches a stranger, no update is missed, a flush is
  never forgotten, every cascade ends.
* **Uploads.**  Several requests for one session, from several tabs and from retries,
  and a server that may stop between any two accesses to the disk.  Correct is: what
  was acknowledged is on the disk, an object is the whole file, success means there is
  one, every send returns.

### Parts left out

Macros, parsers and code generators (compile time), user-interface crates (`pine*`;
their state is the DOM or a document algebra for property tests), token and
credential verification (cryptography, parsing), agent crates (loops around external
services), build and deployment tools, formatting and telemetry, the HTTP server's
routing, and the SQLite and IndexedDB adapters (each operation one transaction).
`PROJECT.json` lists them one by one with the reason.

## 2. Modules

| module | models | extends / instantiates |
|---|---|---|
| `JobLedger` | abstract: what a job queue promises | |
| `JobQueue` | the Redis backend | `JobLedger` by refinement |
| `JobMemory` | the memory backend | `JobLedger` by refinement |
| `JobPeriodic` | periodic scheduling | |
| `AuthClient` | session, middleware, refresh, tabs | |
| `SyncOutbox` | offline writes | |
| `CollabReplicas` | documents, fan-out, editors (a composition of three crates) | |
| `WsGateway` | sessions, pumps and the browser client of the gateway | |
| `Reactive` | the reactive scheduler and the user code it calls | |
| `Upload` | resumable uploads: senders, handlers, disk | |
| `JobQueueProofs` | theorems about the Redis backend, its refinement of `JobLedger` included | `JobQueue` |
| `JobWorkerProofs` | theorems about the memory backend, its refinement of `JobLedger` included, and about periodic scheduling | `JobMemory`, `JobPeriodic` |
| `CollabProofs`, `WsGatewayProofs`, `UploadProofs` | theorems about documents, the gateway and uploads | `CollabReplicas`, `WsGateway`, `Upload` |
| `AuthClientProofs`, `SyncOutboxProofs` | theorems about tabs, refreshes and the fences, and about offline writes | `AuthClient`, `SyncOutbox` |
| `ReactiveProofs` | theorems about the reactive scheduler | `Reactive` |
| `MC...` | the instances for TLC | the module they instantiate |

An action is a Redis command, a Lua script, a call under a mutex, or in
single-threaded browser code whatever happens between two awaits.  Operators called
"mutant of ..." in their comments are deliberately wrong variants of the next
definition; nothing uses them but the sensitivity runs.

**`JobQueue`.**  `stream`, `delivered`, `pel` are the Redis stream with its group;
ids are positions.  A worker's pass (`run_redis_once`) is `ScanDue`, `Promote`...,
`ClaimStale`, `TakeReclaimed`..., `ReadNew`, `TakeDelivered`..., and for each taken
entry `HandlerReturns` and one of `Complete`, `Retry`, `Bury`.  The clock is reduced
to what the code asks of it: `BecomeDue` and `GoStale`.  `Abort` is a crash or a
failed Redis call anywhere.  The scripts' guards, ZREM or XACK returning 1, are
`PromoteScheduled`, `ScheduleRetryAndAck`, `DeadLetterAndAck`.

**`JobLedger`** knows a status and an attempt per job.  `JobQueue` and `JobMemory`
map their structures onto it (`StatusOf`, `Ledger`): promotion, delivery, reclaim,
crash and late settlement are stuttering steps.

**`JobPeriodic`.**  One descriptor; `DueSlots` is the pure `due_periodic_slots`,
around it the steps `ReadClock`, `ReadLast`, `TryLock`, `AddJob`, `SetLast`.

**`AuthClient`.**  A token is represented by its user.  `calls` says where
`BearerMiddleware::call` is; `slot` is the single flight; `SignIn`, `SignOut`,
`Confirm`, `Receive` (the BroadcastChannel), `Reload` change the session.  `stale`,
`last` and `raced` are history variables.

**`SyncOutbox`.**  `task` holds a subscription's overlays and where its driver is;
`call` where `mutate` is; `queue` the shared replay queue; `saved` the local store.
The server's verdict on a mutation is free, but the same each time it is pushed (the
idempotency log; external).  Its type invariant includes that a subscription has one driver,
however often views of it come and go (`OneDriverEach`).

**`CollabReplicas`.**  A document is a set of edits, as yrs updates commute and
repeat harmlessly.  `log`/`base` are the stream and its trim, `topic` a process's
replica with the locals of `run_apply_loop`, `tasks` the checkpoints in flight,
`link`/`host`/`tail`/`wire`/`pub` an editor's session.  The loop's awaits are its
phases (`load`, `resume`, `fold`, `retry`, `reload`); both tiers of the recovery are
modelled.

**`WsGateway`.**  The client (`conn`, `refOf`, `nameOf`, `intent`, `outbox`) and, for
each of its sockets, a session (`inbox`, `out`, `byName`, `nextRef`, `pumps`).  A
client handler is one step (the browser runs it to its end), and so is a frame's
handling by the session; a pump (`wait_until_open`, `TopicStream::next`, the send that
waits for room) has its awaits as phases.  `Release` is one topic of `shutdown`, so a
successor may join in between.

**`Reactive`.**  The call stack is a variable: a frame is a piece of user code, or a
loop of the scheduler interrupted by it.  What user code may read, write, create,
release and call is a constant (the Program); in which order, and whether at all, is
free.  `basis`, `lag` and `muted` are history: which signals lie under an effect's last
run and whether it saw an old value.

**`Upload`.**  Each access to the disk is a step of its own: `Read`, `Reconcile`,
`Write`, `CommitAppend`, or `Move` (`Copy`, `RemoveTemp`), `CommitComplete`.  A crash may
come between any two and in the middle of a write (`Torn`).  `Detach` says whether a
connection may drop while its blocking work runs; that work then goes on as task
`Loose`, without the mutex.  A sweep takes no mutex either and is at least two accesses: it
reads the metadata of a session (`SweepRead`), and later removes the directory entry by
entry, in any order (`SweepUnlink`), whatever the session has become meanwhile.  A handler
that had read the session before its time was over goes on between them: it may find its
bytes gone, complete the upload, or write metadata back that the sweep then removes or
leaves (`WriteLost` is a write that loses that race).  No step ends a sweep: an error may
end it at any entry, and other sweeps may have read the session too.

## 3. Runs

| run | instance and bounds | what it shows |
|---|---|---|
| `JobQueueRace` | 2 workers, 3 jobs: one with retries, one the worker does not know, one that does not decode; `BatchSize` 2, `MaxPromote` 1, `MaxAborts` 1 | `OneCopy`, `NothingLost`, `BudgetKept`, `LateChangesNothing`, refinement of `JobLedger`, `EventuallySettled` |
| `JobPeriodicCatchUp` | 2 workers, an interval job never fired and a cron job firing at every tick, `Horizon` 4, `MaxCatchUp` 3, `PassBound` 2, `MaxAborts` 1 | `SlotsExact` (no slot twice, no gap), `KeepsFiring` |
| `JobMemoryLedger` | 2 workers on overlapping queue sets, 3 jobs (one unknown), `MaxPromote` 1, `DeadCap` 1, `MaxCancels` 1 | `QueuesSound` (one copy, nothing lost, the newest dead kept), `QueueOrder`, refinement, `EventuallySettled` |
| `AuthTabs` | 2 tabs, 2 users, 2 replay-safe calls of one tab, both kinds of refresher, `MaxChanges` 3 | `StaleNeverDelivered`, `NoResurrection`, `TabsAgree`, `CallsEnd` |
| `SyncOutboxWrites` | 2 views with a compartment each, 1 write shown in one or, if no view showed it, in both; `MaxBreaks` 1 | `OverlaysBacked` (an overlay is worked on and its write saved), `WritesSettle` |
| `CollabReplicas` | 2 processes, a writer and a reader, 1 edit, `CheckpointEvery` 2, every kind of failure, `MaxBreaks` 1; the processes are symmetric | `TypeOK`, `TrimmedIsSaved`, `CursorsCover` |
| `CollabArrival` | 2 processes, 1 editor, `CheckpointEvery` 1, failures of load, save, subscribe and doorbell, `MaxBreaks` 1 | `EditsArrive`, unless the editor is stranded: its subscription refused, or its pump ended |
| `CollabSnapshot` | 1 process, 1 editor that reconnects once | violates `SnapshotComplete` (finding 1) |
| `WsGateway` | a relay topic and a gated one, 2 sockets with 2 refs each, `Capacity` 1, `OutCap` 2, `MaxQueued` 2, 1 send, 1 publication by others | `StreamsSound` (refs agree, no hole, nothing before the hello), `GatewaySound` (counts exact, no wake-up lost), `QueuedGoesOut` |
| `Reactive` | 2 signals, a computed, 2 effects on 2 slots, a program in which every operation occurs (`MCReactive`), `MaxReruns` 2, `MaxEarly` 1 | `GraphSound`, `FlushSound`, `NoMissedUpdate`, `CascadesEnd` |
| `Upload` | 2 tabs that share a session, 3 bytes in chunks of 2, both senders, one retry, 2 sends, one crash, one loss, `Detach` FALSE | `BytesAreTheFile` (what was acknowledged is kept, an object is the whole file), `DoneHasObject` (success is of a whole object, whose session is never open or expired again), `SendsEnd` |
| `UploadOverlap` | 1 tab, chunks of 1, `Detach` TRUE, 2 losses | violates `Serialized` (finding 2) |

**Why the bounds suffice.**  Two workers (processes, tabs, views) make every race
between owners of one thing; a third would take part in the same pairwise races.  Two
attempts reach first try, retry and burial, and a job with one attempt reaches the
boundary at once.  A batch of two makes an entry wait behind a running one.  One crash
or failure may fall between any two steps; combinations of failures are covered by
the theorems where there are some.  In `JobPeriodicCatchUp` one pass falls behind by
at most `PassBound` = 2 ticks, less than `MaxCatchUp` = 3; with a smaller catch-up the
job can stop (observations).  Checkpoint intervals of 1 and 2 make saves and trims
happen between any two entries: a hello publishes an update even when it has nothing
to say, so logs grow beyond the number of edits.  In `SyncOutboxWrites` each view has a
compartment of its own, because a view that shares one with writes it does not show
loses them (observations).  In `WsGateway` a queue of two and a fan-out that retains one
entry make both overflow at once: acknowledgement, reply, error and entry compete for
the two places, and a pump that misses one entry has lost its stream.  Two sockets give a
dying session and its successor.  In `Reactive` there are fewer slots than effects, so
that a slot is used again while ids of its old owner are about, and two reruns make the
cycle guard act.  A file of two chunks, the second shorter, has a first, a last and a
torn chunk; `MaxSessions` 1 makes a second create meet a disk that takes no more.

**Deadlock** is checked for the three job models and `Reactive` and switched off in the
others: a page where every call has been made and every bound used up, and a document
everybody has left, really stop.

**Fairness.**  Most of it is weak: a worker, an apply loop, a spawned task or a woken
future is polled again; handlers return; user code returns and microtasks run; the clock
runs; requests are answered or fail; an editor's page stays open and its transport
reconnects (with a capped back-off and no limit on attempts,
`pocopine-realtime/src/client/session.rs:28`; only a close for a policy violation ends
that, which the models do not have), and it observes its views again after a reload.
Strong: a write that is pushed again and again is at last served and its answer received
(`Serve`, `ReplayAccepted`/`ReplayRefused` in `SyncOutbox`), that is, the network is
not down for ever; and a handler that waits for a session's mutex gets it although others
do too (in `Upload`, where a tab's request, the blocking work for it and the taking of
its answer are one strong fairness, as a send waits for one of them at a time; tokio's mutex
is a queue).  No fairness is assumed of users,
browser events, crashes, expiry and failures.

**Symmetry** is used in `CollabReplicas` only, a run without liveness.  `SendsEnd` is
stated of one tab, `Watched`: `Upload` treats its tabs alike, so what holds of one holds of
each, and TLC has half the liveness graph to search.

## 4. Proofs

The theorems hold for any number of workers, jobs, processes, editors, edits, topics and
sockets, for any program of effects, any size of the queues and any bound on failures; they assume only the named
`ASSUME`s of the modules and, where it is said, `LocksOutlive`, `~ Detach`,
`Acyclic` (or `[]NoReentry`), `HomesApart` and `"mark" \notin Interrupts`.

**`JobQueueProofs`**: `TypeCorrect`, `OneCopyHolds`, `NothingLostHolds`,
`BudgetKeptHolds`, `LateChangesNothingHolds`, `LedgerImplemented`.  The inductive invariant is

    IInv == TypeOK /\ RunsMatch /\ Custody

`Custody` says that the sets of queued, scheduled, completed and buried jobs are
disjoint, that each holds a job once, and that together they are the submitted jobs:
`OneCopy` and `NothingLost` are the two halves of one statement and neither is
inductive without the other parts.  `RunsMatch` says that what a worker runs is the
job of the entry it is going to settle, without which a late settlement could
acknowledge one job and retry another.  The proof is by elementary changes
(`QueuedGains`, `QueuedLoses`, `ScheduledGains`, ...), then one lemma per script
(`PromoteCustody`, `RetryCustody`, `DeadLetterCustody`, `PlainAckCustody`), each in
two cases: the guard of the script fails and nothing moves, or it holds and the job
moves from one place to another.

`BudgetKeptHolds`, `LateChangesNothingHolds` and `LedgerImplemented` rest on it.

* `BudgetKept` is inductive only with `Budget`, next to `IInv`: attempts grow along the
  stream and only the last entry of a job is live (`Advance`), a scheduled retry is ahead
  of every entry of its job (`RetriesLead`), and whatever carries an attempt, a run in a
  worker's memory too, carries one within the budget (`WithinBudget`).
* `LateChangesNothing` is about the worker that was overtaken: it still holds an entry that
  was settled by another, or a member that another has promoted.  Such an entry is not
  pending, because its job has moved on (`Custody`) and only the last entry of a job is live
  (`Advance`); such a member is not scheduled, because a retry is ahead of every entry of its
  job (`RetriesLead`).  So the guard of its script fails and its step adds no
  entry, retry or record to the job; an undecodable entry that is acknowledged takes
  the rest of its batch along, entries of other jobs, and no promotions (`PassesApart`).
* The refinement of `JobLedger` maps a job to the attempt of its one copy.  That there is one copy is
  `Custody`, so the mapping is a function of where the copy lies (`MappedNow`); that a
  retry's attempt is higher is `Budget`.  A step that leaves every copy alone stutters
  (`Stutters`), one that changes a single job is `Submit`, `RetryJob` or `Settle` of it
  (`Submits`, `Retries`, `Settles`).

**`CollabProofs`**: `TypeCorrect`, `TrimmedIsSavedHolds`, `CursorsCoverHolds`.

* `TypeCorrect` includes that no cursor is ahead of the log (`InLog`, and the same of
  checkpoints, the store and subscriptions).  It needs `Hosted`: whoever has a session
  or an unhandled update is connected to a process.
* `TrimmedIsSaved` is inductive with `Behind`: a checkpoint that is about to trim
  finds the store at its own cursor or a fresher one.  The monotonic guard of
  `save_snapshot` makes that stay true when an older checkpoint comes later.
* `CursorsCover` is inductive with two more cursors of each loop, that at which it is
  about to subscribe and the position of its stream (`TopicCovers`).  The subtle step
  is a subscription without a cursor: it leaves the invariant alone only if nothing
  is trimmed, which is what `partial` records.  A new log entry disturbs nothing as
  no cursor was ahead of the log.

**`JobWorkerProofs`** proves of the memory backend `TypeCorrect`, `QueuesSoundHolds`,
`QueueOrderHolds` and `LedgerImplemented`, and of periodic scheduling
`PeriodicTypeCorrect`, `NoGapHolds` and `SlotsExactHolds`.  It extends both modules, which
share no variable; this is why `JobPeriodic` calls its own `PeriodicInit`, `PeriodicSpec`.

* `QueuesSound` of the memory backend is inductive once it is said position by position
  (`MemoryInv`): no queue holds a job twice (`Lone`), no job is in two places (`Parted`), the
  submitted jobs are those in some place (`Accounted`), and a worker that runs has a batch no
  larger than `BatchSize` (`Passing`), which is what a dropped future can lose (`Losses`).
  `Distinct`, a count of jobs, follows (`DistinctIs`).
* The queues lose entries out of their middle.  `AtFacts` and `AtJobs` say what is left of
  a queue at a set of positions, `FirstFacts` what the first `n` positions with a served or due
  envelope are: whoever is taken has every earlier one taken with him, which is `QueueOrder`.
* The dead-letter buffer is the end of the list of all that was ever buried (`EndIs`): one
  more goes to the end of both, and a full buffer loses its head (`GrowEnd`).
* The refinement maps a job to its one envelope (`WaitsOnce`, `MappedNow`).  Promoting and
  popping only move envelopes (`Rests`), so they stutter; a dropped batch is one `Lose` of its
  jobs (`Loses`).
* `NoGap` needs `Whole`: up to the last-fired key, and wherever a lock is set, every owed
  instant has fired or is in some worker's hand, and a worker leaves none out before the
  slots it still has.  It survives a key that moves back, and a worker that skips a slot
  others have locked.  What `due_periodic_slots` returns is one lemma (`DueFacts`), over
  the arithmetic of intervals (`SlotFacts`) and the earliest members of a set
  (`EarliestFacts`).
* `SlotsExactHolds` assumes `LocksOutlive`: a slot's lock outlives the passes that may
  still want the slot.  `FreeIsNew` is the argument: a lock found free is older than the
  pass that finds it could be, so the slot is new.  The instance of the run satisfies the
  assumption; section 6 says when the code's locks do not.

**`WsGatewayProofs`**: `GatewaySoundHolds`, `TypeCorrect`, `StreamsSoundHolds`, in layers,
each inductive next to those below it.

* `Shape` asks of a pump only that it has the fields the gate protocol reads.  Counts
  follow from the sessions that hold a topic being a finite set that gains or loses one
  member (`HoldersUp`, `HoldersDown`); the wake-up is kept because a pump is armed before
  it reads the flag, and a hello sets both.
* `Base`: the types, what a pump is while it runs (`Pumped`) and that the tables of a
  session agree (`Named`).  A session that closes has no room left or no reader, so what
  it still sends keeps the bound of its queue.
* `Pristine` and `Routes`: a session that has not begun or is over holds nothing, and every
  frame under way, in either direction, names a subscription that session has made.
* `Talks`: a client has one request for a topic under way at a time (`Once`), and its
  answers come in the order of the requests (`InTurn`), so the acknowledgement it takes
  next is of the subscription it means.  With it the client's two tables are inverse to each
  other (`Paired`), which is `RefsAgree` and `Negotiated`.
* `Linked`: the marks of a subscription, namely the number the client heard last, those of
  its frames in the queue, in order, and the pump's place in the log, are one chain without
  a hole (`Chained`), and the first of them is at most one beyond the newest entry at the
  subscription (`Starts`).  Appending, taking the head and advancing the pump each change one
  end of that line (the `Line...` lemmas).
* The attempt showed that `NoHole`, as it was first stated, was too strong: a session that
  closes because its full queue refused the acknowledgement of a subscription lets that
  subscription's pump run until it is released.  Larger instances than the run's have such a
  state (`OutCap` 1, `Capacity` and the log 3).  Nobody misses an entry, as the client knows
  no subscription to give it to; so where a stream begins is now asked of subscriptions that
  are acknowledged or whose session is open, and that it has no hole of all.

**`ReactiveProofs`**: `TypeCorrect`, `GraphSoundHolds`, `FlushSoundHolds`, for any program
of the effects' bodies, and `NoMissedUpdateAcyclic` for those whose computeds read each
other in no circle.  The inductive invariant `IInv` is about three things, to which
the second one, `WInv`, adds a fourth.

* Ids and edges.  A generation of a slot belongs to one effect for good (`Minted`), who
  occupies a slot holds its current generation (`Owned`), and none was skipped
  (`Filled`), so generations cannot run out while effects are left
  (`GenerationsSuffice`).  A frame holds the id of the effect it runs (`FrameGood`),
  subscriptions are of ids somebody holds, each once (`SubsKnown`), and the queue holds
  live ids, each once (`QueueGood`).  `GraphSound` alone is not inductive: a release takes
  an id out of a subscriber set once, which is enough only because it is there once, and a
  slot used again could revive an edge of its old owner if an id did not name one effect.
* Which call can be under which (`StackGood`): a dispatch calls no user code, a `get` has
  its reader below, nobody drains inside a batch.  Every action pops frames and pushes
  others, so this is shown on the stack alone (`PushGood`, `PopGood`, `ReplaceGood`).
* Flushes.  `QueueIsScheduled` is kept by what promises a flush and stays on the stack
  (`EndDispatchPromise`, `ExitBatchPromise`, `RoutePromise`); `IdleResets` needs
  `RunsBacked`, that an effect that has been counted has a flush under way or scheduled
  behind it, and this is where `StackGood` is needed.
* Updates.  A second invariant, `WInv == Shape /\ Links`, is about who will hear of a
  write.  An effect that nothing is due for is covered: each signal under its last run,
  directly or through computeds, still leads to it along the edges (`Watched`), and so is
  what a run has read so far (`Running`).  The run of a computed sees one state of the
  graph, because it calls nothing but `get` (`Deriving`); what is downstream of an
  out-of-date computed has been told (`DirtyTold`), so outside a dispatch nothing is left
  to tell and a clean cache is a current one (`Settled`, `CleanCache`).  `Shape` says which
  frames can be under which and what each has left to do.  Every operation has a lemma of
  its own (`WriteLinks`, `NextSignalLinks`, `RouteLinks`, `ReleaseLinks`, `ClearScopeLinks`,
  `CreateLinks`, `StartLinks`, `ReadLinks`, `ReturnLinks`), and `QuietLinks` is for the
  steps that touch neither edges nor values.

`NoMissedUpdateHolds` needs that no computed is entered again inside its own run
(`NoReentry`), and this is no convenience.  `Computed::get` leaves `dirty` set until
`run_now` is over (computed.rs:75-86), so a computed that asks for itself runs once more
inside its own run; the outer run's older reads end last, and it is then declared clean.
TLC finds `NoMissedUpdate` violated, in 21 steps, in a program of two computeds that read
each other, while acyclic programs of three effects, one or two of them computeds,
passed with the parts of `WInv` before those were proved (up to 1.7 million states).
`Acyclic`, which speaks of the program and not of its runs, implies `NoReentry` because between two runs of a computed on the stack
each computed reads the next (`AcyclicNests`).  The program of `MCReactive` is acyclic: its
one computed reads a signal.

**`UploadProofs`**: `BytesAreTheFileHolds`, `TypeCorrect`, `DoneHasObjectHolds`, all under
the assumption `~ Detach`: with `Detach` the mutex no longer serializes and run
`UploadOverlap` shows the overlap (finding 2).

* A file is a sequence of bytes of any length; `Has(f, n)` says that it begins with the
  first `n` bytes of the uploaded one.  What appending, cutting and losing part of a write
  do to it are lemmas (`AppendKeeps`, `AppendGrows`, `CutKeeps`, `HasAll`).
* The invariant `Ind` has a part for each session and one for each running task.
  `Saved(s)`, of a session whose time is not over: the bytes begin as the metadata says, or
  they are gone because they are the object.  `UnderWay(t)`: the task holds the mutex of its
  session, the metadata is what it read (`Unmoved`), and the bytes are where the next step
  wants them (`Stage`), unless the session's time is over and a sweep has taken either.  `BytesAreTheFile` alone is not
  inductive: a commit writes an offset whose bytes only `Stage` knows to be there.
* `OwnStep` is where the mutex is used: a task's step concerns one session, and no other
  task is running on it, so only its own `Saved` and `UnderWay` are to be shown.  A crash
  ends every task and leaves at most more bytes behind the committed ones (`CrashKeeps`).
  What a sweep has read stays true of the clock although not of the metadata: it only meets
  sessions whose time is over (`SweepReadKeeps`), of which `Saved` and `Stage` promise no
  more than that what is left is of the file (`SweepKeeps`).
* Types and `DoneHasObject` need next to `Ind` what senders and handlers say to each other
  (`Talk`): a sender waits for at most one request, which is for the session and the phase
  it is in, and the answer is of the kind the request asked for (`Client`).  Success is only
  reported of a session that is finished: its metadata says complete, or is gone with its
  time over, its object is there and no work that could write it back is under way.  No step
  takes that back (`FinishedStays`), although a sweep may remove what the completion wrote
  and another tab may repeat it; and an object once there is whole and stays (`Kept`,
  `ObjectStays`).

**`AuthClientProofs`**: `TypeCorrect`, `StaleNeverDeliveredHolds`, `NoResurrectionHolds`,
`TabsAgreeHolds`.

* The two fences rest on one invariant, `Guard`.  A call's epoch never exceeds its tab's, a
  stale one is behind it, and a call of the current epoch that carries a token is in a tab
  that has one (`Sound`): so a success is never stale, and a refresh passes the write fence
  only where the slot is full.  That the call which a refresh wakes first is the one that
  drives it, in the same tab, is `Driven` and `Holds`.  A reload takes the epoch back to
  0 and keeps `Sound` only because it ends the tab's calls.
* `TabsAgree` follows from `Agree`: without a race, the storage holds the last token, and
  so does every tab with nothing to receive (`Caught`).  A broadcast leaves only the tab
  that made it with nothing to receive (`BroadcastFacts`).

**`SyncOutboxProofs`**: `TypeCorrect`, `OverlaysTrackedHolds`, `OverlaysBackedHolds`.

* `OverlaysTracked` is not inductive: a driver that has just read a write from the store
  tracks it for every view, and stops when its own view is dropped.  `AllBacked` lets such a
  driver back the overlays of its own subscription only; the rest follows from what each
  step leaves of the queue and of the batches (`KeepsWork`).
* `OverlaysBackedHolds` assumes `HomesApart` (every query has a compartment of its own) and
  that no view is dropped between a sweep's read and its delete (`"mark" \notin
  Interrupts`); without either the code does lose a shown write (observations).  `AllSaved`
  is inductive: a write is in the store, or about to be put there, where a view that shows
  it reads it (`ShownSafe`); what a clear takes is settled (`ClearsSettled`); what a sweep
  takes its view does not show (`SweepsHidden`), as a write not made yet is nowhere
  (`Unmade`).

**Only model-checked.**  All liveness (`EventuallySettled`, `KeepsFiring`,
`CallsEnd`, `WritesSettle`, `EditsArrive`, `QueuedGoesOut`, `CascadesEnd`, `SendsEnd`):
fairness and ENABLED are outside the prover's reach.

Two hypotheses of the proofs are exact rather than convenient.  `BytesAreTheFile`,
`DoneHasObject` and `TypeOK` of `Upload` are proved with `~ Detach`, and TLC violates each
of the three with `Detach` (the constants of `UploadOverlap`): once a connection drops
while its blocking work runs, two appends overlap and the file of the session grows past
the upload.  `NoMissedUpdate` is proved for computeds that read each other in no circle
and is false for some that do.
Where an order of positions would call for induction, the proofs argue with a least
position instead, over the well-founded order of the naturals.

## 5. Findings

Each is a behaviour of the code that contradicts a statement of the repository; the
run's counterexample is the sequence of steps.

1. `CollabSnapshot`: a document reopened while its idle flush is under way loads the
   store before the save and subscribes after the trim.  Its next checkpoint has a
   higher cursor and replaces the complete snapshot by the remainder
   (`pocopine-collab/src/server/handler.rs:605`, against lines 461 and 689).
2. `UploadOverlap`: the guard of a session's mutex lives in the handler's future, its
   work on a thread of the blocking pool.  When the connection drops the guard goes and
   the work runs on, so the client's retry runs beside it
   (`pocopine-storage/src/local_fs.rs:259`, against line 43).  Both have read the same
   committed length: a write of the first between the second's truncation and its own
   leaves a chunk twice, a truncation by the second after the first's write but before
   its commit leaves the metadata ahead of the bytes.

## 6. Observations

Seen while modelling; no run states them.

*Jobs.*  The attempt raised by a reclaim lives in the worker only
(`pocopine-jobs/src/lib.rs:990`), so a job that kills its worker is started again
after every visibility timeout, whatever its budget ("Maximum number of total
attempts", line 242).  A job with one attempt that waits behind a slow one in a batch
is dead-lettered by the reclaim without having run.  A scheduled member that does not
decode fails every pass before it reads anything (938).  The last-fired key is
written unconditionally (917): moved back behind `max_periodic_catch_up` slots whose
locks are still held, the computation yields only locked slots, and the job rests
until the locks, seven days for a cron job, expire.  A crash between lock and XADD
loses the slot (at most once per slot is what the guide promises).  A crash between
XADD and the key, of a job that recurs less often than every seven days, enqueues the slot
again when its lock has expired (1932): no later slot has moved the key on.

A worker runs its batch one by one, so entries behind a slow job go
idle past the visibility timeout and are run elsewhere as well (1016).

*Auth.*  The write-side fence of the refresh compares the tab's own epoch.  Tab A signs
out and clears the shared storage; before the message reaches tab B, a refresh there
resolves and saves the old user's token again, and B's listener then finds a token and
stays signed in (`pocopine-auth-client/src/lib.rs:253`; line 47 says that a sign-out
reaches every tab).  `NoResurrection` is therefore about one tab.  A refresh that is itself a replay-safe `#[server]` call and is answered 401
waits for the refresh it is part of (`refresh.rs:99`); `RefreshWaitsForItself` is a
step of the model, and `CallsEnd` excuses the calls behind it.  A refresh started for
one user is joined by a call of the next.

*Offline writes.*  A write that shows in no view is saved in the stream's own
compartment, which is also that of a query without parameters.  Its sweep finds no
overlay and deletes the only durable copy while the write is in flight
(`pocopine-sync-query/src/driver.rs:1767`, against the comments at line 1739 and
`client.rs:1017`).  So does the sweep of a view that is closed and opened again while a
write it showed is being saved: it hydrates before the save lands and reads the store after
it, and the id is neither in memory nor cleared, against the same comment.  A driver
dropped in mid-replay loses the rest of the shared batch (`driver.rs:771`): its overlays stay until the next reload; the variable `dropped`
records them and the properties excuse them.  A failed replay goes to the end of the
queue, behind later writes of the same row (784).  Pendings hydrated before a
principal is known are dropped from the replay when one is named, but their overlays
stay (1473).  The initial pull and the refetch do not compare request generations as
`tick_pull` does (393).

*Documents.*  When the snapshot fails to load the loop goes on with the retained tail
(`handler.rs:584`), with the same result as finding 1; the model takes that step, and
`CursorsCover` is silent from there on (`partial`).  A hello answered while the loop
still loads gets an empty document, and nothing sends the rest until the editor
reconnects (292).  An entry published, folded and trimmed elsewhere before a process
reads it leaves an empty read, which is no gap (`redis_fanout.rs:345`); the process
stays behind until the next publication.  A failed subscribe ends the apply loop for
good while the topic's state stays.  A failed publish leaves the update in one
process's replica only, until the editor says hello again.  A checkpoint can save an
update that never reaches the log.

A subscription without a cursor to a
log that is trimmed empty, which an idle flush leaves behind regularly, starts at
`last_seen = 0` and takes the next entry for a gap; the client forgets the topic's
reference and the editor does not subscribe again (`redis_fanout.rs:259`, against
`route.rs:788`).  The same is true of an editor whose pump ends with a source error
(`route.rs:787-796`), and one whose first subscribe fails gets an error and no reference at
all (654-660): it sends no hello, and its edits stay in its outbox until its socket drops
(`JoinFails`, `PumpFails`; `EditsArrive` excuses both as `Stranded`).

*Gateway.*  After a Gap the client drops the topic's ref and tells the observer; unless
that subscribes again, data for the topic waits until the next reconnect
(`QueuedGoesOut` excuses it).  A topic subscribed again while it is live keeps its old
ref until the new acknowledgement; what is sent in between names a ref the server no
longer knows and is refused, although queued data is "Never silently dropped"
(`client/transport.rs:586`).  A topic that retains more entries than the outbound queue
holds (1024 against 256) fills that queue when it is replayed; the next answer finds no
room, the session closes as a slow consumer, and the same happens after the reconnect.
A pump aborted while its Gap waits for room may still enqueue it after its successor's
acknowledgement.  An entry that waits for room when a repeated hello closes the gate is
still sent.

*Reactive.*  An effect that writes its own dependency and then drains the queue runs
inside its own run; the outer run ends last, with the older values (`muted`).  A drain
inside a batch can leave run counts for the next cascade.  A body that releases its own
effect and then registers a cleanup loses the cleanup; a cleanup that releases its own
effect on a rerun does not stop the body.  A computed whose body writes its own source
loses the invalidation, as it is declared clean at the end.  So does one that asks for itself
in a circle of computeds: `get` runs it again inside its own run.  An observer that the cycle
guard has suppressed stays stale, as documented.

*Uploads.*  A crash between the rename of the finished file
(`pocopine-storage/src/local_fs.rs:480`) and the session's update (486) makes every
retried completion fail until the session expires; a test asks for that
(`tests/storage_host.rs:1934`), and `auto_resume` finds the session again each time.  A
PATCH of the resumable protocol that commits the last bytes and fails before it
completes the upload leaves a full offset, which the sender takes for success: there is
no object (`DoneHasObject` is about the native sender).  That sender also takes the 409
of an expired session for a conflict of offsets and repeats its PATCH until the session
is swept (`Spins`).  A directory left by a crashed initiation, without `session.json`,
makes every sweep fail.  A sweep reads a session and removes its directory without the
session's mutex (125-129): a completion that had read the session before its time was over
may commit and answer in between, and its metadata goes with the rest.  The object stays,
but a completion repeated because its answer was lost is told that there is no such session
(`DoneHasObject` allows the missing metadata for this reason).

## 7. What the models leave out

* `JobQueue`: one queue; periodic jobs, payloads and retry delays; time beyond
  "due" and "stale".  `JobPeriodic`: what becomes of the enqueued job.
* `AuthClient`: `mark_pending`, `mark_ready`, tokens set outside a session, the route
  guards; error kinds.  A tab handles messages one at a time and in order.
* `SyncOutbox`: rows, cursors and evictions; principals and schema versions; store
  errors; the push paths without a `Mutator`.  A store operation takes effect when it
  is issued; clearing a pending from its compartments, and the two reads of a hydrate,
  are one step each.  The run drops views only while their driver replays a batch.
* `CollabReplicas`: compatibility identities, size caps, awareness, malformed frames;
  retention by MAXLEN and loss of the counter key; two sessions of one editor at once;
  the in-process fan-out.  A checkpoint holds the document as it was when it was
  spawned, the least it can hold.  The GET and XRANGE of a subscription are one step.
  The buffered replay is delivered with the hello's answer.
* `EditsArrive` excuses an editor that is `Stranded` (observations), and is checked with
  publishes that succeed; failed publishes are part of the safety run.
* `WsGateway`: `Resume` and `Unsubscribe` (no client in the repository sends them), a
  topic subscribed under two sub-protocols, repeated hellos, `close()`, authorization,
  size limits; the Redis fan-out (that is in `CollabReplicas`).  The pumps of a socket the
  client has lost are left out, as nobody sees what they send.
* `Reactive`: `watch.rs`, the storage of projected fields, schedulers other than the
  computed's; a drain inside a batch; computeds with effects in their bodies.
* `Upload`: aborting, deferred length, multipart, checksums, explicit resumption,
  ownership, reading and deleting objects, the directory a crashed initiation leaves, the
  memory backend.  At most one detached piece of work at a time.

**Not modelled.**  `pocopine-sync-query`'s pulls: rows, cursors, request generations, the
fan-out of increments and scope drift; `SyncOutbox` takes a pull as one step that may
retire overlays.  The largest files of the repository (macros, template plans,
rich-text transforms, charts, style registries) are compile-time code, data algebra or
drawing: a model of them would restate functions that have no state between calls, so
the share of the repository's lines that is mapped stays small.

## 8. Plan

Done so far: the job queue in its three forms, sessions and tabs, offline writes,
collaborative documents, the gateway, the reactive scheduler and uploads.  To come, in
this order:

1. `SyncPull`: request generations, cursors per subscription with incremental fan-out,
   scope and principal changes.  Correct is: a cursor never passes rows the view has not
   got, and no row of one principal shows under another.
2. Watchers (`pocopine-core/src/watch.rs`) on top of `Reactive`.
3. Theorems: every invariant and every action property that a passing run checks is proved.
