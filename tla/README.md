# BirdClaw, specified in TLA+

BirdClaw is a local-first X/Twitter workspace: one SQLite database, importers and
schedulers that fill it, read models and a web interface over it, and browser
extensions that capture what an API does not give. Most of the code is conversion
and presentation. The parts that are hard to get right are the ones in which
several processes share durable state; this project specifies them, starting with
the Twillot history queue, where a server with leases, a daily budget and batch
receipts is worked by a Chrome extension that can stop at any moment, the scheduler
that every timeline card shares, the paid and streaming recovery of the cloud
collector, the queue all writers share with the syncs that use it, the walk of a
remote collection, and the backup that several machines share.

Paths below are those of the repository.

## 1. Inventory

| Component | State it keeps | Operations | Interacts with |
|---|---|---|---|
| **Twillot history queue** `src/lib/twillot-history-queue.ts` | tables `twillot_history_jobs`, `_batches`, `_daily_usage` | enqueue, claim (reclaims expired leases first), complete batch, fail, mark, renew, retry, verify | called by the endpoint, the management page and the cloud collector; exported by the backup |
| **Companion endpoint** `src/lib/twillot-companion.ts` | pairing state | claim, heartbeat, error, batch | HTTP answers to the extension |
| **Companion extension** `integrations/twillot-companion` | `chrome.storage.local`: active job, captures, outbox, settings | claim, scan, flush outbox, heartbeat, report an error | endpoint; Twillot's IndexedDB, read-only |
| **Cloud collector** `src/lib/cloud-twitter-collection.ts` | none | collects a person's posts, falls back to the queue | queue |
| **Backup** `src/lib/backup.ts`, `backup-table-codecs.ts` | JSONL shards in a Git repository | export, import (merge or replace), sync, validate | every table |
| **Timeline request scheduler** `src/lib/timeline-request-scheduler.ts` | queue, running set, cooldown | schedule, abort, settle | live importers |
| **Scheduled job lock** `src/lib/scheduled-job.ts` | a lock directory, or a legacy file | acquire, refresh, release, migrate | account and bookmark sync jobs |
| **Web sync** `src/lib/web-sync.ts` | job snapshots, running syncs by key, cleanup timers | start, settle, expire, read | importers, writer, backup; accounts changed by the local bridge |
| **Database writer, admission** `src/lib/database-writer.ts`, `request-admission.ts` | a promise chain per database, a counter | enqueue write, acquire, release | all writers |
| **Live sync engine** `src/lib/live-sync-engine.ts`, `sync-plan.ts`, `timeline-collections-live.ts` | `sync_cache`, `tweet_collections` | read cache, walk pages with early stop, fall back, persist | transports, writer |
| **6551 state** `src/lib/twitter-6551-state.ts` | daily attempts, streak of failures and cooldown per account, two legacy tables | reserve an attempt, record a failure or a success, claim a paid fallback | recovery workers, profile analysis |
| **6551 client** `src/lib/twitter-6551.ts` | the manager's active worker, timers, attempts per scope; table `twitter6551_events` | reconcile, start and stop workers, backfill, receive and replay events | 6551 state, writer, local bridge |
| **Follow graph** `src/lib/follow-graph.ts` | snapshots, edges, events | sync a direction | Twillot follow scheduler |
| **Cloud worker** `integrations/twillot-cloud-worker` | a browser profile and its lock | recover the lock, drive the extension | extension |

Person archive, digests, moderation, media, archive import, MCP servers, the read
models, the web interface and the command line are listed in `PROJECT.json` with
the reason each is left out.

### What is hard, and what makes each part right

* *Queue.* Leases expire by the clock and by a budget day that resets at midnight
  of a configured zone; late submissions, renewals and claims interleave around
  both. Right means: the budget is never promised twice, a batch is charged once,
  one lease moves the cursor at most once, nothing is completed without its last
  batch, and a silent holder does not keep its job.
* *Extension with endpoint.* The worker writes several storage keys one after
  another and may be stopped between any two; a request may be served after it was
  given up, and an answer may be lost. Right means: no post is skipped, none is
  charged twice, a stored lease that is alive agrees with the server, a batch
  never blocks the outbox, and a library cached before the job is not taken for a
  fresh export.
* *Backup.* A merge sees rows that changed since the export; operations of one clone
  are not serialized, and machines race for the remote branch. Right means:
  progress, receipts and budget still fit together, jobs stay resumable, no row is
  dropped, what is pushed can be imported, and rows travel.
* *Scheduler.* Slots are released exactly once under abort, failure and reset, every
  promise is answered, and nothing starts while the server cools down.
* *Paid recovery.* Overlapping workers and a profile analysis share a budget; the
  bridge may come back at any await. Right means: the limit holds, invalid state
  blocks payment, a returning bridge stops it, and paid fallbacks keep apart and
  follow a real outage.
* *Failover and inbox.* Reconciliations join each other, starts fail late, stopped
  workers go on with what they have begun. Right means: one worker lives, its timer
  chain never breaks, nothing is polled early, and an event is marked only when it is
  stored.
* *Writer and web sync.* A chain of promises whose map entry is deleted and made anew
  must stay a queue; a key must be given back whatever the default account has
  become; what is reported as synced must be in the database.
* *Collections.* A walk may stop at a page that is local already only if nothing below
  is missing, with other walks, failures and remote changes beside it.

`PROJECT.json` lists every hazard at its line, with the properties that cover it
or the reason none does.

## 2. Modules

```
TwillotLease          what the queue promises (abstract)
  ^ implemented by
TwillotQueue          the three tables and every operation on them
  ^ extended by
  |-- TwillotHistory        queue + endpoint + extension + Twillot's library
  |     ^ extended by TwillotHistoryProofs
  |-- TwillotBackup         queue + export and merge of its tables
  |-- TwillotQueueProofs    theorems: types, leases, the budget, receipts,
        |                   progress, and that it implements TwillotLease
        |-- BackupProofs    theorems about TwillotBackup and GitBackup
TimelineScheduler           the request scheduler of the timeline
  ^ extended by TimelineSchedulerProofs
Twitter6551State            paid request budget, streaks, cooldowns, and who uses them
  ^ extended by Twitter6551StateProofs
Twitter6551Workers          what the two below share: clock, failures, workers
  ^ extended by
  |-- Twitter6551Failover   the manager and the life of its workers
  |-- Twitter6551Inbox      the durable inbox of pushed events
  ^ both used by Twitter6551WorkersProofs
WriteOrder                  what the write queue promises (abstract)
  ^ implemented by
DatabaseWriter              the chain of promises
  ^ extended by
  |-- WebSync               queue + the syncs of the web interface
        ^ extended by WebSyncProofs: order, refinement, the composition
CollectionSync              the walk of a collection over cache and store
  ^ extended by CollectionSyncProofs
GitBackup                   machines, clones and a remote branch
MC*                         constants of the runs
```

### TwillotQueue

| State | Code |
|---|---|
| `now` | `new Date()`, read once per call |
| `job[j]` | the row of `twillot_history_jobs` with `j`'s (account, profile, provider) |
| `receipts` | `twillot_history_batches`, keyed by `batch_id` |
| `usage[d]` | `twillot_history_daily_usage` |
| `paused` | jobs whose `person_sources` row is disabled |

Each function of the file is one SQLite transaction, so each is one action:
`Enqueue`, `Claim` (with its three outcomes `ClaimDefers`, `ClaimFindsNothing`,
`ClaimGrants`, all after the reclaim of expired leases), `CompleteBatch`, `Fail`,
`MarkCaptureStatus`, `Renew`, `RetryFailed`, `VerifyComplete`; `QueueFallback` is
the cloud collector's. A call that throws rolls back and is therefore not
enabled; `BatchOutcome` still names each refusal, because the endpoint answers
with it. Time is a number of ticks: a usage day has `DayLength` of them and starts
`DayOffset` before the clock's day, as `Asia/Shanghai` is ahead of UTC. A lease
token is a fresh UUID in the code and the job's attempt counter here: both are
new at every claim. Ties in `order by next_run_at, created_at, id` fall either way.

### TwillotLease

Jobs that are absent, open, leased, completed or failed; a lease may lapse at any
time, and `Apply` records a batch, moves the cursor and gives up the lease in one
step. `TwillotQueue!Lease` maps an expired lease to an open job, although its row
still says `leased`: reclaiming is then a stutter, a tick lets a set of leases
lapse, and a claim is exactly one grant.

### TwillotHistory

Adds the extension: `active`, `capture` and `outbox` are its storage keys and
survive a stop; `running`, `removing` and `reply` are the operation in progress
and do not. The worker serializes its operations (`serialize`), so one runs at a
time; an operation is cut into steps wherever it awaits a request or has written
one key. Requests sit in `net`; a step of the endpoint (`ServeClaim`,
`ServeHeartbeat`, `ServeError`, `ServeBatch`, `RejectBatch`) takes one, performs
the queue's operation and answers. `RequestFails` gives up a request whose answer
is lost or late (the 15 s abort of `localFetch`); the request stays in `net` and may
still be served. `Stop` is Chrome ending the service worker. A batch identifier
is a digest in the code and here the data that is digested. `Arrive`, `Lose` and
`Export` are Twillot and its user; `Restore` is `backup import --replace` with a
backup older than every job. `firstSync` is a history variable for one property.

`StartAgain` is the fallback of the cloud collector with a history variable: the
properties about the posts of one run of a job are stated of jobs that were not
started again.

A scan that reads saves the capture's approval and then the batch; the two are one step here,
since a stop between them leaves what a scan that failed leaves: an approved capture
without a batch, which the next scan reads from.

A post is a number and a library is a set of them, newest first. Limits in bytes,
quoted posts and media are left out: they shorten a batch as a smaller allowance
does.

### TwillotBackup

Adds `updated` (the column `updated_at`, which the merge compares) and `shard`, the
last export. `Export` writes rows without their leases; `Merge` combines each
column as the SQL's `on conflict` clause does and skips receipts that exist.

### TimelineScheduler

| State | Code |
|---|---|
| `waiting`, `arrival` | `queue`, as a set in order of arrival |
| `running`, `active` | `running` and `entry.running`, `activeCount` |
| `outcome` | the promise of a call, `entry.settled` |
| `listening`, `cancelled`, `aborted` | `onAbort` registrations, `entry.controller`, the callers' signals |
| `inFlight`, `ended` | tasks before their promise settles; tasks whose `finally` is due |
| `cooldownUntil`, `cooldownError`, `now` | the same, and `Date.now()` |

Every function runs to its end, so it is a step; a task's settlement and its
`finally` are two, and anything may come between. A task that `drain` gives a slot starts
in that step, in the code in the microtask after it. `Drain` is part of the two
actions that call it, with the loop written as the set of requests it shifts. A
request is one call of `schedule`. Left out: an abort listener of a task that calls
the scheduler back while the signal is being dispatched; no caller does.

### Twitter6551State

| State | Code |
|---|---|
| `usage[d]`, `legacyUsage[d]` | the state event of a UTC day; the row of the v0.8.90 table |
| `fallback[a]`, `legacyFallback[a]` | the same for an account's streak and cooldown |
| `scope[a]` | the digest of what is watched for it |
| `fresh`, `resetDue` | the bridge's last heartbeat, and the reset it queues |
| `pc`, `acc`, `at`, `resDay` | where a worker's round or a profile analysis stands |

Each function of `twitter-6551-state.ts` is one queued write, so one step; the rounds
of `twitter-6551.ts` are cut between them, at each await. `Gate` (the look at the
bridge), `Reserve` and `Send` are three steps of an attempt. A single handle's
fallback claims the cooldown before it looks at the budget, the configured account's
after; both orders are kept. `sent`, `since` and `after` are history.

### Twitter6551Workers and Twitter6551Failover

`Twitter6551Workers` declares what the manager's model and the inbox share: the worker
objects, the clock and the failures counted so far. In `Twitter6551Failover`, `active` is `activeWorker`, `reconcile` the reconciliation in flight, `timer[w]` and
`running[w]` a worker's recovery timer and backfill, `attempts` the table
`recoveryAttempts` that outlives workers. `Spawn`, `StartContinues` and `Started` are
the stretches of `Twitter6551Worker.start` between its awaits; `StartFails` is the
handler of a failed start, which resets `activeWorker` whoever is active by then;
`ManualRun` starts a worker beside the manager. A worker object that is quiet is used
again (`Free`). What a backfill does is in `Twitter6551State`.

### Twitter6551Inbox

`row` and `received` are `twitter6551_events`, `home` the stored tweets, `handlers` the
calls of `persistAndProcessEvent` with the write each is waiting for, `page` and `cursor`
a replay. `Deliver`, `Persist`, `Ingest` and `Mark` are its awaits; `WriteFails` is the
catch that leaves a row pending. Replays read by (arrival time, id) in pages: a
page is the set of the first rows behind the cursor, at most `PageSize` of them. Events
without an id, which get a new identity with every delivery, are left out.

### WriteOrder, DatabaseWriter and WebSync

`WriteOrder` is a queue: calls get tickets and are executed in their order.
`DatabaseWriter` is what the code does instead: `tail` is `writeTails`, `after[w]` the
promise a write is chained to, `Sweep` the reaction that deletes the entry. It
implements `WriteOrder` with the same names for what both have.

`WebSync` adds `running`, `shown`, `key` and `timers` (the four maps of `web-sync.ts`) and a
job's stages: the items, for mentions their threads, the automatic backup. The
fetches are abstract and end, well or not; what they found is a call of the shared
write queue, beside other writers. `ChangeDefault` is the local bridge merging
accounts. Writes and jobs are named in the order of their calls, so no two
states differ in names only. Left out: the kinds without an account (timeline without
one, direct messages), progress snapshots, and the blocking `runWebSync`.

### CollectionSync

| State | Code |
|---|---|
| `remote`, `place`, `top` | the service's listing: what is in it, and in which order it was added, again if it comes back |
| `stored` | the collection's rows of `tweet_collections`, which no sync removes |
| `cache[k]` | the entry of `sync_cache` under the code's key: mode, early stop, `--all` and xurl's limit, not `--refresh` |
| `step`, `opt`, `token`, `pages`, `page`, `found` | where a sync is: its options, the token of the next page, pages read, the page just read, what it will store |

`Start` reads the cache, `Fetch` one page, `Compare` holds it against the store, a step of
its own because another sync may write between. `PageFails` gives the walk up, for
bird if the mode allows; `Bird` is the other transport, which pages by itself and knows
neither early stop nor its limit; `Write` is the one transaction of items and cache, and
`Crash` the end of the process. Limits are the code's: the default cap of early stop, the
limit of one page without `--all`, the explicit one (`Limit`, `BirdLimit`). An item that
was removed stays local and may be added again, then as the newest. `breaks` is history:
the places at which what is local may break off, which are where an answer ended short
of the end and where an item came back. Persisting page by page, which other importers
do, is left out.

### GitBackup

`head[m]` is the history of a machine's clone, `files[m]` its shards and what the manifest
says of them, `remote` the branch. An operation is a sync (pull, import, export, commit,
push) or an update (pull, import), in steps of one command or await each; operations of
one clone run side by side. A row is an element, and the merge a union, as the merge of
each codec keeps what only one side has. A row lies in a file (`Shard`): validation looks
at the files that the manifest lists and at no other, an import takes the rows of those,
and a pull is refused where a modified file is in the way and passes where not. An export
may end between two files (`StopWriting`). `met` and `torn` are history: an export that
another operation of its clone came in between.

Coarser than the code: while nothing fails, the files of an export are written in one
step, although the code writes them side by side (`backup.ts:682-688`), and a file is
written whole; `git add`, `diff` and `commit` are one step (`backup.ts:469-524`), so what
is committed is what the files are then.

## 3. Runs

| Run | Question | Bounds | Result |
|---|---|---|---|
| `queue` | Do the queue's invariants and the lease service hold under every interleaving, and does a silent holder lose its lease? | 2 jobs (one may be paused), 2 batches, budget 2, leases of 1, 2 claims per job, 4 instants over a reset | holds |
| `history` | Do extension, endpoint and queue together skip, double-charge or wedge, and does a stored batch leave the outbox? | 1 job, restarted at will, 2 posts, leases of 1, 2 claims, 2 lost requests or stops, a renamed profile, vanishing posts, one restore | holds |
| `history_replay` | Does a batch accepted by the endpoint end its lease? | 1 restarted job, 1 post, no failures | violated, see 6 |
| `backup` | Do budget, receipts and progress survive merges? | 1 job, 2 batches, 2 cursors, 2 claims, 4 instants over a reset | holds |
| `backup_stranded` | Can every leased job be reclaimed after a merge? | as `backup` | violated, see 6 |
| `scheduler` | Are slots, promises, signals and the cooldown right together, and is every call answered? | 3 requests, 1 slot, 1 signal, 2 instants in any order | holds |
| `paid` | Does the budget hold, and is payment rare, late and stopped by the bridge? | an account and a handle, a worker, a profile analysis, 2 watch lists, budget 2, threshold 2, 2 days; old rows valid or not | holds |
| `failover` | Does one worker live, with a chain that never breaks, and is the bridge replaced and returned to? | 2 workers, 2 watch lists, 3 instants, a manual run, a failing start | holds |
| `inbox` | Is nothing marked that was not stored, and does the inbox drain? | 2 events (one malformed), 2 workers, pages of 1, 2 instants, a crash, a failing write | holds |
| `collection` | Is early stop sound and the cache true? | 2 syncs with the account job's options or early stop alone, 3 items, pages of 1, caps of 2, one removal and return, a failure or crash | holds |
| `web_sync` | Is the promise chain a queue, and do the syncs over it keep their keys, their accounts and their word? | 2 jobs, 3 writes, 2 accounts, one change of the default | holds |
| `git_backup` | Is nothing dropped and everything pushed whole, and do rows travel? | 2 machines, a sync on each and an update beside one, 3 rows in 2 files, one failure or overlap | holds |

The properties of each run are named in its `.cfg` and explained above their
definitions. Where several facts answer one question they are conjuncts of one
property, each with a name and an explanation of its own: `RecordsAgree` is
`ChargedOnce /\ ProgressIsRecorded`, `PromisesKept` is `NothingForgotten`, `SignalsHeard` and
`AbortReachesTheTask`, and so on. The runs `history`, `failover`, `inbox` and `git_backup`
check the type invariants of their modules, which are also proved; the types of the other
modules, the shape of leases, the order of the writer and its metric are left to the proofs.

*Why the bounds are enough to be interesting.* A budget conflict takes two jobs
and a budget smaller than their allowances; two batches and two claims per job
show a replay, a stale holder beside a new one, and a lease that follows another;
the clock runs over a reset with a lease that would cross it. In the composition,
two posts with leases of one give a full and an empty batch and one that does not
reach the end, and two failures allow a lost answer and a stop during its recovery.
With one slot two of three requests wait, so that order matters; several slots, which
liveness makes too large for the checker, are in the proofs. In `paid` the worker, the
tool and the old row together exceed a budget of two, and a threshold of two makes an
outage last an interval. Two workers are an old one and its successor. Pages of one row
let equal arrival times meet a page's end; caps of two pages over three items end a walk half
way, and an item that comes back then stands above one that was never read. Three writes give a chain, a deleted entry and a chain begun anew; two jobs
meet in every stage. A sync beside an update is the least that can tear a clone, and two
machines the least that can race; one file holds rows of both and another of one, so that
files can be invalid, and valid with a file that the manifest does not list. The proofs of section 5 are free of these bounds.
`Horizon`, `MaxAttempts`, `MaxPosts`, `MaxSyncs`, `MaxFailures`, `Restores`, `Pausable`,
`Restartable`, `Troubled`, `Requests`, `Instants`, `MaxTime`, `MaxManual`, `MaxCrashes`,
`MaxHandlers`, `MaxTop`, `MaxRemovals`, `MaxChanges` and `MaxTroubles` are bounds and are marked so
where they are declared. `CHECK_DEADLOCK FALSE` is set because the bounded clocks and
counters end every behaviour. Symmetry is used in the safety runs `backup` and
`collection` only.

*What a property would catch.* For each property of a passing run `PROJECT.json`
names a mutant, a plausible wrong version of one definition, with which TLC finds
the property violated: a quota that forgets live leases, a reclaim that forgets yesterday's, a replay that is not recognised, a holder whose expiry is not
checked, a lease that serves several batches, a cursor that passes posts that were
not sent, a merge that adds counts, a worker spawned beside another, a replay that
pages by time alone, a map entry deleted under a later write, a key worked out anew when
a job settles, a failed walk that stores what it has, and others. They are marked `mutant` in the
modules.

## 4. Fairness

`FairSpec` (queue): time passes, and claims keep coming. The second is the
recurring alarm of the companion, which every five minutes asks for work; it is
not assumed of the holder of any particular lease.

`HistoryFairSpec`: the worker takes its next step when it has one (its alarms fire
every minute, and its operations end by themselves), and a current request
reaches the endpoint. Failures are not fair, and there are at most `MaxFailures`
of them; the clock, the user and Twillot owe nothing. `OutboxDrains` therefore does
not rest on a lease expiring.

`FairSpec` (scheduler): a task's promise settles and its `finally` runs. A task is a
fetch, which the server answers or the browser gives up; the scheduler itself has
no timeout, so without this a slot may be held for ever.

`FairSpec` (failover): the manager's interval fires, awaits end and timers fire; the
bridge, the user and the watch list owe nothing. A backfill ends, because its requests
have time limits. `StandbyReached` and `TakenOver` assume a bridge that stays.

`InboxFairSpec` (inbox): the write queue serves a handler and a replay in turn
(`NeverWedged`, which is proved, and the engine's reactions). Workers are not started by
fairness: `PendingDrains` assumes that they are started again and again, as the manager
does, and there are boundedly many failures.

`SyncFairSpec` (web sync): fetches end, since transports are child processes and
requests with time limits; timers fire and promise reactions run. Nothing makes a user
start a job or the bridge change an account.

`GitFairSpec` (Git backup): syncs are run again and again, as the scheduled jobs end with one
every few hours, and an operation that has begun ends. Updates, new rows and failures
are not fair.

## 5. Proofs

Every safety property of every passing run, invariant, action property or refinement, is
also a theorem, proved for every value of the constants that satisfies the named
assumptions. So are the types of every component's state. What is left to TLC is liveness.

*Queue.* `TwillotQueueProofs` proves that

* `TypeCorrect`: `Spec => []TypeOK`;
* `LeaseShapeHolds`: `Spec => []LeaseShape`;
* `QuotaHolds`: `Spec => []QuotaRespected`;
* `OneBatchHolds`: `Spec => []OneBatchPerLease`;
* `RecordsHold`: `Spec => []RecordsAgree`, from `ProgressHolds` and `ChargedOnceHolds`;
* `LeaseImplemented`: `Spec => ImplementsLease`.

The assumptions of `TwillotQueue` are a finite set of jobs, a positive limit, positive
lease and day lengths, an offset smaller than a day, caps that are positive, and sentinels
that are not values. `HistoryAssumption` adds how the composition names things: cursors
are posts, batch identifiers are what is digested (`BatchIds`), the statuses the endpoint
sends are among the queue's, and what may start again is a job. The other modules assume
finite sets of what they count (requests, paid clients, items, events), intervals and limits
that are natural numbers, positive where a zero would stop the code, and sentinels that
are not values (`NoneAssumption`, `NoBackfillAssumption`, `WorkersAssumption` and their
like). TLC evaluates each of them in a passing run.

`QuotaRespected` is not inductive. That a late batch cannot overdraw a day needs
the lease's own day to be the current one and its allowance to be still reserved,
which is the shape of a leased row; that a tick past midnight starts from an
unspent day needs every lease to end with its day. The inductive invariant is
`IInv == TypeOK /\ LeaseShape /\ QuotaRespected`. The reservation is the size of a
set of (job, unit) pairs rather than a recursive sum: adding or removing one job's
allowance is then the size of a disjoint union (`UnitsAdded`, `UnitsRemoved`), and
the loss of a lease is a subset (`FewerUnits`, `ReclaimedReserves`). The lemmas about
days (`DayBounds`, `DayMonotone`, `ResetAhead`) are the arithmetic of the reset.
`QuotaStep` has one step per action.

*Receipts.* `OneBatchPerLease` needs to know where tokens come from: a receipt names
a token that was granted to its job, and never the token of the live lease
(`ReceiptTokens`). With it, a new receipt, which names the live token, meets no
old one. `ProgressIsRecorded` and the refinement also need that a row never
enqueued has no history (`AbsentRows`). The invariant is
`RInv == IInv /\ AbsentRows /\ ReceiptTokens`. Only `CompleteBatch` records anything;
what every other step leaves alone is stated once (`Quiet`, `QuietOrBatch`). For
`ChargedOnce` a receipt stands for the set of its (batch, record) pairs, and a new
batch identifier adds a set disjoint from all others (`RecordsAdded`).

*Refinement.* `Phase` and `Holder` are what the lease service sees of a row. The
proof has one lemma per visible step (`GrantSeen`, `BatchSeen`, `FailSeen`,
`TickSeen`), and shows that reclaiming, fruitless claims, renewals and status
reports are not seen (`ReclaimUnseen`, `FruitlessClaim`, `HolderUnseen`).

*Scheduler.* `TimelineSchedulerProofs` proves `SchedulerTypes`, `SlotsHold`,
`PromisesHold`, `CooldownKept` and `OrderKept`: every safety property of the run `scheduler`, for any number of requests, signals and slots and any clock.
The invariant `SInv` adds where a request may be (`Places`), that a closed queue is
empty (`QueueOpen`) and that arrivals are distinct (`Line`). The crux is the loop of
`Drain`: what waits is alive, so nothing is dropped (`DrainLive`); a pushed request
takes a slot only if nobody waits (`QueuedEffect`); and a slot given back is the only
free one, so exactly the head of the queue takes it (`FreedEffect`, from
`HeadShifted`, which rests on `<` being well-founded).

*Companion.* `TwillotHistoryProofs` proves `HistoryTyped`, `StorageStaysInAgreement`,
`EveryPostReadOnce` and `FreshExportsComplete` of the whole composition: any number of
jobs and posts, any order in which requests are lost, served late or answered, any stops,
restores and restarts. The invariant is `HInv == ServerInv /\ StorageInv /\ Talk`. What a
lease, a batch or a capture must satisfy is the same wherever it is kept, in Chrome's
storage, in a request that is in flight or in an answer that is late; so `KnownLeases`,
`KnownBatches` and `KnownCaptures` say it once, as the sets of what may be kept anywhere.
These sets only grow (`StillKnown`): a step of the server is looked at once and not with
every place a lease may be, and a step of the worker only moves what is known. A lease is
known if its token was given, and one with the token of the job's live lease agrees with the row;
`ReadHere`, `ImportedBehind` and `TokenGiven` are needed because a restore forgets the
attempts of a job. That no post is charged twice needs that the batches with receipts lie
behind the cursor and a new one does not; that a job completes only after a fresh
export needs that no baseline kept for it is older than its first lease (`firstSync`),
although captures are kept from one lease to the next.

*Paid requests.* `Twitter6551StateProofs` proves `StateTypes`, `BudgetHolds` (from
`HardLimitHolds` and `CorruptBlocksHolds`), `OneAttemptHolds`, `CooldownHolds` and `OutageHolds`, for any numbers of
workers, tools and accounts, any budget, threshold, interval and cooldown. The limit
needs that what is counted covers what is sent plus what is about to be: a set of
clients of a day, which a reservation extends and a request shrinks. `OutageHolds` rests
on an invariant of the streak: a row with n counted failures began its outage at least
n - 1 intervals before the last of them, whoever recorded them and under whichever
scope; `CooldownHolds` on a paid time that only a claim changes.

*Failover and inbox.* `Twitter6551WorkersProofs` proves `FailoverTyped`, `OneChainLives`,
`StoppedStaysQuiet` and `DueTimeIsKept` for any workers, watch lists, interval, manual runs
and failing starts. `FailoverInv` adds to the two halves of `OneLiveChain` (`LiveIsActive`,
`ChainKept`) that no attempt and no backfill lies in the future (`NothingAhead`), so that a
delay is never longer than the interval; that a stopped worker has no timer
(`StoppedIsDisarmed`); and that until two backfills overlap the table of attempts is never
behind the last backfill of a scope, and one that runs began last of all
(`TableIsCurrent`). Of the inbox it proves `InboxTyped`, `InboxIsKept` and
`ReplayIsComplete`, for any events, pages, crashes and failing writes. `InboxInv` says that
a handler past its first write has its row and past its second its tweet
(`HandlersWroteFirst`), that a replay remembers only rows of the table (`ReplaysReadRows`),
and that what it still owes is on its page, behind its cursor and page, or in the hands of
its own handler (`OwedIsAhead`), whatever rows arrive meanwhile with equal times.

*Backups.* `BackupProofs` proves `RecordsSurviveMerges` of `TwillotBackup`. The queue's own
invariant does not survive a merge, because `LeaseShape` does not: a leased row may
lose its lease (section 6). `BackupInv` keeps what does: that every lease is charged to a
day that has begun (`LeasesStarted`, which is all that the budget needs of `LeaseShape`), and that the
tables have gone on since the export (`ShardIsPast`), by which each column's rule of the
merge is judged. Of `GitBackup` it proves `ClonesTyped`, `PushesAreWhole` and
`PushesDropNothing`, for any machines, rows, files, syncs and failures. `GitInv` says, until an
export has met another operation of its clone, that every commit has a manifest that
describes it and none drops a row (`LogsGood`), that neither the files nor the manifest
ever lack a row of the last commit, half written or not (`FilesCover`), that no two operations of a clone export
at a time (`Alone`), and what an undisturbed sync carries from its pull to its
commit (`OnCourse`).

*Write queue and web sync.* `WebSyncProofs` proves `WriterTypes`, `InOrderHolds`,
`NeverWedgedHolds`, `QueuedHolds` and `WriterImplements`. `InOrder` is not inductive: that a call without a
predecessor may run at once needs that no tail means nothing waits (`TailGuards`), that
the tail is the last call of its database (`TailIsLast`), and that a waiting write is
chained to the call just before it unless all before it were executed (`Chained`). Every
step of the composition is a step of the writer or none (`WriterSees`), so the order and
the refinement hold under the syncs too (`SyncedInOrder`, `SyncedImplements`). About
the composition itself it proves `SyncTypes`, `SnapshotsHold`
and `SyncsStayApart`, for any number of jobs, accounts and writes and any
changes of the default. The invariant adds that a job works for the account of its key
unless the default changed since (`Faithful`) and awaits the write its success is
reported for (`Stored`), which needs the writer's own invariant beside it.

*Early stop.* `CollectionSyncProofs` proves `CollectionTypes`, `EarlyStopHolds` and
`CacheIsStoredHolds`, for any syncs, items, page size, caps and mixture of options: with
and without `--all`, limits and early stop, by xurl, by bird or by both. The run takes the
options of the account job and early stop alone; the rest is in the theorem only.
`EarlyStopIsSound` has three parts. `NoGap`: an item that is missing below a local one lies
below a break, so early stop, failures and syncs side by side make no gap of their own.
`SyncCovers`: a sync that went well stored all down to the first break. `WindowIsLocal`: as
long as nothing is removed, it leaves the newest pages local, as many as every option in
use reaches, which is what lets
`docs/sync.md:61` and `75` recommend a page limit with early stop for scheduled syncs.
The invariant `IInv` says of each walk that from its token up everything is local or found
but for breaks, and of each answer that only its token can become a new break (the lemmas
`AddStep` to `WriteStep`, one per action). A page that is local ends a walk because the
store has no gap but at breaks. For the window the items above a token are counted: a walk
has read as many pages as lie above it, so a break is never inside the window (`Counted`,
`PagesGrow`, `OneMorePage`, `WindowFollows`).

*Only model-checked:* liveness (`SilentLeaseEnds`, `OutboxDrains`, `EveryCallAnswered`,
`FollowsBridge`, `PendingDrains`, `JobsForgotten`, `RowsTravel`, `RowsArrive`), since the
prover handles neither fairness nor `ENABLED`; and the two properties of section 6 that
the code violates.

## 6. Findings

* **A merge can strand a leased job** (`backup_stranded`). The merge nulls the
  lease columns of the local row on every conflict but takes the state of the
  later row, so a job leased since the last export stays `leased` with no lease:
  the reclaim asks for an expiry in the past and finds null, and no other
  operation accepts the row. `docs/backup.md` promises resumable jobs.
* **A restarted job can replay its old batch for ever** (`history_replay`). The
  fallback resets a finished job to its newest post and leaves its receipts; over
  an unchanged library the first batch has its old identifier and is answered `ok`
  from the receipt, without ending the lease or moving the cursor. The extension's
  README expects the next cursor after an accepted batch.

### Behaviour no run is about

Met while modelling; the properties are stated so as not to claim more.

* *A paid batch outlives the bridge's return by one attempt*, and a profile analysis has
  no gate: `OneAttemptAfterReturn` is stated of workers, and as at most one.
* *A late failing start forgets the successor* (`twitter-6551.ts:2405`): its catch resets
  `activeWorker`, so a worker can live on that no reconciliation stops (`orphaned`).
* *A stopped worker's backfill may write an older attempt over a newer one*
  (`twitter-6551.ts:1970`), after which a scope is polled early (`overlapped`).
* *Events without an id* are stored again by every replay; *an event handled under an old
  configuration* is marked as ignored although its account has been added since.
* *Early stop ends at local items that stand above missing ones* (`timeline-collections-live.ts:252`).
  A walk that its limit ended leaves what is below it unread, and later walks end above
  it. `docs/sync.md:61` says that a run after a long absence walks back as far as
  `--max-pages` allows; a full page of items that were removed and added again ends it at
  the first page, since their rows stayed local, and every later one there too. `NoGap`,
  `SyncCovers` and `WindowIsLocal` say exactly what remains: gaps are below breaks only.
* *A push that lost its race leaves the clone diverged* (`backup.ts:528`, `625`): the rejected
  push fails that sync, its commit stays, later pulls are refused without an error, and every
  later push fails again. *An export that ended before its manifest* may leave files that
  every later sync refuses with an error (`backup.ts:1061`). Both are `Stuck` in `GitBackup`.
* *An update that pulls between another sync's import and its commit* can drop rows or tear
  the files (`torn`). The sync need not even reach its commit: if it is stopped after its
  manifest, that manifest does not list a file which the update pulled; the next sync finds
  the files valid, imports without that file and removes it as stale.
* *Mention threads resolve the default account anew* (`web-sync.ts:187`): after a change two
  syncs may hydrate for one account; *a thread that could not be written* is part of a
  successful sync.
* *Two machines* each download up to the daily limit of the queue, and the same job made on
  both has two ids, so the receipts of the other are skipped by the merge
  (`backup-table-codecs.ts:1523`).

## 7. Not modelled, and the plan

Left out of the modelled parts: tab and page handling of the extension, pairing
and settings, the projection of posts, byte limits, the alarms themselves (one-shot
alarms replace the periodic ones under the same names), read-only status queries,
merges of the queue's tables between two machines; the HTTP client and the WebSocket
connection of 6551 and the conversion of its data; pages stored as they come, by the
importers that do so; the freshness check and the shared promise of the automatic
backup; the admission counter of requests; and everything a row of the backup consists of.

`ScheduledJobLock` is not modelled because its lease, refresh and takeover are those of
the library `proper-lockfile`, of which the repository sets only the options. The profile
lock of the cloud worker races with a browser's own files, follow graph snapshots are one
transaction each, and the scheduled syncs run steps that are modelled one after another.

What would come next: the registration and reconnection of the 6551 WebSocket composed with
the inbox; and the queue's tables inside `GitBackup`, where two machines merge both
ways.

Digest schedulers, moderation, media, archive import, read models, web interface
and command line are not planned: they are single-actor sequences, conversions or
pure I/O, which tests reach.
