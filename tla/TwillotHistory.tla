---------------------------- MODULE TwillotHistory ----------------------------
(***************************************************************************)
(* The history queue together with the companion extension that empties    *)
(* it (integrations/twillot-companion/birdclaw-twillot-worker.js), the     *)
(* endpoint between them (applyTwillotCompanionSubmission) and the library *)
(* of posts Twillot keeps in the browser.                                  *)
(*                                                                         *)
(* The extension's operations are serialized, so one is running at a time; *)
(* what survives its end is chrome.storage.local: the active job, the      *)
(* captures and the outbox.  A step of an operation ends where it awaits a *)
(* request or has written one key.  The extension may be stopped between   *)
(* any two steps, and a request or its answer may be lost or late.         *)
(*                                                                         *)
(* Abstractions.  A post is a number, newer posts are larger; a job's      *)
(* cursor is the last post read.  A batch identifier is a digest, so it is *)
(* what is digested.  Byte limits of a batch are left out: a batch is as   *)
(* long as its lease allows.  Backoff is an arbitrary delay.               *)
(***************************************************************************)
EXTENDS TwillotQueue, Sequences, FiniteSetsExt

CONSTANTS
    MaxPosts,     \* bound: posts of a person
    MaxSyncs,     \* bound: exports the user runs per person
    MaxFailures,  \* bound: lost requests, lost answers and stops
    Restartable,  \* bound: jobs the cloud collector ever restarts
    Troubled,     \* bound: jobs whose Twillot data may be refused for good
    Restores      \* bound: backups restored over the database

Posts == 1..MaxPosts
BatchIds == [job : Jobs, before : Posts \cup {NoCursor},
             records : SUBSET Posts, done : BOOLEAN]

ASSUME HistoryAssumption ==
    /\ MaxPosts \in Nat /\ MaxSyncs \in Nat
    /\ MaxFailures \in Nat /\ Restores \in Nat
    /\ Cursors = Posts
    /\ Batches = BatchIds
    /\ {"waiting_for_twillot", "ingesting"} \subseteq LeaseStatuses
    /\ Restartable \subseteq Jobs

VARIABLES
    library,   \* Twillot's posts of each person
    lastSync,  \* Twillot's lastSyncTime of each person, 0 when it has none
    active,    \* storage: the leased job, or Null
    capture,   \* storage: the freshness baseline of each job, or Null
    outbox,    \* storage: the batch waiting to be accepted, or Null
    running,   \* the request the running operation awaits, or "idle"
    removing,  \* storage keys the running operation has yet to remove
    net,       \* requests that have not been served
    reply,     \* the answer that has arrived (and the job of a claim), or Null
    failures,  \* failures so far; the number on a request tells late ones
    restores,  \* restores so far
    gone,      \* job ids a restore has dropped: a new row has a new id
    again,     \* history: jobs the cloud collector has started again
    firstSync  \* history: lastSync of a job's person when it was first leased

library_vars == <<library, lastSync>>
restore_vars == <<restores, gone, again>>
server_vars == <<vars, library_vars, restore_vars, firstSync>>
storage == <<active, capture, outbox>>
history_vars == <<vars, library_vars, storage, running, removing, net, reply,
                  failures, restore_vars, firstSync>>

-----------------------------------------------------------------------------
(* What a scan reads.                                                      *)

Unread(lease) ==
    {p \in library[lease.job] : lease.cursor = NoCursor \/ p < lease.cursor}

CursorFound(lease) ==
    lease.cursor = NoCursor \/ lease.cursor \in library[lease.job]

(* The newest posts behind the cursor, as many as the lease allows, and    *)
(* the cursor after them.                                                  *)
Newest(S, n) == {p \in S : Cardinality({q \in S : q > p}) < n}
RecordsOfBatch(lease) == Newest(Unread(lease), lease.allowance)

OldestUnread(lease, records) ==  \* mutant: the cursor passes what was not read
    IF records = {} THEN lease.cursor ELSE Min(Unread(lease))
NoCursorWhenEmpty(lease, records) ==  \* mutant
    IF records = {} THEN Null ELSE Min(records)
CursorAfter(lease, records) ==
    IF records = {} THEN lease.cursor ELSE Min(records)

BatchFrom(lease) ==
    LET records == RecordsOfBatch(lease)
        done == records = Unread(lease)
    IN [batch |-> [job |-> lease.job, before |-> lease.cursor,
                   records |-> records, done |-> done],
        job |-> lease.job, token |-> lease.token,
        count |-> Cardinality(records), done |-> done,
        cursor |-> CursorAfter(lease, records)]

(* Freshness: Twillot must have synced after the baseline, and two scans   *)
(* must have seen the same sync.  A pending baseline could not be read.    *)
Pending == -1
Baseline(sync) == [base |-> sync, observed |-> 0, approved |-> 0]

Approved(c, sync) == sync # 0 /\ c.approved = sync

NotOlderThanBaseline(c, sync) == sync # 0 /\ sync >= c.base  \* mutant
SyncedSinceBaseline(c, sync) == sync > c.base /\ c.observed = sync

Ready(c, sync) ==
    /\ c # Null
    /\ c.base # Pending
    /\ Approved(c, sync) \/ SyncedSinceBaseline(c, sync)

Watched(c, sync) ==
    IF c = Null \/ c.base = Pending THEN Baseline(sync)
    ELSE [c EXCEPT !.observed = IF sync > c.base THEN sync ELSE 0]

-----------------------------------------------------------------------------
Idle == running = "idle" /\ removing = <<>>

Send(kind, body) ==
    /\ net' = net \cup {[kind |-> kind, body |-> body, number |-> failures]}
    /\ running' = kind

(* claimNextJob with nothing stored.                                       *)
AskForJob ==
    /\ Idle
    /\ active = Null /\ outbox = Null
    /\ Send("claim", Null)
    /\ UNCHANGED <<server_vars, storage, removing, reply, failures>>

Answered(a) == reply # Null /\ reply.answer = a
GotJob == running = "claim" /\ Answered("job")

(* The capture of the claimed job is saved before the job is.              *)
SaveBaseline ==
    /\ GotJob
    /\ \/ capture[reply.lease.job] # Null /\ UNCHANGED capture
       \/ /\ capture[reply.lease.job] = Null
          /\ \E c \in {Baseline(lastSync[reply.lease.job]), Baseline(Pending)} :
               capture' = [capture EXCEPT ![reply.lease.job] = c]
    /\ running' = "claimed"
    /\ UNCHANGED <<server_vars, active, outbox, removing, net, reply,
                   failures>>

SaveJob ==
    /\ running = "claimed"
    /\ active' = reply.lease
    /\ running' = "idle"
    /\ reply' = Null
    /\ UNCHANGED <<server_vars, capture, outbox, removing, net, failures>>

QueueEmpty ==
    /\ running = "claim" /\ Answered("no job")
    /\ running' = "idle"
    /\ reply' = Null
    /\ UNCHANGED <<server_vars, storage, removing, net, failures>>

(* Twillot's schema is not the audited one: the claimed job is given up.   *)
SchemaBlocked ==
    /\ GotJob
    /\ reply.lease.job \in Troubled /\ capture[reply.lease.job] = Null
    /\ Send("error", [job |-> reply.lease.job, token |-> reply.lease.token])
    /\ reply' = Null
    /\ UNCHANGED <<server_vars, storage, removing, failures>>

-----------------------------------------------------------------------------
(* scanActiveJob with a job and an empty outbox.                           *)

Scanning == Idle /\ active # Null /\ outbox = Null

ScanWaits ==
    /\ Scanning
    /\ LET j == active.job
           c == capture[j]
       IN /\ ~(c # Null /\ c.base # Pending /\ Approved(c, lastSync[j]))
          /\ capture' = [capture EXCEPT ![j] = Watched(c, lastSync[j])]
          /\ Send("heartbeat", [job |-> j, token |-> active.token])
    /\ UNCHANGED <<server_vars, active, outbox, removing, reply, failures>>

Approve ==
    capture' = [capture EXCEPT ![active.job].approved = lastSync[active.job]]

ScanReads ==
    /\ Scanning
    /\ Ready(capture[active.job], lastSync[active.job])
    /\ CursorFound(active)
    /\ Approve
    /\ outbox' = BatchFrom(active)
    /\ UNCHANGED <<server_vars, active, running, removing, net, reply,
                   failures>>

ScanFails ==
    /\ Scanning
    /\ Ready(capture[active.job], lastSync[active.job])
    /\ ~CursorFound(active) \/ active.job \in Troubled
    /\ Approve
    /\ Send("error", [job |-> active.job, token |-> active.token])
    /\ UNCHANGED <<server_vars, active, outbox, removing, reply, failures>>

(* flushOutbox.                                                            *)
SendOutbox ==
    /\ Idle
    /\ outbox # Null
    /\ Send("batch", outbox)
    /\ UNCHANGED <<server_vars, storage, removing, reply, failures>>

-----------------------------------------------------------------------------
(* The endpoint.  An answer reaches the extension only if it still waits.  *)

Answer(m, a, lease) ==
    /\ net' = net \ {m}
    /\ reply' = IF m.number = failures THEN [answer |-> a, lease |-> lease]
                ELSE reply
    /\ UNCHANGED <<library_vars, storage, running, removing, failures,
                   restore_vars>>

ServeClaim(m) ==
    /\ m.kind = "claim"
    /\ \/ /\ ClaimDefers \/ ClaimFindsNothing
          /\ Answer(m, "no job", Null)
          /\ UNCHANGED firstSync
       \/ \E j \in Jobs, cap \in Caps :
            /\ ClaimGrants(j, cap)
            /\ Answer(m, "job", [job |-> j, token |-> job'[j].token,
                          cursor |-> job'[j].cursor,
                          allowance |-> job'[j].allowance])
            /\ firstSync' = IF job[j].attempts = 0
                            THEN [firstSync EXCEPT ![j] = lastSync[j]]
                            ELSE firstSync

ServeHeartbeat(m) ==
    /\ m.kind = "heartbeat"
    /\ UNCHANGED firstSync
    /\ LET r == job[m.body.job]
       IN IF HoldsLease(r, m.body.token) /\ r.leaseDay = Today
          THEN /\ Renew(m.body.job, m.body.token, "waiting_for_twillot")
               /\ Answer(m, "ok", Null)
          ELSE UNCHANGED vars /\ Answer(m, "STALE_LEASE", Null)

ServeError(m) ==
    /\ m.kind = "error"
    /\ UNCHANGED firstSync
    /\ IF HoldsLease(job[m.body.job], m.body.token)
       THEN Fail(m.body.job, m.body.token) /\ Answer(m, "ok", Null)
       ELSE UNCHANGED vars /\ Answer(m, "STALE_LEASE", Null)

(* The profile was renamed: its posts do not carry the job's handle.       *)
RejectBatch(m) ==
    /\ m.kind = "batch"
    /\ UNCHANGED firstSync
    /\ m.body.job \in Troubled /\ m.body.count > 0
    /\ UNCHANGED vars
    /\ Answer(m, "TARGET_MISMATCH", Null)

(* A leased job is marked 'ingesting' by its live holder before the batch  *)
(* is looked at; anyone else is turned away by that mark.                  *)
ServeBatch(m) ==
    /\ m.kind = "batch"
    /\ UNCHANGED firstSync
    /\ LET s == m.body
           r == job[s.job]
           held == HoldsLease(r, s.token)
           marked == IF held THEN [job EXCEPT ![s.job].capture = "ingesting"]
                     ELSE job
       IN \/ /\ r.state = "absent"
             /\ UNCHANGED vars
             /\ Answer(m, "INTERNAL_ERROR", Null)
          \/ /\ r.state = "leased" /\ ~held
             /\ UNCHANGED vars
             /\ Answer(m, "STALE_LEASE", Null)
          \/ /\ r.state # "absent" /\ (r.state = "leased" => held)
             /\ CompleteBatch(s)
             /\ Answer(m, "ok", Null)
          \/ /\ r.state # "absent" /\ (r.state = "leased" => held)
             /\ BatchOutcome(s) # "accepted"
             /\ job' = marked
             /\ UNCHANGED <<now, receipts, usage, paused>>
             /\ Answer(m, IF BatchOutcome(s) = "replayed" THEN "ok"
                          ELSE BatchOutcome(s), Null)

Serve(m) ==
    ServeClaim(m) \/ ServeHeartbeat(m) \/ ServeError(m) \/ RejectBatch(m)
        \/ ServeBatch(m)

-----------------------------------------------------------------------------
(* What the extension does with an answer: the keys it removes, in order.  *)

Keys(j, names) == [i \in DOMAIN names |-> [key |-> names[i], job |-> j]]

Finish(keys) ==
    /\ removing' = keys
    /\ running' = "idle"
    /\ reply' = Null
    /\ UNCHANGED <<server_vars, storage, net, failures>>

HeartbeatAnswered ==
    /\ running = "heartbeat" /\ reply # Null
    /\ Finish(IF Answered("STALE_LEASE") THEN Keys(active.job, <<"active">>)
              ELSE <<>>)

BatchAccepted ==
    /\ running = "batch" /\ Answered("ok")
    /\ Finish(Keys(outbox.job, IF outbox.done
                               THEN <<"active", "capture", "outbox">>
                               ELSE <<"active", "outbox">>))

BatchStaleKept ==  \* mutant: drops the job but not the batch
    /\ running = "batch" /\ Answered("STALE_LEASE")
    /\ Finish(Keys(outbox.job, <<"active">>))
BatchStale ==
    /\ running = "batch" /\ Answered("STALE_LEASE")
    /\ Finish(Keys(outbox.job, <<"active", "outbox">>))

BatchMismatched ==
    /\ running = "batch" /\ Answered("TARGET_MISMATCH")
    /\ IF active # Null /\ active.job = outbox.job
       THEN /\ Send("error", [job |-> active.job, token |-> active.token])
            /\ reply' = Null
            /\ UNCHANGED <<server_vars, storage, removing, failures>>
       ELSE Finish(Keys(outbox.job, <<"outbox", "capture">>))

(* Any other refusal: the batch stays and is sent again after a while.     *)
BatchRefused ==
    /\ running = "batch" /\ reply # Null
    /\ reply.answer \notin {"ok", "STALE_LEASE", "TARGET_MISMATCH"}
    /\ Finish(<<>>)

(* What follows a reported error, whatever the endpoint answered.          *)
AfterError ==
    IF outbox # Null THEN Keys(outbox.job, <<"active", "outbox", "capture">>)
    ELSE IF active # Null THEN Keys(active.job, <<"active", "capture">>)
         ELSE <<>>

ErrorAnswered ==
    /\ running = "error" /\ reply # Null
    /\ Finish(AfterError)

RemoveKey ==
    /\ removing # <<>>
    /\ LET k == Head(removing)
       IN /\ active' = IF k.key = "active" /\ active # Null /\ active.job = k.job
                       THEN Null ELSE active
          /\ capture' = IF k.key = "capture" THEN [capture EXCEPT ![k.job] = Null]
                        ELSE capture
          /\ outbox' = IF k.key = "outbox" THEN Null ELSE outbox
    /\ removing' = Tail(removing)
    /\ UNCHANGED <<server_vars, running, net, reply, failures>>

-----------------------------------------------------------------------------
(* Failures.  A request that was given up may still be served later, and   *)
(* one that was served may have lost its answer.                           *)

RequestFails ==
    /\ running \in {"claim", "heartbeat", "batch", "error"}
    /\ failures < MaxFailures
    /\ failures' = failures + 1
    /\ running' = "idle"
    /\ removing' = IF running = "error" THEN AfterError ELSE <<>>
    /\ reply' = Null
    /\ UNCHANGED <<server_vars, storage, net>>

Stop ==
    /\ ~Idle
    /\ failures < MaxFailures
    /\ failures' = failures + 1
    /\ running' = "idle"
    /\ removing' = <<>>
    /\ reply' = Null
    /\ UNCHANGED <<server_vars, storage, net>>

-----------------------------------------------------------------------------
(* The surroundings: Twillot, the user, the cloud collector, the clock.    *)

Surrounded ==
    UNCHANGED <<storage, running, removing, net, reply, failures, firstSync>>

Arrive(j) ==
    /\ \E p \in Posts :
         /\ p = 1 \/ p - 1 \in library[j]
         /\ \A q \in library[j] : q < p
         /\ library' = [library EXCEPT ![j] = @ \cup {p}]
    /\ UNCHANGED <<vars, lastSync, restore_vars>>
    /\ Surrounded

Lose(j) ==
    /\ j \in Troubled
    /\ \E p, q \in library[j] : p < q /\ library' = [library EXCEPT ![j] = @ \ {p}]
    /\ UNCHANGED <<vars, lastSync, restore_vars>>
    /\ Surrounded

Export(j) ==
    /\ lastSync[j] < MaxSyncs
    /\ lastSync' = [lastSync EXCEPT ![j] = @ + 1]
    /\ UNCHANGED <<vars, library, restore_vars>>
    /\ Surrounded

QueueStep ==
    /\ \/ \E j \in Jobs \ gone : Enqueue(j)
       \/ \E j \in Jobs : RetryFailed(j) \/ VerifyComplete(j)
       \/ Tick
    /\ UNCHANGED <<library_vars, restore_vars>>
    /\ Surrounded

StartAgain(j) ==
    /\ QueueFallback(j)
    /\ again' = again \cup {j}
    /\ UNCHANGED <<library_vars, restores, gone>>
    /\ Surrounded

(* A backup older than every job replaces the database (clearBackupImport).*)
Restore ==
    /\ restores < Restores
    /\ restores' = restores + 1
    /\ gone' = gone \cup {j \in Jobs : job[j].state # "absent"}
    /\ job' = [j \in Jobs |-> AbsentRow]
    /\ receipts' = {}
    /\ usage' = [d \in Days |-> 0]
    /\ UNCHANGED <<now, paused, library_vars, again>>
    /\ Surrounded

CompanionStep ==
    \/ AskForJob \/ SaveBaseline \/ SaveJob \/ QueueEmpty \/ SchemaBlocked
    \/ ScanWaits \/ ScanReads \/ ScanFails \/ SendOutbox
    \/ HeartbeatAnswered \/ BatchAccepted \/ BatchStale \/ BatchMismatched
    \/ BatchRefused \/ ErrorAnswered \/ RemoveKey

ServeNext == \E m \in net : m.number = failures /\ Serve(m)
ServeLate == \E m \in net : m.number # failures /\ Serve(m)

HistoryInit ==
    /\ Init
    /\ library \in [Jobs -> {1..n : n \in 0..MaxPosts}]
    /\ lastSync \in [Jobs -> 0..1]
    /\ firstSync = [j \in Jobs |-> 0]
    /\ restores = 0 /\ gone = {} /\ again = {}
    /\ active = Null /\ outbox = Null
    /\ capture = [j \in Jobs |-> Null]
    /\ running = "idle" /\ removing = <<>>
    /\ net = {} /\ reply = Null /\ failures = 0

HistoryNext ==
    \/ CompanionStep \/ ServeNext \/ ServeLate \/ RequestFails \/ Stop
    \/ QueueStep \/ Restore
    \/ \E j \in Restartable : StartAgain(j)
    \/ \E j \in Jobs : Arrive(j) \/ Lose(j) \/ Export(j)

HistorySpec == HistoryInit /\ [][HistoryNext]_history_vars

(* The extension keeps running and its requests reach the endpoint; only   *)
(* finitely many of them fail.  Neither the clock nor the user is pressed. *)
HistoryFairSpec ==
    HistorySpec /\ WF_history_vars(CompanionStep) /\ WF_history_vars(ServeNext)

-----------------------------------------------------------------------------
Held == [job : Jobs, token : Nat, cursor : Posts \cup {NoCursor},
         allowance : Nat]
Body == [job : Jobs, token : Nat, batch : BatchIds, count : Nat,
         cursor : Posts \cup {NoCursor}, done : BOOLEAN]
Captured == [base : Nat \cup {Pending}, observed : Nat, approved : Nat]

(* The queue stays well typed under the companion, and storage holds jobs, *)
(* batches and baselines.                                                  *)
HistoryTypeOK ==
    /\ TypeOK
    /\ library \in [Jobs -> SUBSET Posts] /\ lastSync \in [Jobs -> Nat]
    /\ active \in Held \cup {Null} /\ outbox \in Body \cup {Null}
    /\ capture \in [Jobs -> Captured \cup {Null}]
    /\ running \in {"idle", "claim", "claimed", "heartbeat", "batch", "error"}
    /\ failures \in 0..MaxFailures /\ restores \in 0..Restores
    /\ gone \subseteq Jobs /\ again \subseteq Jobs /\ firstSync \in [Jobs -> Nat]

Imported(j) == UNION {r.batch.records : r \in {x \in receipts : x.job = j}}

(* No post is skipped: of the posts in Twillot's library that are not      *)
(* newer than what the import has seen, all those on the imported side of  *)
(* the server's cursor have been imported, and all of them once the job is *)
(* completed, however leases expire and answers are lost on the way.       *)
NothingSkipped ==
    \A j \in Jobs : \A p \in library[j] :
        /\ \E q \in Imported(j) : p <= q
        /\ \/ job[j].state = "completed"
           \/ job[j].cursor # NoCursor /\ p >= job[j].cursor
        => p \in Imported(j)

(* A post is charged to the daily budget once, although its batch may be   *)
(* sent again, or be cut differently after its lease was lost.  A job that *)
(* is started again reads, and charges, its posts again.                   *)
PostsChargedOnce ==
    \A r1, r2 \in {r \in receipts : r.job \notin again} :
        r1.job = r2.job /\ r1.batch.records \cap r2.batch.records # {} => r1 = r2

(* Every post is imported, and charged, exactly once: the cursor moves     *)
(* past a post only with the batch that carries it.                        *)
ReadOnce == NothingSkipped /\ PostsChargedOnce

(* The endpoint never refuses a stored batch for its content: the worker   *)
(* drops a batch only when it is accepted, stale or mismatched, and would  *)
(* send any other one for ever, blocking every job behind it.  (Only when  *)
(* a restored backup has dropped the job is that what happens.)            *)
OutboxAcceptable ==
    outbox # Null /\ outbox.job \notin gone =>
        BatchOutcome(outbox) \in {"accepted", "replayed", "STALE_LEASE"}

(* While the stored job's lease is the live one, the stored cursor and     *)
(* allowance are the server's: a scan never reads from a position another  *)
(* batch has already moved.                                                *)
StoredLeaseIsCurrent ==
    active # Null /\ HoldsLease(job[active.job], active.token) =>
        /\ active.cursor = job[active.job].cursor
        /\ active.allowance = job[active.job].allowance

(* What Chrome's storage keeps over stops and lost answers can still be    *)
(* used: the stored batch is acceptable, the stored lease that of the      *)
(* server.                                                                 *)
StorageAgrees == OutboxAcceptable /\ StoredLeaseIsCurrent

(* A completed job has imported an export that Twillot finished after the  *)
(* job was first leased: the cached library of an earlier one never counts *)
(* as caught up, however the job changed hands since.                      *)
CompletedFromFreshExport ==
    \A j \in Jobs \ again :
        job[j].state = "completed" => lastSync[j] > firstSync[j]

(* A saved batch always leaves the outbox, whatever finite number of       *)
(* requests and answers are lost, while no restored backup drops its job.  *)
OutboxDrains ==
    (outbox # Null /\ gone = {}) ~> (outbox = Null \/ gone # {})

(* Once the worker has dropped a batch as accepted, its lease is over: the *)
(* new request it then makes gets the next cursor.                         *)
AcceptedBatchEndsLease ==
    running = "batch" /\ Answered("ok") => job[outbox.job].token # outbox.token
=============================================================================
