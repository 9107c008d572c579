------------------------------- MODULE WebSync -------------------------------
(***************************************************************************)
(* The background syncs a user starts in the web interface (src/lib/       *)
(* web-sync.ts) over the write queue they share with everything else. A    *)
(* job is kept under its id and, while it runs, under a key of its kind    *)
(* and account, so that a second click joins it; when it has settled its   *)
(* snapshot can be polled until a timer drops it. A request that names no  *)
(* account means the default one, which may change while the job runs.     *)
(*                                                                         *)
(* Only the kinds with an account are modelled. The fetches are abstract:  *)
(* they end, well or not, and what they found is one write.                *)
(***************************************************************************)
EXTENDS DatabaseWriter

CONSTANTS
    Jobs,       \* jobs, each started at most once: an id is never used again
    Accounts,
    Kinds,
    Threaded,   \* the kinds that hydrate threads afterwards ("mentions")
    Main,       \* the database of the server
    MaxChanges, \* bound on changes of the default account
    FirstDefault

ASSUME SyncAssumption ==
    /\ None \notin Accounts \cup Jobs /\ Threaded \subseteq Kinds /\ Main \in Databases
    /\ MaxChanges \in Nat /\ FirstDefault \in Accounts

VARIABLES
    default,    \* the default account
    running,    \* runningSyncs: the job of a key, or None
    shown,      \* webSyncJobs: the status of a job's snapshot, or "unknown"
    key,        \* webSyncJobKeys
    timers,     \* completedJobCleanupTimers: the jobs that have one
    asked,      \* what a running job was asked for
    stage,      \* what it is doing
    target,     \* the account that works for
    awaits,     \* the queued write it awaits, or None
    wrote,      \* history: the write of a job's own items, or None
    switched,   \* history: jobs that ran for the default account while it changed
    changes     \* changes of the default account

tables == <<running, shown, key, timers>>
jobs == <<asked, stage, target, awaits>>
history == <<wrote, switched>>
setting == <<default, changes>>
sync_vars == <<vars, setting, tables, jobs, history>>

Keys == Kinds \X Accounts
Requests == [kind : Kinds, account : Accounts \cup {None}]

SyncTypeOK ==
    /\ default \in Accounts /\ changes \in 0 .. MaxChanges
    /\ running \in [Keys -> Jobs \cup {None}]
    /\ shown \in [Jobs -> {"unknown", "running", "succeeded", "failed"}]
    /\ key \in [Jobs -> Keys \cup {None}]
    /\ timers \subseteq Jobs
    /\ asked \in [Jobs -> Requests \cup {None}]
    /\ stage \in [Jobs -> {"new", "main", "threads", "backup", "settled"}]
    /\ target \in [Jobs -> Accounts \cup {None}]
    /\ awaits \in [Jobs -> Writes \cup {None}]
    /\ \A j \in Jobs : awaits[j] # None => stage[j] \in {"main", "threads", "backup"}
    /\ wrote \in [Jobs -> Writes \cup {None}] /\ switched \subseteq Jobs

SyncInit ==
    /\ Init /\ home = [w \in Writes |-> Main]
    /\ default = FirstDefault /\ changes = 0
    /\ running = [k \in Keys |-> None]
    /\ shown = [j \in Jobs |-> "unknown"]
    /\ key = [j \in Jobs |-> None]
    /\ timers = {}
    /\ asked = [j \in Jobs |-> None]
    /\ stage = [j \in Jobs |-> "new"]
    /\ target = [j \in Jobs |-> None]
    /\ awaits = [j \in Jobs |-> None]
    /\ wrote = [j \in Jobs |-> None] /\ switched = {}

-----------------------------------------------------------------------------
\* The next job, with a new id.
NextJob == CHOOSE j \in Jobs : stage[j] = "new"
MayStart == \E j \in Jobs : stage[j] = "new"

\* resolveLiveSyncAccount
Resolved(account) == IF account = None THEN default ELSE account

KeyUnresolved(r) ==  \* mutant: no account is an account of its own
    <<r.kind, IF r.account = None THEN FirstDefault ELSE r.account>>
KeyFor(r) == <<r.kind, Resolved(r.account)>>

KeyAgain(j) == KeyFor(asked[j])  \* mutant: the key is worked out anew
KeyOf(j) == key[j]

\* What a job that is over need not be told from others by.
Over(j) ==
    /\ stage' = [stage EXCEPT ![j] = "settled"]
    /\ asked' = [asked EXCEPT ![j] = None]
    /\ target' = [target EXCEPT ![j] = None]
    /\ awaits' = [awaits EXCEPT ![j] = None]
    /\ switched' = switched \ {j}

(* setJobSnapshot for a job that is over: the key is given back only by the *)
(* job it belongs to, and the snapshot is dropped some minutes later.      *)
Settle(j, status) ==
    LET k == KeyOf(j)
    IN  /\ shown' = [shown EXCEPT ![j] = status]
        /\ IF running[k] = j
           THEN /\ running' = [running EXCEPT ![k] = None]
                /\ timers' = timers \cup {j}
           ELSE UNCHANGED <<running, timers>>
        /\ Over(j)
        /\ UNCHANGED key

(* startWebSync: a request whose key is taken joins the running job. The   *)
(* first fetch resolves its account in the same turn as the key.           *)
Start(j, r) ==
    /\ running[KeyFor(r)] = None
    /\ running' = [running EXCEPT ![KeyFor(r)] = j]
    /\ shown' = [shown EXCEPT ![j] = "running"]
    /\ key' = [key EXCEPT ![j] = KeyFor(r)]
    /\ asked' = [asked EXCEPT ![j] = r]
    /\ stage' = [stage EXCEPT ![j] = "main"]
    /\ target' = [target EXCEPT ![j] = Resolved(r.account)]
    /\ UNCHANGED <<vars, setting, timers, awaits, history>>

\* The next write; calls name them in this order.
NextWrite == CHOOSE w \in Writes : state[w] = "new"
MayWrite == \E w \in Writes : state[w] = "new"

(* A fetch, of the items, of one thread or of the backup's files, has      *)
(* ended; what it found is queued: by runCachedLiveSyncEffect, or for      *)
(* mentions by mentions-live.ts itself (855-862).                          *)
Fetched(j) ==
    /\ stage[j] \in {"main", "threads", "backup"} /\ awaits[j] = None
    /\ MayWrite
    /\ Enqueue(NextWrite, Main)
    /\ awaits' = [awaits EXCEPT ![j] = NextWrite]
    /\ wrote' = IF stage[j] = "main" THEN [wrote EXCEPT ![j] = NextWrite] ELSE wrote
    /\ UNCHANGED <<setting, tables, asked, stage, target, switched>>

Fails(j) ==
    /\ stage[j] = "main" /\ awaits[j] = None
    /\ Settle(j, "failed")
    /\ UNCHANGED <<vars, setting, wrote>>

WriteEnded(j) == awaits[j] # None /\ Executed(awaits[j])

(* The next stage: the threads are fetched for the account, resolved anew. *)
AfterMain(j) ==
    /\ IF asked[j].kind \in Threaded
       THEN /\ stage' = [stage EXCEPT ![j] = "threads"]
            /\ target' = [target EXCEPT ![j] = Resolved(asked[j].account)]
       ELSE stage' = [stage EXCEPT ![j] = "backup"] /\ UNCHANGED target
    /\ awaits' = [awaits EXCEPT ![j] = None]
    /\ UNCHANGED <<tables, asked, switched>>

\* The account or its mentions cannot be read.
ThreadsRefused(j) == asked[j].kind \in Threaded /\ Settle(j, "failed")

\* Items that could not be written fail the job.
MainWritten(j) ==
    /\ stage[j] = "main" /\ WriteEnded(j)
    /\ IF state[awaits[j]] = "failed"
       THEN Settle(j, "failed")
       ELSE AfterMain(j) \/ ThreadsRefused(j)

\* A thread that could not be fetched or written does not.
ThreadWritten(j) ==
    /\ stage[j] = "threads" /\ WriteEnded(j)
    /\ awaits' = [awaits EXCEPT ![j] = None]
    /\ UNCHANGED <<tables, asked, stage, target, switched>>

ThreadsDone(j) ==
    /\ stage[j] = "threads" /\ awaits[j] = None
    /\ stage' = [stage EXCEPT ![j] = "backup"]
    /\ UNCHANGED <<tables, asked, target, awaits, switched>>

(* performWebSyncEffect ends with the automatic backup, whose failure is   *)
(* part of the result; only the note it takes of it may still fail the job.*)
BackedUp(j) ==
    /\ stage[j] = "backup"
    /\ awaits[j] = None \/ WriteEnded(j)
    /\ \E status \in {"succeeded", "failed"} : Settle(j, status)

Continues(j) ==
    \/ Fetched(j) \/ Fails(j)
    \/ /\ MainWritten(j) \/ ThreadWritten(j) \/ ThreadsDone(j) \/ BackedUp(j)
       /\ UNCHANGED <<vars, setting, wrote>>

Expire(j) ==
    /\ j \in timers
    /\ timers' = timers \ {j}
    /\ shown' = [shown EXCEPT ![j] = "unknown"]
    /\ key' = [key EXCEPT ![j] = None]
    /\ wrote' = [wrote EXCEPT ![j] = None]
    /\ UNCHANGED <<vars, setting, running, jobs, switched>>

-----------------------------------------------------------------------------
(* A batch of the local bridge merges accounts, which moves the default.   *)
ChangeDefault(a) ==
    /\ a # default /\ changes < MaxChanges
    /\ default' = a /\ changes' = changes + 1
    /\ switched' = switched \cup
           {j \in Jobs : stage[j] \in {"main", "threads"} /\ asked[j].account = None}
    /\ UNCHANGED <<vars, tables, jobs, wrote>>

\* Another part of the server, or of another database's, writes.
OtherWrite(d) ==
    /\ MayWrite
    /\ Enqueue(NextWrite, d)
    /\ UNCHANGED <<setting, tables, jobs, history>>

RunNext(w) == Run(w) /\ UNCHANGED <<setting, tables, jobs, history>>
SweepNext(w) == Sweep(w) /\ UNCHANGED <<setting, tables, jobs, history>>

SyncNext ==
    \/ \E r \in Requests : MayStart /\ Start(NextJob, r)
    \/ \E j \in Jobs : Continues(j) \/ Expire(j)
    \/ \E a \in Accounts : ChangeDefault(a)
    \/ \E d \in Databases : OtherWrite(d)
    \/ \E w \in Writes : RunNext(w) \/ SweepNext(w)

SyncSpec == SyncInit /\ [][SyncNext]_sync_vars

(* Fetches end: the transports are child processes and requests with time  *)
(* limits. Timers fire, and promise reactions run.                         *)
SyncFairSpec ==
    /\ SyncSpec
    /\ \A j \in Jobs : WF_sync_vars(Continues(j)) /\ WF_sync_vars(Expire(j))
    /\ \A w \in Writes : WF_sync_vars(RunNext(w)) /\ WF_sync_vars(SweepNext(w))

-----------------------------------------------------------------------------
InProgress == {j \in Jobs : stage[j] \in {"main", "threads", "backup"}}

(* The three tables agree: exactly the jobs in progress hold a key, each   *)
(* the one it was started under, although the default account has changed  *)
(* since. Otherwise a key stays taken and its sync can never start again.  *)
RunningIsListed ==
    /\ \A k \in Keys : running[k] # None =>
           running[k] \in InProgress /\ key[running[k]] = k
    /\ \A j \in InProgress : shown[j] = "running" /\ running[key[j]] = j

(* "treats omitted account and the default account as the same running     *)
(* sync" (web-sync.test.ts): two jobs of a kind never fetch for the same   *)
(* account at once, except where one hydrates the threads of a default     *)
(* account that was not the default when it started.                       *)
OneSyncPerAccount ==
    \A i, j \in Jobs :
        /\ i # j /\ {stage[i], stage[j]} \subseteq {"main", "threads"}
        /\ asked[i].kind = asked[j].kind /\ target[i] = target[j]
        => \E x \in {i, j} : x \in switched /\ stage[x] = "threads"

(* What a job reports as synced is in the database: it awaited its write,  *)
(* which was committed in its turn.                                        *)
SucceededWrote ==
    \A j \in Jobs : shown[j] = "succeeded" => wrote[j] # None /\ state[wrote[j]] = "committed"

(* What the interface shows of a job is true: it runs when it is shown to  *)
(* run, under its key, and has written what it reports as synced.          *)
SnapshotsAreTrue == RunningIsListed /\ SucceededWrote

(* A job settles whatever fails on the way, and its snapshot does not stay *)
(* for ever.                                                               *)
JobsForgotten == \A j \in Jobs : shown[j] = "running" ~> shown[j] = "unknown"
=============================================================================
