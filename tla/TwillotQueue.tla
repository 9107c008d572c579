---------------------------- MODULE TwillotQueue ----------------------------
(***************************************************************************)
(* The durable Twillot history queue (src/lib/twillot-history-queue.ts):   *)
(* the three SQLite tables twillot_history_jobs, twillot_history_batches   *)
(* and twillot_history_daily_usage, and every operation on them.  Each     *)
(* operation is one SQLite transaction (or one UPDATE), so one step.       *)
(*                                                                         *)
(* Abstractions.  Time is a number of ticks.  A job is its (account,       *)
(* profile, provider) key.  A lease token is a fresh UUID: the job's own   *)
(* attempt counter stands for it, since every claim increments the         *)
(* counter.  A batch is its downloaded count; tweets, handles and error    *)
(* texts are data the queue does not branch on.  A rejected call throws    *)
(* and rolls back, so it is a step that is not enabled.                    *)
(***************************************************************************)
EXTENDS Integers, FiniteSets

CONSTANTS
    Jobs,          \* job keys
    Batches,       \* batch identifiers a companion may present
    Cursors,       \* cursors a companion may present
    NoCursor,      \* cursor_json = 'null'
    Null,          \* SQL null
    DailyLimit,    \* records per usage day
    Pausable,      \* bound: jobs the user ever pauses
    Caps,          \* values of requestedCap a claim may carry
    LeaseStatuses, \* capture statuses the holder of a lease may report
    LeaseTime,     \* lease duration, in ticks
    DayLength,     \* ticks in a usage day
    DayOffset,     \* how far the usage day is ahead of the clock's day
    Horizon,       \* bound: the last instant
    MaxAttempts    \* bound: claims granted per job

ASSUME JobsAssumption == IsFiniteSet(Jobs)
ASSUME QuotaAssumption == DailyLimit \in Nat \ {0} /\ Caps \subseteq Nat \ {0}
ASSUME StatusAssumption ==
    LeaseStatuses \subseteq {"waiting_for_twillot", "capturing", "ingesting"}
ASSUME TimeAssumption ==
    /\ LeaseTime \in Nat \ {0}
    /\ DayLength \in Nat \ {0}
    /\ DayOffset \in 0..(DayLength - 1)
    /\ Horizon \in Nat
ASSUME SentinelAssumption ==
    /\ NoCursor \notin Cursors
    /\ Null \notin Nat
ASSUME BoundAssumption == MaxAttempts \in Nat

VARIABLES
    now,       \* the clock every call reads
    job,       \* twillot_history_jobs
    receipts,  \* twillot_history_batches, a set of rows keyed by batch
    usage,     \* twillot_history_daily_usage
    paused     \* jobs whose person_sources row has enabled = 0

vars == <<now, job, receipts, usage, paused>>

-----------------------------------------------------------------------------
(* Usage days start DayOffset ticks before the clock's own days.           *)

UsageDay(t) == (t + DayOffset) \div DayLength
NextReset(d) == (d + 1) * DayLength - DayOffset
Today == UsageDay(now)
Days == 0..UsageDay(Horizon)

Least(a, b) == IF a <= b THEN a ELSE b
LeaseEnd == Least(now + LeaseTime, NextReset(Today))

-----------------------------------------------------------------------------
States == {"absent", "queued", "leased", "deferred", "completed", "failed"}
CaptureStatuses ==
    {"capture_requested", "waiting_for_twillot", "capturing", "ingesting",
     "caught_up_unverified", "verified_complete", "needs_attention"}

AbsentRow ==
    [state |-> "absent", capture |-> "capture_requested", cursor |-> NoCursor,
     nextRunAt |-> 0, token |-> Null, expiresAt |-> Null,
     leaseDay |-> Null, allowance |-> 0, attempts |-> 0, downloaded |-> 0]

(* Every statement that ends a lease nulls the same four columns.          *)
Unleased(r) == [r EXCEPT !.token = Null, !.expiresAt = Null,
                         !.leaseDay = Null, !.allowance = 0]

Waiting(r) == r.state \in {"queued", "deferred"} /\ r.nextRunAt <= now

(* mutant: reclaims only the leases of the current usage day *)
ExpiredToday(r) ==
    r.state = "leased" /\ r.leaseDay = Today /\ r.expiresAt <= now
Expired(r) == r.state = "leased" /\ r.expiresAt # Null /\ r.expiresAt <= now

HoldsTokenOnly(r, tok) == r.state = "leased" /\ r.token = tok  \* mutant
HoldsLease(r, tok) ==
    /\ r.state = "leased"
    /\ r.token = tok
    /\ r.expiresAt # Null
    /\ now < r.expiresAt

-----------------------------------------------------------------------------
(* The quota.  The reservation of a day is the sum of the allowances of    *)
(* its unexpired leases, counted as the size of a set of units so that it  *)
(* can be reasoned about without induction.                                *)

Reserving(r, d, t) ==
    /\ r.state = "leased"
    /\ r.leaseDay = d
    /\ r.expiresAt # Null
    /\ t < r.expiresAt

ReservedUnits(tbl, d, t) ==
    {u \in Jobs \X (1..DailyLimit) :
        Reserving(tbl[u[1]], d, t) /\ u[2] <= tbl[u[1]].allowance}

Reserved(tbl, d, t) == Cardinality(ReservedUnits(tbl, d, t))

RemainingIgnoresLeases(tbl) ==  \* mutant
    IF DailyLimit > usage[Today] THEN DailyLimit - usage[Today] ELSE 0
Remaining(tbl) ==
    LET left == DailyLimit - usage[Today] - Reserved(tbl, Today, now)
    IN  IF left > 0 THEN left ELSE 0

-----------------------------------------------------------------------------
(* Enqueue: a new row, or a conflict that touches no queue state.          *)

Enqueue(j) ==
    /\ job[j].state = "absent"
    /\ job' = [job EXCEPT ![j] = [AbsentRow EXCEPT
                  !.state = "queued", !.nextRunAt = now]]
    /\ UNCHANGED <<now, receipts, usage, paused>>

(* Every claim starts by reclaiming the expired leases.                    *)
Reclaim(r) ==
    IF Expired(r)
    THEN [Unleased(r) EXCEPT
            !.state = IF r.nextRunAt > now THEN "deferred" ELSE "queued",
            !.capture = "capture_requested"]
    ELSE r

Reclaimed == [j \in Jobs |-> Reclaim(job[j])]

Eligible(tbl) ==
    {j \in Jobs : Waiting(tbl[j]) /\ j \notin paused
                   /\ tbl[j].attempts < MaxAttempts}

(* The row "order by next_run_at, created_at, id limit 1" picks.  Creation *)
(* times and random ids only break ties, which may fall either way here.   *)
NextInLine(tbl) ==
    {j \in Eligible(tbl) :
        \A i \in Eligible(tbl) : tbl[j].nextRunAt <= tbl[i].nextRunAt}

(* The day's limit is used up: everything due waits for the next reset.    *)
ClaimDefers ==
    /\ usage[Today] >= DailyLimit
    /\ job' = [j \in Jobs |->
                 IF Waiting(Reclaimed[j])
                 THEN [Reclaimed[j] EXCEPT !.state = "deferred",
                                           !.nextRunAt = NextReset(Today)]
                 ELSE Reclaimed[j]]
    /\ UNCHANGED <<now, receipts, usage, paused>>

(* Other leases hold what is left of the day, or no job is due.            *)
ClaimFindsNothing ==
    /\ usage[Today] < DailyLimit
    /\ Remaining(Reclaimed) = 0 \/ Eligible(Reclaimed) = {}
    /\ job' = Reclaimed
    /\ UNCHANGED <<now, receipts, usage, paused>>

Granted(r, allowance) ==
    [r EXCEPT !.state = "leased", !.capture = "capturing",
              !.token = r.attempts + 1, !.attempts = r.attempts + 1,
              !.expiresAt = LeaseEnd, !.leaseDay = Today,
              !.allowance = allowance]

ClaimGrants(j, cap) ==
    /\ usage[Today] < DailyLimit
    /\ Remaining(Reclaimed) > 0
    /\ j \in NextInLine(Reclaimed)
    /\ job' = [Reclaimed EXCEPT
                 ![j] = Granted(Reclaimed[j], Least(Remaining(Reclaimed), cap))]
    /\ UNCHANGED <<now, receipts, usage, paused>>

Claim ==
    \/ ClaimDefers
    \/ ClaimFindsNothing
    \/ \E j \in Jobs, cap \in Caps : ClaimGrants(j, cap)

-----------------------------------------------------------------------------
(* A batch: its identifier, the job and token it was read under, how many  *)
(* records it carries, the cursor after it and whether it is the last.     *)

Submissions ==
    [batch : Batches, job : Jobs, token : 1..MaxAttempts, count : 0..DailyLimit,
     cursor : Cursors \cup {NoCursor}, done : BOOLEAN]

Seen(b) == \E r \in receipts : r.batch = b

SameBatch(r, s) ==
    /\ r.batch = s.batch /\ r.job = s.job /\ r.count = s.count
    /\ r.cursor = s.cursor /\ r.done = s.done

(* mutant: forgets to look for the receipt *)
OutcomeWithoutReceipts(s) ==
    IF ~HoldsLease(job[s.job], s.token) THEN "STALE_LEASE"
    ELSE IF s.count > job[s.job].allowance THEN "ALLOWANCE_EXCEEDED"
         ELSE "accepted"

(* mutant: forgets to check the lease *)
OutcomeWithoutLease(s) ==
    IF Seen(s.batch) \/ job[s.job].state = "absent"
       \/ s.token > job[s.job].attempts THEN "STALE_LEASE"
    ELSE IF s.count > job[s.job].allowance THEN "ALLOWANCE_EXCEEDED"
         ELSE "accepted"

(* What completeTwillotHistoryBatch answers, its checks in their order.    *)
BatchOutcome(s) ==
    CASE Seen(s.batch) /\ \E r \in receipts : SameBatch(r, s) -> "replayed"
      [] Seen(s.batch) /\ ~\E r \in receipts : SameBatch(r, s) ->
           "INVALID_REQUEST"
      [] ~Seen(s.batch) /\ job[s.job].state = "absent" -> "JOB_NOT_FOUND"
      [] OTHER ->
           IF ~HoldsLease(job[s.job], s.token) \/ job[s.job].leaseDay # Today
           THEN "STALE_LEASE"
           ELSE IF s.count > job[s.job].allowance THEN "ALLOWANCE_EXCEEDED"
                ELSE "accepted"

CommittedKeepsLease(r, s, used) ==  \* mutant: a lease for many batches
    IF s.done THEN [Unleased(r) EXCEPT !.state = "completed", !.cursor = s.cursor,
                                       !.downloaded = r.downloaded + s.count]
    ELSE [r EXCEPT !.cursor = s.cursor, !.downloaded = r.downloaded + s.count]

Committed(r, s, used) ==
    LET state == IF s.done THEN "completed"
                 ELSE IF used >= DailyLimit THEN "deferred" ELSE "queued"
    IN [Unleased(r) EXCEPT
          !.state = state,
          !.capture = IF s.done THEN "caught_up_unverified" ELSE "capturing",
          !.cursor = s.cursor,
          !.nextRunAt = CASE state = "completed" -> r.nextRunAt
                          [] state = "deferred" -> NextReset(Today)
                          [] state = "queued" -> now,
          !.downloaded = r.downloaded + s.count]

(* The only step that charges the day: a batch nobody has sent before,     *)
(* from the holder of a live lease, within its allowance.  A replay        *)
(* returns the stored receipt and writes nothing.                          *)
CompleteBatch(s) ==
    /\ BatchOutcome(s) = "accepted"
    /\ usage' = [usage EXCEPT ![Today] = @ + s.count]
    /\ job' = [job EXCEPT ![s.job] = Committed(@, s, usage'[Today])]
    /\ receipts' = receipts \cup
         {[batch |-> s.batch, job |-> s.job, token |-> s.token, day |-> Today,
           count |-> s.count, cursor |-> s.cursor, done |-> s.done]}
    /\ UNCHANGED <<now, paused>>

-----------------------------------------------------------------------------
(* The other updates of a lease, all by its live holder.                   *)

Failed(r) == [Unleased(r) EXCEPT !.state = "failed", !.capture = "needs_attention"]

Fail(j, tok) ==
    /\ HoldsLease(job[j], tok)
    /\ job' = [job EXCEPT ![j] = Failed(@)]
    /\ UNCHANGED <<now, receipts, usage, paused>>

MarkCaptureStatus(j, tok, status) ==
    /\ HoldsLease(job[j], tok)
    /\ job' = [job EXCEPT ![j].capture = status]
    /\ UNCHANGED <<now, receipts, usage, paused>>

Renew(j, tok, status) ==
    /\ HoldsLease(job[j], tok)
    /\ job[j].leaseDay = Today
    /\ job' = [job EXCEPT ![j] = [@ EXCEPT !.capture = status,
                                           !.expiresAt = LeaseEnd]]
    /\ UNCHANGED <<now, receipts, usage, paused>>

(* The operations of the management page.                                  *)
RetryFailed(j) ==
    /\ job[j].state = "failed"
    /\ job' = [job EXCEPT ![j] = [@ EXCEPT !.state = "queued",
                  !.capture = "capture_requested", !.nextRunAt = now]]
    /\ UNCHANGED <<now, receipts, usage, paused>>

VerifyComplete(j) ==
    /\ job[j].state = "completed"
    /\ job[j].capture = "caught_up_unverified"
    /\ job' = [job EXCEPT ![j].capture = "verified_complete"]
    /\ UNCHANGED <<now, receipts, usage, paused>>

(* The cloud collector's fallback restarts a finished job from its newest  *)
(* post; it leaves the receipts of the earlier run in place.               *)
QueueFallback(j) ==
    /\ job[j].state \in {"completed", "failed"}
    /\ job' = [job EXCEPT ![j] = [Unleased(@) EXCEPT !.state = "queued",
                  !.capture = "capture_requested", !.cursor = NoCursor,
                  !.nextRunAt = now]]
    /\ UNCHANGED <<now, receipts, usage, paused>>

-----------------------------------------------------------------------------
(* The environment: the user pauses and resumes a person, time passes.     *)

SetPaused(j) ==
    /\ j \in Pausable
    /\ paused' = IF j \in paused THEN paused \ {j} ELSE paused \cup {j}
    /\ UNCHANGED <<now, job, receipts, usage>>

Tick ==
    /\ now < Horizon
    /\ now' = now + 1
    /\ UNCHANGED <<job, receipts, usage, paused>>

Init ==
    /\ now = 0
    /\ job = [j \in Jobs |-> AbsentRow]
    /\ receipts = {}
    /\ usage = [d \in Days |-> 0]
    /\ paused = {}

Next ==
    \/ \E j \in Jobs : \/ Enqueue(j) \/ RetryFailed(j) \/ VerifyComplete(j)
                       \/ QueueFallback(j) \/ SetPaused(j)
    \/ Claim
    \/ \E s \in Submissions : CompleteBatch(s)
    \/ \E j \in Jobs, tok \in 1..MaxAttempts : Fail(j, tok)
    \/ \E j \in Jobs, tok \in 1..MaxAttempts, status \in LeaseStatuses :
         MarkCaptureStatus(j, tok, status) \/ Renew(j, tok, status)
    \/ Tick

Spec == Init /\ [][Next]_vars

(* Time passes and the companion's recurring alarm keeps asking for work:  *)
(* nothing else is promised, the holder of a lease may go silent.          *)
FairSpec == Spec /\ WF_vars(Tick) /\ WF_vars(Claim)

-----------------------------------------------------------------------------
Row == [state : States, capture : CaptureStatuses,
        cursor : Cursors \cup {NoCursor}, nextRunAt : Nat,
        token : Nat \cup {Null}, expiresAt : Nat \cup {Null},
        leaseDay : Nat \cup {Null}, allowance : 0..DailyLimit, attempts : Nat,
        downloaded : Nat]

Receipt == [batch : Batches, job : Jobs, token : Nat, day : Nat, count : Nat,
            cursor : Cursors \cup {NoCursor}, done : BOOLEAN]

(* Every table holds rows of its declared columns.                         *)
TypeOK ==
    /\ now \in 0..Horizon
    /\ job \in [Jobs -> Row]
    /\ receipts \subseteq Receipt
    /\ usage \in [Days -> Nat]
    /\ paused \subseteq Jobs

RowShape(r, day) ==
    /\ r.state = "leased" <=> r.token # Null
    /\ r.state = "leased" =>
         /\ r.token = r.attempts
         /\ r.expiresAt # Null /\ r.leaseDay # Null
         /\ r.leaseDay <= day
         /\ r.expiresAt <= NextReset(r.leaseDay)
         /\ r.allowance > 0
    /\ r.state # "leased" =>
         r.expiresAt = Null /\ r.leaseDay = Null /\ r.allowance = 0

(* A row is leased exactly when its lease columns are set (the columns are *)
(* nulled by seven different statements), and a lease never outlives the   *)
(* usage day whose quota it reserves: fail and mark check only the expiry, *)
(* so this is what keeps them inside the day.                              *)
LeaseShape ==
    \A j \in Jobs : RowShape(job[j], Today)

(* The day's budget is never promised twice: what has been downloaded on a *)
(* usage day plus what live leases may still download stays within the     *)
(* limit, whatever claims, renewals and late submissions interleave around *)
(* expiry and the midnight reset.                                          *)
QuotaRespected ==
    /\ \A d \in Days : usage[d] <= DailyLimit /\ (d > Today => usage[d] = 0)
    /\ usage[Today] + Reserved(job, Today, now) <= DailyLimit

RecordsOf(S) == UNION {{r.batch} \X (1..r.count) : r \in S}

(* Every record is charged once, to the day and the job of its receipt: a  *)
(* replayed or late batch is never charged again.                          *)
ChargedOnce ==
    /\ \A d \in Days :
        usage[d] = Cardinality(RecordsOf({r \in receipts : r.day = d}))
    /\ \A j \in Jobs : job[j].downloaded =
        Cardinality(RecordsOf({r \in receipts : r.job = j}))

(* One lease, one batch: an accepted batch gives the lease up, so two      *)
(* receipts of a job never name the same token.                            *)
OneBatchPerLease ==
    \A r1, r2 \in receipts :
        r1.job = r2.job /\ r1.token = r2.token => r1 = r2

(* A job stands where a receipt left it: a cursor other than the start is  *)
(* the cursor of a batch that was recorded for the job, and a completed    *)
(* job has recorded its final batch.                                       *)
ProgressIsRecorded ==
    \A j \in Jobs :
        /\ job[j].cursor # NoCursor =>
             \E r \in receipts : r.job = j /\ r.cursor = job[j].cursor
        /\ job[j].state = "completed" =>
             \E r \in receipts : r.job = j /\ r.cursor = job[j].cursor /\ r.done

(* The tables tell one story: what was charged and where a job stands are  *)
(* what the receipts say, through replays, late batches, restarts and      *)
(* verification.                                                           *)
RecordsAgree == ChargedOnce /\ ProgressIsRecorded

(* A lease whose holder has gone silent is taken back, that of a paused    *)
(* person too: once leases have run out, a claim leaves none that has,     *)
(* however claims, renewals and the reset interleave.                      *)
SilentLeaseEnds ==
    (\E j \in Jobs : job[j].state = "leased" /\ job[j].expiresAt <= now)
        ~> (\A j \in Jobs : job[j].state = "leased" => job[j].expiresAt > now)

-----------------------------------------------------------------------------
(* The queue implements the lease service: an expired lease is an open job *)
(* although its row still says 'leased', which is why reclaiming is a      *)
(* stutter, a tick lets leases lapse, and a claim is exactly one grant.    *)
Phase(r) ==
    IF r.state \in {"queued", "deferred"} \/ Expired(r) THEN "open" ELSE r.state

Lease == INSTANCE TwillotLease WITH
    NoHolder <- Null,
    phase <- [j \in Jobs |-> Phase(job[j])],
    holder <- [j \in Jobs |-> IF Expired(job[j]) THEN Null ELSE job[j].token],
    granted <- [j \in Jobs |-> job[j].attempts],
    cursor <- [j \in Jobs |-> job[j].cursor],
    record <- {[batch |-> r.batch, job |-> r.job, token |-> r.token,
                cursor |-> r.cursor, done |-> r.done] : r \in receipts}

(* Every behaviour of the queue is one of the lease service.               *)
ImplementsLease == Lease!LeaseSpec
=============================================================================
