---------------------------- MODULE TwillotBackup ----------------------------
(***************************************************************************)
(* The history queue of one machine under "backup sync": its tables are    *)
(* exported to text shards and, at the next sync, merged back before they  *)
(* are exported again (src/lib/backup-table-codecs.ts).  The queue goes on *)
(* working between an export and the merge that reads it.                  *)
(*                                                                         *)
(* The merge lets the row with the later updated_at win, so that column,   *)
(* which TwillotQueue leaves out, is added here.                           *)
(***************************************************************************)
EXTENDS TwillotQueue

VARIABLES
    updated,  \* updated_at of each job row
    shard     \* what was exported last, or Null

backup_vars == <<vars, updated, shard>>

(* An exported row has no lease; a leased one is exported as queued.       *)
ExportedRow(r) ==
    IF r.state = "leased"
    THEN [Unleased(r) EXCEPT !.state = "queued", !.capture = "capture_requested"]
    ELSE Unleased(r)

(* An exported receipt does not name its lease: '' as the token, here 0.    *)
ExportedReceipt(r) == [r EXCEPT !.token = 0]

Export ==
    /\ shard' = [job |-> [j \in Jobs |-> ExportedRow(job[j])],
                 updated |-> updated, usage |-> usage,
                 receipts |-> {ExportedReceipt(r) : r \in receipts}]
    /\ UNCHANGED <<vars, updated>>

Most(a, b) == IF a >= b THEN a ELSE b

MergedRowSums(r, ru, e, eu) ==  \* mutant: adds the counts of both rows
    [Unleased(IF eu >= ru THEN e ELSE r) EXCEPT
        !.attempts = Most(r.attempts, e.attempts),
        !.downloaded = r.downloaded + e.downloaded]

(* On conflict the later row gives state, capture, cursor and next run; the *)
(* lease columns are nulled whichever row that is.                         *)
MergedRow(r, ru, e, eu) ==
    [Unleased(IF eu >= ru THEN e ELSE r) EXCEPT
        !.attempts = Most(r.attempts, e.attempts),
        !.downloaded = Most(r.downloaded, e.downloaded)]

MergedUsage(d) == Most(usage[d], shard.usage[d])

(* New receipts are added, if their job is known here.                     *)
MergedReceipts(tbl) ==
    receipts \cup {r \in shard.receipts :
                     ~Seen(r.batch) /\ tbl[r.job].state # "absent"}

Merge ==
    /\ shard # Null
    /\ job' = [j \in Jobs |->
                 IF shard.job[j].state = "absent" THEN job[j]
                 ELSE MergedRow(job[j], updated[j],
                                shard.job[j], shard.updated[j])]
    /\ updated' = [j \in Jobs |-> Most(updated[j], shard.updated[j])]
    /\ usage' = [d \in Days |-> MergedUsage(d)]
    /\ receipts' = MergedReceipts(job')
    /\ UNCHANGED <<now, paused, shard>>

(* Every operation of the queue stamps the rows it writes.                 *)
Stamp(S) ==
    /\ updated' = [j \in Jobs |-> IF j \in S THEN now ELSE updated[j]]
    /\ UNCHANGED shard

Rewritten == {j \in Jobs : job'[j] # job[j]}

(* Enqueueing a job that exists changes no queue state, only its stamp.    *)
EnqueueAgain(j) ==
    /\ job[j].state # "absent"
    /\ UNCHANGED vars
    /\ Stamp({j})

QueueOperation ==
    \/ \E j \in Jobs : EnqueueAgain(j)
    \/ \E j \in Jobs : /\ \/ Enqueue(j) \/ RetryFailed(j) \/ VerifyComplete(j)
                          \/ QueueFallback(j)
                       /\ Stamp({j})
    \/ Claim /\ Stamp(Rewritten)
    \/ \E s \in Submissions : CompleteBatch(s) /\ Stamp({s.job})
    \/ \E j \in Jobs, tok \in 1..MaxAttempts : Fail(j, tok) /\ Stamp({j})
    \/ \E j \in Jobs, tok \in 1..MaxAttempts, status \in LeaseStatuses :
         (MarkCaptureStatus(j, tok, status) \/ Renew(j, tok, status))
             /\ Stamp({j})
    \/ Tick /\ Stamp({})

BackupInit ==
    /\ Init
    /\ updated = [j \in Jobs |-> 0]
    /\ shard = Null

BackupNext == QueueOperation \/ Export \/ Merge

BackupSpec == BackupInit /\ [][BackupNext]_backup_vars

-----------------------------------------------------------------------------
(* A job that a merge leaves 'leased' can still be taken back: its lease   *)
(* has an end.  The backup promises that its shards keep jobs resumable.   *)
LeasedJobsAreReclaimable ==
    \A j \in Jobs : job[j].state = "leased" => job[j].expiresAt # Null

(* A merge of the last export with rows that have changed since keeps the  *)
(* budget, the charges and the progress of the queue consistent.           *)
RecordsSurvive == QuotaRespected /\ RecordsAgree
=============================================================================
