---------------------------- MODULE TwillotLease ----------------------------
(***************************************************************************)
(* What the history queue promises its companions, with the clock, the     *)
(* quota and the capture statuses left out: a job is worked on by one      *)
(* leaseholder at a time, each lease moves the job's cursor at most once,  *)
(* by a batch that is recorded in the same step, and a lease may lapse at  *)
(* any moment, after which its token is worth nothing.                     *)
(* TwillotQueue implements it.                                             *)
(***************************************************************************)
EXTENDS Integers

CONSTANTS Jobs, Batches, Cursors, NoCursor, NoHolder

VARIABLES
    phase,    \* absent, open (work to do), leased, completed or failed
    holder,   \* the token of the live lease
    granted,  \* leases granted so far: the next token is granted + 1
    cursor,   \* how far the job has got
    record    \* the batches applied: [batch, job, token, cursor, done]

leaseVars == <<phase, holder, granted, cursor, record>>

LeaseInit ==
    /\ phase = [j \in Jobs |-> "absent"]
    /\ holder = [j \in Jobs |-> NoHolder]
    /\ granted = [j \in Jobs |-> 0]
    /\ cursor = [j \in Jobs |-> NoCursor]
    /\ record = {}

Open(j) ==
    /\ phase[j] = "absent"
    /\ phase' = [phase EXCEPT ![j] = "open"]
    /\ UNCHANGED <<holder, granted, cursor, record>>

Grant(j) ==
    /\ phase[j] = "open"
    /\ phase' = [phase EXCEPT ![j] = "leased"]
    /\ granted' = [granted EXCEPT ![j] = @ + 1]
    /\ holder' = [holder EXCEPT ![j] = granted[j] + 1]
    /\ UNCHANGED <<cursor, record>>

(* The holders in S lose their leases: the jobs are open again.            *)
Lapse(S) ==
    /\ \A j \in S : phase[j] = "leased"
    /\ phase' = [j \in Jobs |-> IF j \in S THEN "open" ELSE phase[j]]
    /\ holder' = [j \in Jobs |-> IF j \in S THEN NoHolder ELSE holder[j]]
    /\ UNCHANGED <<granted, cursor, record>>

(* The holder applies one batch and gives its lease up.                    *)
Apply(j, b, c, d) ==
    /\ phase[j] = "leased"
    /\ \A r \in record : r.batch # b
    /\ phase' = [phase EXCEPT ![j] = IF d THEN "completed" ELSE "open"]
    /\ holder' = [holder EXCEPT ![j] = NoHolder]
    /\ cursor' = [cursor EXCEPT ![j] = c]
    /\ record' = record \cup {[batch |-> b, job |-> j, token |-> holder[j],
                               cursor |-> c, done |-> d]}
    /\ UNCHANGED granted

GiveUp(j) ==
    /\ phase[j] = "leased"
    /\ phase' = [phase EXCEPT ![j] = "failed"]
    /\ holder' = [holder EXCEPT ![j] = NoHolder]
    /\ UNCHANGED <<granted, cursor, record>>

Reopen(j) ==
    /\ phase[j] = "failed"
    /\ phase' = [phase EXCEPT ![j] = "open"]
    /\ UNCHANGED <<holder, granted, cursor, record>>

Restart(j) ==
    /\ phase[j] \in {"completed", "failed"}
    /\ phase' = [phase EXCEPT ![j] = "open"]
    /\ cursor' = [cursor EXCEPT ![j] = NoCursor]
    /\ UNCHANGED <<holder, granted, record>>

LeaseNext ==
    \/ \E j \in Jobs : \/ Open(j) \/ Grant(j) \/ GiveUp(j)
                       \/ Reopen(j) \/ Restart(j)
    \/ \E S \in SUBSET Jobs : Lapse(S)
    \/ \E j \in Jobs, b \in Batches, c \in Cursors \cup {NoCursor}, d \in BOOLEAN :
         Apply(j, b, c, d)

LeaseSpec == LeaseInit /\ [][LeaseNext]_leaseVars
=============================================================================
