----------------------------- MODULE WriteOrder -----------------------------
(***************************************************************************)
(* What enqueueDatabaseWrite (src/lib/database-writer.ts) promises: the    *)
(* writes of one database are executed one at a time, in the order of the  *)
(* calls, whatever became of the earlier ones.                             *)
(***************************************************************************)
EXTENDS Integers

CONSTANTS Writes, Databases

VARIABLES
    calls,          \* calls of enqueueDatabaseWrite so far
    ticket,         \* ticket[w]: the number of the call that made w
    home,           \* home[w]: its database
    state           \* state[w]: "new", "queued", "committed" or "failed"

Executed(w) == state[w] \in {"committed", "failed"}

Earlier(v, w) ==
    /\ state[v] # "new" /\ state[w] # "new"
    /\ home[v] = home[w] /\ ticket[v] < ticket[w]

Init ==
    /\ calls = 0
    /\ ticket = [w \in Writes |-> 0]
    /\ home \in [Writes -> Databases]
    /\ state = [w \in Writes |-> "new"]

Call(w, d) ==
    /\ state[w] = "new"
    /\ calls' = calls + 1
    /\ ticket' = [ticket EXCEPT ![w] = calls]
    /\ home' = [home EXCEPT ![w] = d]
    /\ state' = [state EXCEPT ![w] = "queued"]

Execute(w) ==
    /\ state[w] = "queued"
    /\ \A v \in Writes : Earlier(v, w) => Executed(v)
    /\ \E result \in {"committed", "failed"} : state' = [state EXCEPT ![w] = result]
    /\ UNCHANGED <<calls, ticket, home>>

Next == \E w \in Writes : Execute(w) \/ \E d \in Databases : Call(w, d)

Spec == Init /\ [][Next]_<<calls, ticket, home, state>>
=============================================================================
