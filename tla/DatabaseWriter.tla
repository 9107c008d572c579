--------------------------- MODULE DatabaseWriter ---------------------------
(***************************************************************************)
(* The write queue of src/lib/database-writer.ts: writeTails holds, for    *)
(* each database, the promise that settles with the last write called for; *)
(* a new write is chained to it, and the entry is deleted when the promise *)
(* has settled and is still the last one. Writes are named by their calls, *)
(* so that w stands for the promise `settled` of call w.                   *)
(***************************************************************************)
EXTENDS Integers, FiniteSets

CONSTANTS Writes, Databases, None

ASSUME WriterAssumption == None \notin Writes /\ Databases # {}

VARIABLES
    calls, ticket, home, state,     \* as in WriteOrder
    after,          \* after[w]: the promise w is chained to, or None
    tail,           \* writeTails: the last promise, or None
    unswept,        \* settled promises whose clean-up has not run yet
    queuedWrites    \* the metric of database-metrics.ts

vars == <<calls, ticket, home, state, after, tail, unswept, queuedWrites>>

Executed(w) == state[w] \in {"committed", "failed"}

Earlier(v, w) ==
    /\ state[v] # "new" /\ state[w] # "new"
    /\ home[v] = home[w] /\ ticket[v] < ticket[w]

TypeOK ==
    /\ calls \in Nat
    /\ ticket \in [Writes -> Nat]
    /\ home \in [Writes -> Databases]
    /\ state \in [Writes -> {"new", "queued", "committed", "failed"}]
    /\ after \in [Writes -> Writes \cup {None}]
    /\ tail \in [Databases -> Writes \cup {None}]
    /\ unswept \subseteq Writes
    /\ queuedWrites \in Nat

Init ==
    /\ calls = 0
    /\ ticket = [w \in Writes |-> 0]
    /\ home \in [Writes -> Databases]
    /\ state = [w \in Writes |-> "new"]
    /\ after = [w \in Writes |-> None]
    /\ tail = [d \in Databases |-> None]
    /\ unswept = {}
    /\ queuedWrites = 0

\* A call reads the tail, chains the write to it and becomes the tail.
Enqueue(w, d) ==
    /\ state[w] = "new"
    /\ calls' = calls + 1
    /\ ticket' = [ticket EXCEPT ![w] = calls]
    /\ home' = [home EXCEPT ![w] = d]
    /\ state' = [state EXCEPT ![w] = "queued"]
    /\ after' = [after EXCEPT ![w] = tail[d]]
    /\ tail' = [tail EXCEPT ![d] = w]
    /\ queuedWrites' = queuedWrites + 1
    /\ UNCHANGED unswept

ReadyIfCommitted(w) ==  \* mutant: chained to `pending`, which a failure rejects
    after[w] # None => state[after[w]] = "committed"

Ready(w) == after[w] # None => Executed(after[w])

\* The transaction of a write, committed or rolled back, in one callback.
Run(w) ==
    /\ state[w] = "queued" /\ Ready(w)
    /\ \E result \in {"committed", "failed"} : state' = [state EXCEPT ![w] = result]
    /\ unswept' = unswept \cup {w}
    /\ queuedWrites' = IF queuedWrites > 0 THEN queuedWrites - 1 ELSE 0
    /\ UNCHANGED <<calls, ticket, home, after, tail>>

SweepAlways(w) ==  \* mutant: the entry is deleted whoever is the tail now
    /\ w \in unswept
    /\ unswept' = unswept \ {w}
    /\ tail' = [tail EXCEPT ![home[w]] = None]
    /\ UNCHANGED <<calls, ticket, home, state, after, queuedWrites>>

\* The clean-up of a settled write: a later tail is left alone.
Sweep(w) ==
    /\ w \in unswept
    /\ unswept' = unswept \ {w}
    /\ tail' = IF tail[home[w]] = w THEN [tail EXCEPT ![home[w]] = None] ELSE tail
    /\ UNCHANGED <<calls, ticket, home, state, after, queuedWrites>>

Next ==
    \E w \in Writes :
        \/ \E d \in Databases : Enqueue(w, d)
        \/ Run(w)
        \/ Sweep(w)

Spec == Init /\ [][Next]_vars

-----------------------------------------------------------------------------
(* Two writes of one database are executed in the order of their calls,    *)
(* also when the map's entry is deleted between them and the chain starts  *)
(* anew.                                                                   *)
InOrder ==
    \A v, w \in Writes : Executed(w) /\ Earlier(v, w) => Executed(v)

(* The metric never drifts from the number of writes that wait.            *)
QueuedIsCounted == queuedWrites = Cardinality({w \in Writes : state[w] = "queued"})

(* The chain of promises does what WriteOrder says.                        *)
Abstract == INSTANCE WriteOrder
ImplementsWriteOrder == Abstract!Spec

(* A failed write neither blocks nor rejects those behind it: the write    *)
(* that is next in line can be executed.                                   *)
NeverWedged ==
    \A w \in Writes :
        state[w] = "queued" /\ (\A v \in Writes : Earlier(v, w) => Executed(v)) => Ready(w)
=============================================================================
