-------------------------- MODULE Twitter6551Inbox --------------------------
(***************************************************************************)
(* The durable inbox of the 6551 stream (persistAndProcessEvent and        *)
(* replayPendingEvents of src/lib/twitter-6551.ts). A delivered event is   *)
(* written to twitter6551_events, ingested, and marked, in three queued    *)
(* writes; what a crash or a failing write leaves pending is read again in *)
(* pages when the next worker starts. A worker that was stopped goes on    *)
(* with the handlers and the replay it has begun, beside its successor.    *)
(***************************************************************************)
EXTENDS Twitter6551Workers, FiniteSets

CONSTANTS
    Events,         \* tweet events, as numbers: the order of their ids
    Malformed,      \* events whose tweet cannot be normalized
    Handle,         \* Handle[e]: the watched account of the event
    Configs,        \* sets of handles that may be configured
    PageSize,       \* rows of a replay page
    MaxCrashes, MaxHandlers  \* bounds

ASSUME InboxAssumption ==
    /\ Events \subseteq Nat /\ IsFiniteSet(Events) /\ Malformed \subseteq Events
    /\ PageSize \in Nat \ {0} /\ MaxCrashes \in Nat

VARIABLES
    crashes,
    row,            \* row[r]: "absent", "pending", "processed", "ignored"
    received,       \* received[r]: received_at
    home,           \* events whose tweet is stored
    handlers,       \* calls of persistAndProcessEvent that wait for a write
    worker,         \* worker[w]: "off", "replaying", "abandoned", "connected"
    watch,          \* watch[w]: the handles it was created with
    page,           \* page[w]: the rows of the page still to be replayed
    cursor,         \* cursor[w]: the last row replayed, or None
    owed,           \* owed[w]: rows that were pending when its replay began
    troubled        \* troubled[w]: a write of its replay failed

bounds == <<now, failures, crashes>>
table == <<row, received>>
replay == <<worker, watch, page, cursor, owed, troubled>>
inbox_vars == <<bounds, table, home, handlers, replay>>

Handlers == [row : Events, step : {"persist", "ingest", "mark", "ignore"},
             at : Time, allowed : BOOLEAN, by : Workers \cup {None}]

InboxTypeOK ==
    /\ row \in [Events -> {"absent", "pending", "processed", "ignored"}]
    /\ received \in [Events -> Time]
    /\ home \subseteq Events
    /\ handlers \subseteq Handlers
    /\ now \in Time /\ failures \in 0 .. MaxFailures /\ crashes \in 0 .. MaxCrashes
    /\ worker \in [Workers -> {"off", "replaying", "abandoned", "connected"}]
    /\ page \in [Workers -> SUBSET Events] /\ cursor \in [Workers -> Events \cup {None}]
    /\ owed \in [Workers -> SUBSET Events] /\ troubled \in [Workers -> BOOLEAN]
    /\ \A w \in Workers :
           worker[w] \in {"off", "connected"} => page[w] = {} /\ cursor[w] = None

InboxInit ==
    /\ now = 0 /\ failures = 0 /\ crashes = 0
    /\ row = [r \in Events |-> "absent"]
    /\ received = [r \in Events |-> 0]
    /\ home = {} /\ handlers = {}
    /\ worker = [w \in Workers |-> "off"]
    /\ watch = [w \in Workers |-> {}]
    /\ page = [w \in Workers |-> {}]
    /\ cursor = [w \in Workers |-> None]
    /\ owed = [w \in Workers |-> {}]
    /\ troubled = [w \in Workers |-> FALSE]

-----------------------------------------------------------------------------
(* The environment *)

TimePasses ==
    /\ now < MaxTime
    /\ now' = now + 1
    /\ UNCHANGED <<failures, crashes, table, home, handlers, replay>>

\* A replay is over, and its worker live or done with.
Forget(w, state) ==
    /\ worker' = [worker EXCEPT ![w] = state]
    /\ page' = [page EXCEPT ![w] = {}]
    /\ cursor' = [cursor EXCEPT ![w] = None]
    /\ watch' = IF state = "off" THEN [watch EXCEPT ![w] = {}] ELSE watch
    /\ owed' = [owed EXCEPT ![w] = {}]
    /\ troubled' = [troubled EXCEPT ![w] = FALSE]

\* The process dies and its handlers with it; the tables stay.
Crash ==
    /\ crashes < MaxCrashes
    /\ crashes' = crashes + 1
    /\ handlers' = {}
    /\ worker' = [w \in Workers |-> "off"]
    /\ watch' = [w \in Workers |-> {}]
    /\ page' = [w \in Workers |-> {}]
    /\ cursor' = [w \in Workers |-> None]
    /\ owed' = [w \in Workers |-> {}]
    /\ troubled' = [w \in Workers |-> FALSE]
    /\ UNCHANGED <<now, failures, table, home>>

-----------------------------------------------------------------------------
(* Handlers *)

Allowed(w, r) == Handle[r] \in watch[w]

\* What comes after the row is known to be stored: a malformed event only
\* gets its error noted.
Route(h) ==
    IF ~h.allowed THEN {[h EXCEPT !.step = "ignore"]}
    ELSE IF h.row \in Malformed THEN {}
    ELSE {[h EXCEPT !.step = "ingest"]}

Handling(w, r) ==
    [row |-> r, step |-> "persist", at |-> now, allowed |-> Allowed(w, r), by |-> None]

\* A message of the socket, new or delivered again.
Deliver(e) ==
    \E w \in Workers :
        /\ worker[w] = "connected" /\ Cardinality(handlers) < MaxHandlers
        /\ handlers' = handlers \cup {Handling(w, e)}
        /\ UNCHANGED <<bounds, table, home, replay>>

\* insert or ignore: a row that is there ends the handler.
Persist(h) ==
    /\ h.step = "persist"
    /\ IF row[h.row] = "absent"
       THEN /\ row' = [row EXCEPT ![h.row] = "pending"]
            /\ received' = [received EXCEPT ![h.row] = h.at]
            /\ handlers' = (handlers \ {h}) \cup Route(h)
       ELSE handlers' = handlers \ {h} /\ UNCHANGED table
    /\ UNCHANGED <<bounds, home, replay>>

Ingest(h) ==
    /\ h.step = "ingest"
    /\ home' = home \cup {h.row}
    /\ handlers' = (handlers \ {h}) \cup {[h EXCEPT !.step = "mark"]}
    /\ UNCHANGED <<bounds, table, replay>>

Mark(h) ==
    /\ h.step \in {"mark", "ignore"}
    /\ row' = [row EXCEPT ![h.row] = IF h.step = "mark" THEN "processed" ELSE "ignored"]
    /\ handlers' = handlers \ {h}
    /\ UNCHANGED <<bounds, received, home, replay>>

WriteFailsSkipping(h) ==  \* mutant: a failed ingest is marked all the same
    /\ failures < MaxFailures
    /\ failures' = failures + 1
    /\ handlers' = (handlers \ {h}) \cup
           (IF h.step = "ingest" THEN {[h EXCEPT !.step = "mark"]} ELSE {})
    /\ troubled' = IF h.by = None THEN troubled ELSE [troubled EXCEPT ![h.by] = TRUE]
    /\ UNCHANGED <<now, crashes, table, home, worker, watch, page, cursor, owed>>

\* A write throws: the row keeps its state, with or without a noted error;
\* a replay goes on, or fails and takes the start of its worker with it.
WriteFails(h) ==
    /\ failures < MaxFailures
    /\ failures' = failures + 1
    /\ handlers' = handlers \ {h}
    /\ IF h.by = None THEN UNCHANGED replay
       ELSE \/ /\ troubled' = [troubled EXCEPT ![h.by] = TRUE]
               /\ UNCHANGED <<worker, page, watch, cursor, owed>>
            \/ Forget(h.by, "off")
    /\ UNCHANGED <<now, crashes, table, home>>

-----------------------------------------------------------------------------
(* Workers *)

Pending == {r \in Events : row[r] = "pending"}

\* One worker at a time is started, under the configuration of the moment;
\* an abandoned one may still be replaying.
StartWorker(w) ==
    /\ worker[w] = "off"
    /\ \A v \in Workers : worker[v] \notin {"replaying", "connected"}
    /\ worker' = [worker EXCEPT ![w] = "replaying"]
    /\ \E c \in Configs : watch' = [watch EXCEPT ![w] = c]
    /\ cursor' = [cursor EXCEPT ![w] = None]
    /\ owed' = [owed EXCEPT ![w] = Pending]
    /\ troubled' = [troubled EXCEPT ![w] = FALSE]
    /\ UNCHANGED <<bounds, table, home, handlers, page>>

\* order by received_at, event_id
Before(r, s) == received[r] < received[s] \/ (received[r] = received[s] /\ r < s)

BehindByTime(r, c) ==  \* mutant: the cursor is a time only
    c = None \/ received[r] > received[c]

\* The key set condition of a page: (received_at, event_id) beyond the cursor.
Behind(r, c) == c = None \/ Before(c, r)

Unread(w) == {r \in Pending : Behind(r, cursor[w])}

\* "limit": the first rows of a set.
FirstPage(S) == {r \in S : Cardinality({s \in S : Before(s, r)}) < PageSize}

Quiet(w) == \A h \in handlers : h.by # w

\* The next page, when the last one is done; an empty one ends the replay.
ReadPage(w) ==
    /\ worker[w] \in {"replaying", "abandoned"} /\ page[w] = {} /\ Quiet(w)
    /\ IF Unread(w) # {}
       THEN /\ page' = [page EXCEPT ![w] = FirstPage(Unread(w))]
            /\ UNCHANGED <<worker, watch, cursor, owed, troubled>>
       ELSE Forget(w, IF worker[w] = "replaying" THEN "connected" ELSE "off")
    /\ UNCHANGED <<bounds, table, home, handlers>>

Heads(w) == {r \in page[w] : \A s \in page[w] \ {r} : Before(r, s)}

ReplayNextFailing(w) ==  \* mutant: a malformed row ends the replay
    /\ page[w] # {} /\ Quiet(w)
    /\ \E r \in Heads(w) :
          IF r \in Malformed THEN Forget(w, "off") /\ UNCHANGED handlers
          ELSE /\ cursor' = [cursor EXCEPT ![w] = r]
               /\ handlers' = handlers \cup Route([Handling(w, r) EXCEPT !.by = w])
               /\ page' = [page EXCEPT ![w] = @ \ {r}]
               /\ UNCHANGED <<worker, watch, owed, troubled>>
    /\ UNCHANGED <<bounds, table, home>>

\* The next row of the page, one after the other.
ReplayNext(w) ==
    /\ page[w] # {} /\ Quiet(w)
    /\ \E r \in Heads(w) :
          /\ cursor' = [cursor EXCEPT ![w] = r]
          /\ handlers' = handlers \cup Route([Handling(w, r) EXCEPT !.by = w])
          /\ page' = [page EXCEPT ![w] = @ \ {r}]
    /\ UNCHANGED <<bounds, table, home, worker, watch, owed, troubled>>

StopWorkerAtOnce(w) ==  \* mutant: a stopped replay is taken to be over
    /\ worker[w] \in {"replaying", "connected"}
    /\ worker' = [worker EXCEPT ![w] = "off"]
    /\ owed' = [owed EXCEPT ![w] = {}]
    /\ UNCHANGED <<bounds, table, home, handlers, watch, page, cursor, troubled>>

StopWorker(w) ==
    /\ \/ /\ worker[w] = "replaying"
          /\ worker' = [worker EXCEPT ![w] = "abandoned"]
          /\ owed' = [owed EXCEPT ![w] = {}]
          /\ UNCHANGED <<watch, page, cursor, troubled>>
       \/ worker[w] = "connected" /\ Forget(w, "off")
    /\ UNCHANGED <<bounds, table, home, handlers>>

-----------------------------------------------------------------------------
HandlerStep == \E h \in handlers : Persist(h) \/ Ingest(h) \/ Mark(h)

InboxNext ==
    \/ TimePasses \/ Crash
    \/ \E e \in Events : Deliver(e)
    \/ \E h \in handlers : Persist(h) \/ Ingest(h) \/ Mark(h) \/ WriteFails(h)
    \/ \E w \in Workers : StartWorker(w) \/ ReadPage(w) \/ ReplayNext(w) \/ StopWorker(w)

InboxSpec == InboxInit /\ [][InboxNext]_inbox_vars

(* Queued writes are executed in turn, and a replay goes on with its next  *)
(* row when the last one settled.                                          *)
InboxFairSpec ==
    /\ InboxSpec
    /\ \A r \in Events :
          WF_inbox_vars(\E h \in handlers : h.row = r /\ (Persist(h) \/ Ingest(h) \/ Mark(h)))
    /\ \A w \in Workers : WF_inbox_vars(ReadPage(w)) /\ WF_inbox_vars(ReplayNext(w))

-----------------------------------------------------------------------------
(* "WebSocket events are written to twitter6551_events before processing": *)
(* whatever is stored of the stream has its row, over crashes and races.   *)
WrittenFirst == \A e \in home : row[e] # "absent"

(* A row that will never be replayed again was stored, or its account was  *)
(* not watched: no crash and no failing write marks a tweet it lost.       *)
ProcessedIsStored == \A r \in Events : row[r] = "processed" => r \in home

(* The inbox is durable: an event is in it before its tweet is stored, and *)
(* leaves it only afterwards.                                              *)
InboxKept == WrittenFirst /\ ProcessedIsStored

(* A worker that goes live has worked off every row that was pending when  *)
(* its replay began, over any number of pages and equal arrival times,     *)
(* except malformed ones, and unless a write failed.                       *)
ReplayCovers ==
    [][\A w \in Workers :
          worker[w] = "replaying" /\ worker'[w] = "connected" /\ ~troubled[w] =>
              \A r \in owed[w] : r \in Malformed \/ row[r] # "pending"]_inbox_vars

(* If workers are started again and again, no well-formed event stays      *)
(* pending.                                                                *)
PendingDrains ==
    \A r \in Events :
        r \notin Malformed /\ []<>(\E w \in Workers : worker[w] = "replaying")
            => (row[r] = "pending" ~> row[r] # "pending")
=============================================================================
