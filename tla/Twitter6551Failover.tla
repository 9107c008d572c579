------------------------ MODULE Twitter6551Failover ------------------------
(***************************************************************************)
(* The failover manager of the cloud collector and the recovery workers it *)
(* creates and stops (src/lib/twitter-6551.ts), in FxTwitter or REST-only  *)
(* mode.                                                                   *)
(*                                                                         *)
(* A reconciliation runs alone: a timer tick or a heartbeat that finds one *)
(* in flight joins it. It stops the worker while the local bridge is       *)
(* fresh, and otherwise starts one, which takes several awaits: storage,   *)
(* replay, and a first backfill. Manual runs start workers too, beside a   *)
(* reconciliation. A stopped worker's backfill is not cancelled: it ends   *)
(* beside its successor's, and both write the table of attempts that       *)
(* outlives them.                                                          *)
(***************************************************************************)
EXTENDS Twitter6551Workers

CONSTANTS
    Scopes,         \* what is watched
    Interval,       \* backfillMinutes
    MaxManual       \* bound on manual runs

ASSUME FailoverAssumption ==
    /\ Interval \in Nat /\ MaxManual \in Nat

VARIABLES
    fresh,          \* the local bridge sent a healthy heartbeat lately
    grace,          \* the manager has run for a stale window
    scope,          \* what is watched now
    active,         \* activeWorker
    reconcile,      \* "idle", "stopping", or the worker that is being started
    phase,          \* phase[w]: "unused", "start", "first", "live"
    forced,         \* forced[w]: started with forceBackfill
    stopped,        \* stopped[w]
    timer,          \* timer[w]: when backfillTimer fires, or None
    running,        \* running[w]: the backfill that is running, or None
    attempts,       \* attempts[s]: recoveryAttempts, or None
    latest,         \* latest[s]: when a backfill of the scope last began
    overlapped,     \* backfills of two workers have overlapped
    orphaned,       \* a start failed after its worker had been replaced
    manuals         \* manual runs so far

clock == <<now, fresh, grace, scope>>
manager == <<active, reconcile>>
workers == <<phase, forced, stopped, timer, running>>
history == <<latest, overlapped, orphaned>>
counters == <<manuals, failures>>
vars == <<clock, manager, workers, attempts, history, counters>>

Backfill == [scope : Scopes, at : Time, auto : BOOLEAN]

ASSUME NoBackfillAssumption == None \notin Backfill

TypeOK ==
    /\ now \in Time /\ fresh \in BOOLEAN /\ grace \in BOOLEAN /\ scope \in Scopes
    /\ active \in Workers \cup {None}
    /\ reconcile \in {"idle", "stopping"} \cup Workers
    /\ phase \in [Workers -> {"unused", "start", "first", "live"}]
    /\ forced \in [Workers -> BOOLEAN]
    /\ stopped \in [Workers -> BOOLEAN]
    /\ timer \in [Workers -> (0 .. MaxTime + Interval) \cup {None}]
    /\ running \in [Workers -> Backfill \cup {None}]
    /\ attempts \in [Scopes -> Time \cup {None}]
    /\ latest \in [Scopes -> Time \cup {None}]
    /\ overlapped \in BOOLEAN /\ orphaned \in BOOLEAN
    /\ manuals \in 0 .. MaxManual /\ failures \in 0 .. MaxFailures

Init ==
    /\ now = 0 /\ fresh \in BOOLEAN /\ grace = FALSE /\ scope \in Scopes
    /\ active = None /\ reconcile = "idle"
    /\ phase = [w \in Workers |-> "unused"]
    /\ forced = [w \in Workers |-> FALSE]
    /\ stopped = [w \in Workers |-> FALSE]
    /\ timer = [w \in Workers |-> None]
    /\ running = [w \in Workers |-> None]
    /\ attempts = [s \in Scopes |-> None]
    /\ latest = [s \in Scopes |-> None]
    /\ overlapped = FALSE /\ orphaned = FALSE
    /\ manuals = 0 /\ failures = 0

-----------------------------------------------------------------------------
(* The environment *)

Tick ==
    /\ now < MaxTime
    /\ now' = now + 1
    /\ UNCHANGED <<fresh, grace, scope, manager, workers, attempts, history, counters>>

\* A heartbeat arrives, or none arrived for the stale window.
BridgeChanges ==
    /\ fresh' = ~fresh
    /\ UNCHANGED <<now, grace, scope, manager, workers, attempts, history, counters>>

GraceElapses ==
    /\ ~grace
    /\ grace' = TRUE
    /\ UNCHANGED <<now, fresh, scope, manager, workers, attempts, history, counters>>

EditWatchlist(s) ==
    /\ scope # s
    /\ scope' = s
    /\ UNCHANGED <<now, fresh, grace, manager, workers, attempts, history, counters>>

-----------------------------------------------------------------------------
(* When the next backfill is due *)

DelayFromStart(table) ==  \* mutant: the delay is not taken from now
    IF table[scope] = None \/ table[scope] + Interval <= now THEN 0
    ELSE table[scope] + Interval

\* recoveryDelayMs with a table of attempts
Delay(table) ==
    IF table[scope] = None \/ table[scope] + Interval <= now THEN 0
    ELSE table[scope] + Interval - now

DueAlways == TRUE  \* mutant: a new worker polls at once

Due == Delay(attempts) = 0

ArmedUnchecked(w, table) ==  \* mutant: a stopped worker arms its timer
    [timer EXCEPT ![w] = now + Delay(table)]

\* scheduleRecovery
Armed(w, table) ==
    [timer EXCEPT ![w] = IF stopped[w] THEN None ELSE now + Delay(table)]

\* The synchronous start of runBackfill.
Begin(w, auto) ==
    /\ running' = [running EXCEPT ![w] = [scope |-> scope, at |-> now, auto |-> auto]]
    /\ attempts' = [attempts EXCEPT ![scope] = now]
    /\ latest' = [latest EXCEPT ![scope] = now]
    /\ overlapped' = (overlapped \/ \E v \in Workers \ {w} : running[v] # None)
    /\ UNCHANGED orphaned

MayBegin(w) == running[w] = None /\ ~stopped[w]

-----------------------------------------------------------------------------
(* The manager *)

Free(w) ==
    /\ running[w] = None
    /\ phase[w] = "unused" \/ (phase[w] = "live" /\ stopped[w])

SpawnBeside(w, force) ==  \* mutant: an active worker is not returned
    /\ Free(w)
    /\ active' = w
    /\ phase' = [phase EXCEPT ![w] = "start"]
    /\ forced' = [forced EXCEPT ![w] = force]
    /\ stopped' = [stopped EXCEPT ![w] = FALSE]
    /\ timer' = [timer EXCEPT ![w] = None]
    /\ UNCHANGED running

\* startTwitter6551Worker up to the first await of Worker.start
Spawn(w, force) ==
    /\ active = None /\ Free(w)
    /\ active' = w
    /\ phase' = [phase EXCEPT ![w] = "start"]
    /\ forced' = [forced EXCEPT ![w] = force]
    /\ stopped' = [stopped EXCEPT ![w] = FALSE]
    /\ timer' = [timer EXCEPT ![w] = None]
    /\ UNCHANGED running

\* The bridge is fresh: the worker is given up and stopped; its drain is awaited.
ReconcileStops ==
    /\ reconcile = "idle" /\ fresh /\ active # None
    /\ active' = None
    /\ stopped' = [stopped EXCEPT ![active] = TRUE]
    /\ timer' = [timer EXCEPT ![active] = None]
    /\ reconcile' = "stopping"
    /\ UNCHANGED <<clock, phase, forced, running, attempts, history, counters>>

\* Drained, or the ten seconds are over: standby.
Standby ==
    /\ reconcile = "stopping"
    /\ reconcile' = "idle"
    /\ UNCHANGED <<clock, active, workers, attempts, history, counters>>

\* The bridge is lost; an active worker is left alone.
ReconcileStarts(w) ==
    /\ reconcile = "idle" /\ ~fresh /\ grace
    /\ Spawn(w, FALSE)
    /\ reconcile' = w
    /\ UNCHANGED <<clock, attempts, history, counters>>

\* runTwitter6551Backfill, allowed while the bridge is fresh
ManualRun ==
    /\ manuals < MaxManual
    /\ manuals' = manuals + 1
    /\ IF active = None
       THEN (\E w \in Workers : Spawn(w, TRUE)) /\ UNCHANGED <<attempts, history>>
       ELSE /\ IF MayBegin(active) THEN Begin(active, FALSE)
               ELSE UNCHANGED <<running, attempts, history>>
            /\ UNCHANGED <<active, phase, forced, stopped, timer>>
    /\ UNCHANGED <<clock, reconcile, failures>>

-----------------------------------------------------------------------------
(* A worker *)

StartedHolds(w) ==  \* mutant: failoverReconcile is never cleared
    phase' = [phase EXCEPT ![w] = "live"] /\ UNCHANGED reconcile

\* start() resolves; a reconciliation that waited for it is over.
Started(w) ==
    /\ phase' = [phase EXCEPT ![w] = "live"]
    /\ reconcile' = IF reconcile = w THEN "idle" ELSE reconcile

\* Storage and replay are done: a worker that was stopped meanwhile ends here.
StartContinues(w) ==
    /\ phase[w] = "start"
    /\ \/ /\ stopped[w]
          /\ Started(w)
          /\ UNCHANGED <<timer, running, attempts, history>>
       \/ /\ ~stopped[w] /\ MayBegin(w) /\ (forced[w] \/ Due)
          /\ Begin(w, ~forced[w])
          /\ phase' = [phase EXCEPT ![w] = "first"]
          /\ UNCHANGED <<timer, reconcile>>
       \/ /\ ~stopped[w] /\ ~(MayBegin(w) /\ (forced[w] \/ Due))
          /\ Started(w)
          /\ timer' = Armed(w, attempts)
          /\ UNCHANGED <<running, attempts, history>>
    /\ UNCHANGED <<clock, active, forced, stopped, counters>>

\* The storage write throws: whoever awaited the start gives up the active
\* worker, whichever it is by now.
StartFails(w) ==
    /\ phase[w] = "start" /\ failures < MaxFailures
    /\ failures' = failures + 1
    /\ phase' = [phase EXCEPT ![w] = "unused"]
    /\ active' = None
    /\ reconcile' = IF reconcile = w THEN "idle" ELSE reconcile
    /\ orphaned' = (orphaned \/ active \notin {w, None})
    /\ UNCHANGED <<clock, forced, stopped, timer, running, attempts, latest, overlapped,
                   manuals>>

\* The timer fires: a backfill if one is due and none is running, and the
\* next timer at once if not.
TimerFires(w) ==
    /\ timer[w] # None /\ timer[w] <= now
    /\ IF Due /\ MayBegin(w)
       THEN Begin(w, TRUE) /\ timer' = [timer EXCEPT ![w] = None]
       ELSE timer' = Armed(w, attempts) /\ UNCHANGED <<running, attempts, history>>
    /\ UNCHANGED <<clock, manager, phase, forced, stopped, counters>>

\* A backfill ends, however it went, and its attempt is written again; the
\* paid fallback of an automatic run writes it under the present scope.
BackfillEnds(w) ==
    /\ running[w] # None
    /\ \E s \in {running[w].scope} \cup (IF running[w].auto THEN {scope} ELSE {}) :
          attempts' = [attempts EXCEPT ![s] = running[w].at]
    /\ running' = [running EXCEPT ![w] = None]
    /\ IF phase[w] = "first"
       THEN Started(w) /\ timer' = Armed(w, attempts')
       ELSE /\ timer' = IF running[w].auto THEN Armed(w, attempts') ELSE timer
            /\ UNCHANGED <<phase, reconcile>>
    /\ UNCHANGED <<clock, active, forced, stopped, history, counters>>

-----------------------------------------------------------------------------
WorkerStep(w) == StartContinues(w) \/ TimerFires(w) \/ BackfillEnds(w)

Next ==
    \/ Tick \/ BridgeChanges \/ GraceElapses
    \/ \E s \in Scopes : EditWatchlist(s)
    \/ ReconcileStops \/ Standby \/ ManualRun
    \/ \E w \in Workers : ReconcileStarts(w) \/ WorkerStep(w) \/ StartFails(w)

Spec == Init /\ [][Next]_vars

(* Fairness: the manager's interval keeps firing, its drain is bounded by  *)
(* ten seconds, timers fire, and every await of a worker settles (requests *)
(* have time limits).                                                      *)
Fairness ==
    /\ WF_vars(GraceElapses)
    /\ WF_vars(ReconcileStops) /\ WF_vars(Standby)
    /\ WF_vars(\E w \in Workers : ReconcileStarts(w))
    /\ \A w \in Workers :
          WF_vars(StartContinues(w)) /\ WF_vars(TimerFires(w)) /\ WF_vars(BackfillEnds(w))

FairSpec == Spec /\ Fairness

-----------------------------------------------------------------------------
Live(w) == phase[w] # "unused" /\ ~stopped[w]

(* Nobody but the active worker lives, so the next reconciliation can stop *)
(* everything; a second live worker could never be stopped again. A start  *)
(* that fails after its worker was replaced breaks this: startTwitter6551- *)
(* Worker then forgets the successor.                                      *)
LiveIsActive == ~orphaned => \A w \in Workers : Live(w) => active = w

(* A live worker's chain never breaks: its timer is armed, or a backfill   *)
(* of its own is running that will arm it.                                 *)
ChainKept ==
    \A w \in Workers :
        phase[w] = "live" /\ ~stopped[w] =>
            timer[w] # None \/ (running[w] # None /\ running[w].auto)

(* One worker lives at a time, and it keeps polling.                       *)
OneLiveChain == LiveIsActive /\ ChainKept

(* A stopped worker arms no timer and begins no backfill, whatever it was  *)
(* awaiting when it was stopped.                                           *)
StoppedIsQuiet ==
    [][\A w \in Workers :
          stopped[w] /\ stopped'[w] =>
              timer'[w] = None /\ (running[w] = None => running'[w] = None)]_vars

BeginsAutomatically(w) == running[w] = None /\ running'[w] # None /\ running'[w].auto

AnIntervalLater == latest[scope] = None \/ now - latest[scope] >= Interval

(* "A failover worker recreated before the configured FxTwitter or 6551    *)
(* recovery interval elapses keeps the original next due time instead of   *)
(* repeating the full REST poll immediately" (docs/cloud-6551.md:123-125): *)
(* over stops, starts, manual runs and edits of the watch list, automatic  *)
(* backfills of a scope keep the interval to the last one that began, as   *)
(* long as no two workers' backfills have overlapped.                      *)
DueTimeKept ==
    [][\A w \in Workers :
          BeginsAutomatically(w) => AnIntervalLater \/ overlapped']_vars

(* A bridge that stays fresh returns the recovery to standby for good      *)
(* (docs/cloud-6551.md:74: "the cloud process returns FxTwitter to         *)
(* standby"), whatever was starting or running when it came back, unless   *)
(* a late failure made the manager forget a worker.                        *)
StandbyReached == <>[]fresh => <>[](orphaned \/ \A w \in Workers : ~Live(w))

(* A bridge that stays away is replaced, by a worker that stays. *)
TakenOver == <>[]~fresh => <>[](\E w \in Workers : Live(w) /\ phase[w] = "live")

(* The recovery follows a bridge that stays, or stays away.                *)
FollowsBridge == StandbyReached /\ TakenOver
=============================================================================
