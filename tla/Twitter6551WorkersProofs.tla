---------------------- MODULE Twitter6551WorkersProofs ----------------------
(***************************************************************************)
(* Proofs about Twitter6551Failover and Twitter6551Inbox, for every set of *)
(* workers: the former for any scopes, interval and number of manual runs  *)
(* and failing starts, the latter for any finite set of events, any pages, *)
(* configurations, crashes and failing writes.                             *)
(***************************************************************************)
EXTENDS Twitter6551Failover, Twitter6551Inbox, FiniteSetTheorems, TLAPS

-----------------------------------------------------------------------------
(* Twitter6551Failover: the inductive invariant.                           *)

(* No attempt and no backfill lies in the future, so that a delay is never *)
(* longer than the interval.                                               *)
NothingAhead ==
    /\ \A s \in Scopes : attempts[s] # None => attempts[s] <= now
    /\ \A w \in Workers : running[w] # None => running[w].at <= now

(* A worker that was stopped has no timer left.                            *)
StoppedIsDisarmed == \A w \in Workers : stopped[w] => timer[w] = None

(* Until two workers' backfills overlap, the table of attempts is never    *)
(* behind the last backfill of a scope, and a backfill that runs began     *)
(* last of all: when it ends it writes nothing older than the table has.   *)
TableIsCurrent ==
    ~overlapped =>
        \A s \in Scopes : latest[s] # None =>
            /\ attempts[s] # None /\ latest[s] <= attempts[s]
            /\ \A w \in Workers : running[w] # None => latest[s] <= running[w].at

FailoverInv ==
    /\ TypeOK /\ NothingAhead /\ StoppedIsDisarmed
    /\ LiveIsActive /\ ChainKept /\ TableIsCurrent

-----------------------------------------------------------------------------
(* What the helpers of the handlers do.                                    *)

Instants == 0 .. MaxTime + Interval

(* A delay is at most the interval, when the table is not ahead.           *)
LEMMA DelayBounded ==
    ASSUME TypeOK, NEW known \in [Scopes -> Time \cup {None}],
           \A s \in Scopes : known[s] # None => known[s] <= now
    PROVE  Delay(known) \in Nat /\ Delay(known) <= Interval
BY FailoverAssumption, WorkersAssumption DEF TypeOK, Delay, Time

(* Arming sets a timer unless the worker was stopped, and touches no other *)
(* worker's.                                                               *)
LEMMA ArmedTimer ==
    ASSUME TypeOK, NEW w \in Workers, NEW known \in [Scopes -> Time \cup {None}],
           \A s \in Scopes : known[s] # None => known[s] <= now
    PROVE  /\ Armed(w, known) \in [Workers -> Instants \cup {None}]
           /\ \A v \in Workers \ {w} : Armed(w, known)[v] = timer[v]
           /\ Armed(w, known)[w] = None <=> stopped[w]
<1>1. now + Delay(known) \in Instants
  BY DelayBounded, FailoverAssumption, WorkersAssumption DEF TypeOK, Time, Instants
<1>2. now + Delay(known) # None
  BY <1>1, FailoverAssumption, WorkersAssumption DEF Instants
<1>. QED
  BY <1>1, <1>2 DEF Armed, TypeOK, Instants

(* A backfill that begins is dated now and noted in both tables; whether   *)
(* it overlaps another worker's is remembered.                             *)
LEMMA BackfillBegun ==
    ASSUME TypeOK, NEW w \in Workers, NEW auto \in BOOLEAN, Begin(w, auto)
    PROVE  /\ running' \in [Workers -> Backfill \cup {None}]
           /\ attempts' \in [Scopes -> Time \cup {None}]
           /\ latest' \in [Scopes -> Time \cup {None}]
           /\ overlapped' \in BOOLEAN /\ orphaned' = orphaned
           /\ running'[w] = [scope |-> scope, at |-> now, auto |-> auto]
           /\ running'[w] \in Backfill /\ running'[w] # None
           /\ \A v \in Workers \ {w} : running'[v] = running[v]
           /\ attempts'[scope] = now /\ latest'[scope] = now
           /\ \A s \in Scopes \ {scope} : attempts'[s] = attempts[s] /\ latest'[s] = latest[s]
           /\ ~overlapped' => ~overlapped /\ \A v \in Workers \ {w} : running[v] = None
<1>1. [scope |-> scope, at |-> now, auto |-> auto] \in Backfill
  BY DEF TypeOK, Backfill
<1>. QED
  BY <1>1, NoBackfillAssumption DEF Begin, TypeOK

-----------------------------------------------------------------------------
(* Each action preserves the invariant.                                    *)

LEMMA FailoverInit == Init => FailoverInv
<1> SUFFICES ASSUME Init PROVE FailoverInv
  OBVIOUS
<1>1. TypeOK
  <2>1. 0 \in Time /\ 0 \in 0 .. MaxManual /\ 0 \in 0 .. MaxFailures
    BY FailoverAssumption, WorkersAssumption DEF Time
  <2>. QED
    BY <2>1 DEF Init, TypeOK
<1>2. NothingAhead /\ StoppedIsDisarmed /\ LiveIsActive /\ ChainKept /\ TableIsCurrent
  BY DEF Init, NothingAhead, StoppedIsDisarmed, LiveIsActive, Live, ChainKept, TableIsCurrent
<1>. QED
  BY <1>1, <1>2 DEF FailoverInv

(* The clock, the bridge and the watchlist move under the workers. *)
LEMMA EnvironmentKeeps ==
    ASSUME FailoverInv, Tick \/ BridgeChanges \/ GraceElapses \/ (\E s \in Scopes : EditWatchlist(s))
    PROVE  FailoverInv'
<1>1. /\ UNCHANGED <<manager, workers, attempts, history, counters>>
      /\ now' \in Time /\ now <= now'
  BY FailoverAssumption, WorkersAssumption
     DEF FailoverInv, TypeOK, Time, Tick, BridgeChanges, GraceElapses, EditWatchlist
<1>2. TypeOK'
  BY <1>1
     DEF FailoverInv, TypeOK, Tick, BridgeChanges, GraceElapses, EditWatchlist, manager, workers,
         history, counters
<1>3. NothingAhead'
  BY <1>1 DEF FailoverInv, TypeOK, NothingAhead, Time, Backfill, workers
<1>4. (StoppedIsDisarmed /\ LiveIsActive /\ ChainKept /\ TableIsCurrent)'
  BY <1>1
     DEF FailoverInv, StoppedIsDisarmed, LiveIsActive, Live, ChainKept, TableIsCurrent, manager,
         workers, history
<1>. QED
  BY <1>2, <1>3, <1>4 DEF FailoverInv

(* The bridge is back: the worker is stopped. *)
LEMMA ReconcileStopsKeeps == ASSUME FailoverInv, ReconcileStops PROVE FailoverInv'
<1>. USE DEF FailoverInv, ReconcileStops, clock, history, counters
<1>1. active \in Workers
  BY DEF TypeOK
<1>2. TypeOK'
  BY <1>1 DEF TypeOK
<1>3. (NothingAhead /\ TableIsCurrent)'
  BY DEF NothingAhead, TableIsCurrent
<1>4. (StoppedIsDisarmed /\ LiveIsActive /\ ChainKept)'
  BY <1>1 DEF TypeOK, StoppedIsDisarmed, LiveIsActive, Live, ChainKept
<1>. QED
  BY <1>2, <1>3, <1>4

(* The stopped worker has drained. *)
LEMMA StandbyKeeps == ASSUME FailoverInv, Standby PROVE FailoverInv'
BY DEF FailoverInv, Standby, TypeOK, NothingAhead, StoppedIsDisarmed, LiveIsActive, Live, ChainKept,
       TableIsCurrent, clock, workers, history, counters

(* A worker is made only while there is no other.                          *)
LEMMA SpawnKeeps ==
    ASSUME FailoverInv, NEW w \in Workers, NEW force \in BOOLEAN, Spawn(w, force),
           UNCHANGED <<clock, attempts, history>>,
           reconcile' \in {reconcile, w}, manuals' \in 0 .. MaxManual, failures' = failures
    PROVE  FailoverInv'
<1>. USE DEF FailoverInv, Spawn, clock, history
<1>1. TypeOK'
  BY DEF TypeOK
<1>2. (NothingAhead /\ TableIsCurrent)'
  BY DEF NothingAhead, TableIsCurrent
<1>3. (StoppedIsDisarmed /\ ChainKept)'
  BY DEF TypeOK, StoppedIsDisarmed, ChainKept
<1>4. LiveIsActive'
  BY FailoverAssumption, WorkersAssumption DEF TypeOK, LiveIsActive, Live
<1>. QED
  BY <1>1, <1>2, <1>3, <1>4

(* The bridge is lost, and a worker is started if there is none. *)
LEMMA ReconcileStartsKeeps ==
    ASSUME FailoverInv, NEW w \in Workers, ReconcileStarts(w) PROVE FailoverInv'
BY SpawnKeeps DEF ReconcileStarts, counters, FailoverInv, TypeOK

(* A backfill that begins keeps the tables current, whoever began it.      *)
LEMMA BeginKeeps ==
    ASSUME FailoverInv, NEW w \in Workers, NEW auto \in BOOLEAN, MayBegin(w), Begin(w, auto),
           UNCHANGED clock
    PROVE  (NothingAhead /\ TableIsCurrent)'
<1>1. UNCHANGED <<now, scope>>
  BY DEF clock
<1>2. TypeOK /\ now \in Int /\ now # None /\ scope \in Scopes
  BY FailoverAssumption, WorkersAssumption DEF FailoverInv, TypeOK, Time
<1>3. /\ running'[w] = [scope |-> scope, at |-> now, auto |-> auto] /\ running'[w] # None
      /\ \A v \in Workers \ {w} : running'[v] = running[v]
      /\ attempts'[scope] = now /\ latest'[scope] = now
      /\ \A s \in Scopes \ {scope} : attempts'[s] = attempts[s] /\ latest'[s] = latest[s]
      /\ ~overlapped' => ~overlapped /\ \A v \in Workers \ {w} : running[v] = None
  BY <1>2, BackfillBegun
<1>4. NothingAhead'
  BY <1>1, <1>2, <1>3 DEF FailoverInv, NothingAhead
<1>5. TableIsCurrent'
  <2> SUFFICES ASSUME ~overlapped', NEW s \in Scopes, latest'[s] # None
      PROVE  /\ attempts'[s] # None /\ latest'[s] <= attempts'[s]
             /\ \A v \in Workers : running'[v] # None => latest'[s] <= running'[v].at
    BY DEF TableIsCurrent
  <2>1. latest'[s] \in Time /\ latest'[s] <= now
    <3>1. CASE s = scope
      BY <3>1, <1>2, <1>3 DEF TypeOK
    <3>2. CASE s # scope
      <4>1. latest'[s] = latest[s] /\ ~overlapped
        BY <3>2, <1>3
      <4>2. attempts[s] \in Time /\ latest[s] <= attempts[s] /\ attempts[s] <= now
        BY <4>1 DEF FailoverInv, TableIsCurrent, NothingAhead, TypeOK
      <4>. QED
        BY <4>1, <4>2, <1>2 DEF FailoverInv, TypeOK, Time
    <3>. QED
      BY <3>1, <3>2
  <2>2. attempts'[s] # None /\ latest'[s] <= attempts'[s]
    <3>1. CASE s = scope
      BY <3>1, <1>2, <1>3
    <3>2. CASE s # scope
      BY <3>2, <1>3 DEF FailoverInv, TableIsCurrent
    <3>. QED
      BY <3>1, <3>2
  <2>3. \A v \in Workers : running'[v] # None => v = w /\ running'[v].at = now
    BY <1>3
  <2>. QED
    BY <2>1, <2>2, <2>3
<1>. QED
  BY <1>4, <1>5

(* The user asks for a backfill. *)
LEMMA ManualRunKeeps == ASSUME FailoverInv, ManualRun PROVE FailoverInv'
<1>1. manuals' \in 0 .. MaxManual
  BY FailoverAssumption, WorkersAssumption DEF FailoverInv, TypeOK, ManualRun
<1>2. CASE active = None
  BY <1>1, <1>2, SpawnKeeps DEF ManualRun, clock
<1>3. CASE active # None /\ ~MayBegin(active)
  BY <1>1, <1>3
     DEF ManualRun, FailoverInv, TypeOK, NothingAhead, StoppedIsDisarmed, LiveIsActive, Live,
         ChainKept, TableIsCurrent, clock, workers, history
<1>4. CASE active # None /\ MayBegin(active)
  <2>1. /\ active \in Workers /\ Begin(active, FALSE) /\ running[active] = None
        /\ UNCHANGED <<clock, reconcile, failures, active, phase, forced, stopped, timer>>
    BY <1>4 DEF ManualRun, FailoverInv, TypeOK, MayBegin
  <2>2. TypeOK'
    BY <1>1, <2>1, BackfillBegun DEF FailoverInv, TypeOK, clock
  <2>3. (NothingAhead /\ TableIsCurrent)'
    BY <1>4, <2>1, BeginKeeps
  <2>4. (StoppedIsDisarmed /\ LiveIsActive /\ ChainKept)'
    BY <2>1, BackfillBegun DEF FailoverInv, StoppedIsDisarmed, LiveIsActive, Live, ChainKept
  <2>. QED
    BY <2>2, <2>3, <2>4 DEF FailoverInv
<1>. QED
  BY <1>2, <1>3, <1>4

(* Beginning and arming in one step: what an action of worker w keeps, if  *)
(* it leaves the others alone.                                             *)
LEMMA ContinuesKeeps == ASSUME FailoverInv, NEW w \in Workers, StartContinues(w) PROVE FailoverInv'
<1>. USE DEF clock, counters
<1>1. CASE stopped[w] /\ Started(w) /\ UNCHANGED <<timer, running, attempts, history>>
  BY <1>1
     DEF StartContinues, Started, FailoverInv, TypeOK, NothingAhead, StoppedIsDisarmed, LiveIsActive,
         Live, ChainKept, TableIsCurrent, history
<1>2. CASE /\ ~stopped[w] /\ MayBegin(w) /\ Begin(w, ~forced[w])
           /\ phase' = [phase EXCEPT ![w] = "first"] /\ UNCHANGED <<timer, reconcile>>
  <2>1. TypeOK /\ (~forced[w]) \in BOOLEAN /\ phase[w] = "start"
    BY DEF FailoverInv, TypeOK, StartContinues
  <2>2. (NothingAhead /\ TableIsCurrent)'
    BY <1>2, <2>1, BeginKeeps DEF StartContinues
  <2>3. TypeOK'
    BY <1>2, <2>1, BackfillBegun DEF TypeOK, StartContinues
  <2>4. /\ orphaned' = orphaned
        /\ \A v \in Workers \ {w} : running'[v] = running[v]
    BY <1>2, <2>1, BackfillBegun
  <2>5. (StoppedIsDisarmed /\ LiveIsActive /\ ChainKept)'
    BY <1>2, <2>1, <2>4
       DEF FailoverInv, TypeOK, StartContinues, StoppedIsDisarmed, LiveIsActive, Live, ChainKept
  <2>. QED
    BY <2>2, <2>3, <2>5 DEF FailoverInv
<1>3. CASE /\ ~stopped[w] /\ Started(w) /\ timer' = Armed(w, attempts)
           /\ UNCHANGED <<running, attempts, history>>
  <2>1. /\ TypeOK /\ attempts \in [Scopes -> Time \cup {None}] /\ phase[w] = "start"
        /\ \A s \in Scopes : attempts[s] # None => attempts[s] <= now
    BY DEF FailoverInv, TypeOK, NothingAhead, StartContinues
  <2>2. /\ timer' \in [Workers -> Instants \cup {None}] /\ timer'[w] # None
        /\ \A v \in Workers \ {w} : timer'[v] = timer[v]
    BY <1>3, <2>1, ArmedTimer
  <2>3. TypeOK'
    BY <1>3, <2>1, <2>2 DEF TypeOK, StartContinues, Started, Instants, history
  <2>4. (NothingAhead /\ TableIsCurrent)'
    BY <1>3 DEF FailoverInv, NothingAhead, TableIsCurrent, StartContinues, history
  <2>5. (StoppedIsDisarmed /\ LiveIsActive /\ ChainKept)'
    BY <1>3, <2>1, <2>2
       DEF FailoverInv, TypeOK, StartContinues, Started, StoppedIsDisarmed, LiveIsActive, Live,
           ChainKept, history
  <2>. QED
    BY <2>3, <2>4, <2>5 DEF FailoverInv
<1>. QED
  BY <1>1, <1>2, <1>3 DEF StartContinues

(* A start fails, and the active worker is given up. *)
LEMMA StartFailsKeeps == ASSUME FailoverInv, NEW w \in Workers, StartFails(w) PROVE FailoverInv'
<1>. USE DEF FailoverInv, StartFails, clock
<1>1. TypeOK'
  BY FailoverAssumption, WorkersAssumption DEF TypeOK
<1>2. (NothingAhead /\ TableIsCurrent /\ StoppedIsDisarmed)'
  BY DEF NothingAhead, TableIsCurrent, StoppedIsDisarmed
<1>3. (LiveIsActive /\ ChainKept)'
  BY DEF TypeOK, LiveIsActive, Live, ChainKept
<1>. QED
  BY <1>1, <1>2, <1>3

(* A worker's timer fires. *)
LEMMA TimerFiresKeeps == ASSUME FailoverInv, NEW w \in Workers, TimerFires(w) PROVE FailoverInv'
<1>. USE DEF clock, counters, manager
<1>1. CASE MayBegin(w) /\ Begin(w, TRUE) /\ timer' = [timer EXCEPT ![w] = None]
  <2>1. TypeOK /\ TRUE \in BOOLEAN
    BY DEF FailoverInv
  <2>2. (NothingAhead /\ TableIsCurrent)'
    BY <1>1, <2>1, BeginKeeps DEF TimerFires
  <2>3. /\ running' \in [Workers -> Backfill \cup {None}]
        /\ attempts' \in [Scopes -> Time \cup {None}]
        /\ latest' \in [Scopes -> Time \cup {None}]
        /\ overlapped' \in BOOLEAN /\ orphaned' = orphaned
        /\ running'[w] = [scope |-> scope, at |-> now, auto |-> TRUE] /\ running'[w] # None
        /\ \A v \in Workers \ {w} : running'[v] = running[v]
    BY <1>1, <2>1, BackfillBegun
  <2>4. TypeOK'
    BY <1>1, <2>1, <2>3 DEF TypeOK, TimerFires
  <2>5. (StoppedIsDisarmed /\ LiveIsActive /\ ChainKept)'
    BY <1>1, <2>3
       DEF FailoverInv, TypeOK, TimerFires, StoppedIsDisarmed, LiveIsActive, Live, ChainKept
  <2>. QED
    BY <2>2, <2>4, <2>5 DEF FailoverInv
<1>2. CASE timer' = Armed(w, attempts) /\ UNCHANGED <<running, attempts, history>>
  <2>1. /\ TypeOK /\ attempts \in [Scopes -> Time \cup {None}]
        /\ \A s \in Scopes : attempts[s] # None => attempts[s] <= now
    BY DEF FailoverInv, TypeOK, NothingAhead
  <2>2. /\ timer' \in [Workers -> Instants \cup {None}]
        /\ timer'[w] = None <=> stopped[w]
        /\ \A v \in Workers \ {w} : timer'[v] = timer[v]
    BY <1>2, <2>1, ArmedTimer
  <2>3. TypeOK'
    BY <1>2, <2>1, <2>2 DEF TypeOK, TimerFires, Instants, history
  <2>4. (NothingAhead /\ TableIsCurrent)'
    BY <1>2 DEF FailoverInv, NothingAhead, TableIsCurrent, TimerFires, history
  <2>5. (StoppedIsDisarmed /\ LiveIsActive /\ ChainKept)'
    BY <1>2, <2>2
       DEF FailoverInv, TimerFires, StoppedIsDisarmed, LiveIsActive, Live, ChainKept, history
  <2>. QED
    BY <2>3, <2>4, <2>5 DEF FailoverInv
<1>. QED
  BY <1>1, <1>2 DEF TimerFires

(* What a backfill writes when it ends is in the past, and no older than   *)
(* the last backfill of the scope.                                         *)
LEMMA EndWrites ==
    ASSUME FailoverInv, NEW w \in Workers, BackfillEnds(w)
    PROVE  /\ attempts' \in [Scopes -> Time \cup {None}]
           /\ \A s \in Scopes : attempts'[s] # None => attempts'[s] <= now
           /\ ~overlapped => \A s \in Scopes : latest[s] # None =>
                 attempts'[s] # None /\ latest[s] <= attempts'[s]
<1>1. /\ running[w] \in Backfill /\ running[w] # None /\ running[w].at <= now
      /\ running[w].at # None
  BY FailoverAssumption, WorkersAssumption DEF FailoverInv, TypeOK, NothingAhead, BackfillEnds, Backfill, Time
<1>2. PICK s \in Scopes : attempts' = [attempts EXCEPT ![s] = running[w].at]
  BY <1>1 DEF FailoverInv, TypeOK, BackfillEnds, Backfill
<1>3. attempts' \in [Scopes -> Time \cup {None}]
  BY <1>1, <1>2 DEF FailoverInv, TypeOK, Backfill
<1>4. \A t \in Scopes : attempts'[t] = IF t = s THEN running[w].at ELSE attempts[t]
  BY <1>2 DEF FailoverInv, TypeOK
<1>5. \A t \in Scopes : attempts'[t] # None => attempts'[t] <= now
  BY <1>1, <1>4 DEF FailoverInv, NothingAhead
<1>6. ~overlapped => \A t \in Scopes : latest[t] # None =>
         attempts'[t] # None /\ latest[t] <= attempts'[t]
  BY <1>1, <1>4 DEF FailoverInv, TableIsCurrent
<1>. QED
  BY <1>3, <1>5, <1>6

(* A backfill ends. *)
LEMMA BackfillEndsKeeps == ASSUME FailoverInv, NEW w \in Workers, BackfillEnds(w) PROVE FailoverInv'
<1>1. /\ TypeOK /\ attempts' \in [Scopes -> Time \cup {None}] /\ running[w] # None
      /\ \A s \in Scopes : attempts'[s] # None => attempts'[s] <= now
      /\ ~overlapped => \A s \in Scopes : latest[s] # None =>
                 attempts'[s] # None /\ latest[s] <= attempts'[s]
      /\ running' = [running EXCEPT ![w] = None]
      /\ UNCHANGED <<clock, active, forced, stopped, history, counters>>
  BY EndWrites DEF FailoverInv, BackfillEnds
<1>. USE DEF clock, history, counters
<1>2. /\ timer' \in [Workers -> Instants \cup {None}]
      /\ \A v \in Workers \ {w} : timer'[v] = timer[v]
      /\ timer'[w] # timer[w] => (timer'[w] = None <=> stopped[w])
      /\ phase[w] = "first" \/ running[w].auto => (timer'[w] = None <=> stopped[w])
  <2>1. /\ Armed(w, attempts') \in [Workers -> Instants \cup {None}]
        /\ \A v \in Workers \ {w} : Armed(w, attempts')[v] = timer[v]
        /\ Armed(w, attempts')[w] = None <=> stopped[w]
    BY <1>1, ArmedTimer
  <2>2. timer \in [Workers -> Instants \cup {None}]
    BY <1>1 DEF TypeOK, Instants
  <2>. QED
    BY <2>1, <2>2 DEF BackfillEnds
<1>3. /\ \A v \in Workers \ {w} : phase'[v] = phase[v]
      /\ phase'[w] = IF phase[w] = "first" THEN "live" ELSE phase[w]
      /\ phase' \in [Workers -> {"unused", "start", "first", "live"}]
      /\ reconcile' \in {reconcile, "idle"}
  BY <1>1 DEF TypeOK, BackfillEnds, Started
<1>4. TypeOK'
  BY <1>1, <1>2, <1>3 DEF TypeOK, Instants
<1>5. (NothingAhead /\ TableIsCurrent)'
  BY <1>1 DEF FailoverInv, TypeOK, NothingAhead, TableIsCurrent
<1>6. (StoppedIsDisarmed /\ LiveIsActive)'
  BY <1>1, <1>2, <1>3 DEF FailoverInv, StoppedIsDisarmed, LiveIsActive, Live
<1>7. ChainKept'
  BY <1>1, <1>2, <1>3 DEF FailoverInv, TypeOK, ChainKept
<1>. QED
  BY <1>4, <1>5, <1>6, <1>7 DEF FailoverInv

-----------------------------------------------------------------------------
(* What the failover manager guarantees.                                   *)

LEMMA FailoverStep == FailoverInv /\ [Next]_vars => FailoverInv'
<1> SUFFICES ASSUME FailoverInv, [Next]_vars PROVE FailoverInv'
  OBVIOUS
<1>1. CASE Tick \/ BridgeChanges \/ GraceElapses \/ \E s \in Scopes : EditWatchlist(s)
  BY <1>1, EnvironmentKeeps
<1>2. CASE ReconcileStops \/ Standby \/ ManualRun
  BY <1>2, ReconcileStopsKeeps, StandbyKeeps, ManualRunKeeps
<1>3. CASE \E w \in Workers : ReconcileStarts(w) \/ WorkerStep(w) \/ StartFails(w)
  BY <1>3, ReconcileStartsKeeps, ContinuesKeeps, TimerFiresKeeps, BackfillEndsKeeps,
     StartFailsKeeps DEF WorkerStep
<1>4. CASE UNCHANGED vars
  BY <1>4
     DEF vars, clock, manager, workers, history, counters, FailoverInv, TypeOK, NothingAhead,
         StoppedIsDisarmed, LiveIsActive, Live, ChainKept, TableIsCurrent
<1>. QED
  BY <1>1, <1>2, <1>3, <1>4 DEF Next

(* The invariant of the workers holds in every reachable state. *)
LEMMA FailoverInvariant == Spec => []FailoverInv
BY FailoverInit, FailoverStep, PTL DEF Spec

(* The variables of the failover manager and its workers keep their types, *)
(* for any interval: no timer is armed later than an interval from now.    *)
THEOREM FailoverTyped == Spec => []TypeOK
<1>1. FailoverInv => TypeOK
  BY DEF FailoverInv
<1>. QED
  BY <1>1, FailoverInvariant, PTL

(* startTwitter6551Worker and the reconciliation never leave two workers   *)
(* alive, but for the late failure that is remembered, and the chain of    *)
(* scheduleRecovery never breaks for a live one, however many workers,     *)
(* manual runs and stops there are.                                        *)
THEOREM OneChainLives == Spec => []OneLiveChain
<1>1. FailoverInv => OneLiveChain
  BY DEF FailoverInv, OneLiveChain
<1>. QED
  BY <1>1, FailoverInvariant, PTL

(* A backfill begins in Begin only, of a worker that may; an automatic one *)
(* in a start or by a timer, and then it is due.                           *)
LEMMA BeginsOnlyThere ==
    ASSUME FailoverInv, [Next]_vars, NEW w \in Workers, running[w] = None, running'[w] # None
    PROVE  \E auto \in BOOLEAN :
              MayBegin(w) /\ Begin(w, auto) /\ UNCHANGED clock /\ (auto => Due)
<1> DEFINE Goal == \E auto \in BOOLEAN :
        MayBegin(w) /\ Begin(w, auto) /\ UNCHANGED clock /\ (auto => Due)
<1>1. CASE UNCHANGED running
  BY <1>1
<1>2. ASSUME NEW v \in Workers, NEW auto \in BOOLEAN, MayBegin(v), Begin(v, auto),
             UNCHANGED clock, auto => Due
      PROVE  Goal
  <2>1. v = w
    BY <1>2, BackfillBegun DEF FailoverInv
  <2>. QED
    BY <2>1, <1>2
<1>3. CASE ManualRun
  <2>1. active \in Workers \/ active = None
    BY DEF FailoverInv, TypeOK
  <2>. QED
    BY <2>1, <1>1, <1>2, <1>3 DEF ManualRun, Spawn
<1>4. ASSUME NEW v \in Workers, WorkerStep(v) PROVE Goal
  <2>1. CASE StartContinues(v)
    <3>1. (~forced[v]) \in BOOLEAN
      OBVIOUS
    <3>. QED
      BY <3>1, <2>1, <1>1, <1>2 DEF StartContinues
  <2>2. CASE TimerFires(v)
    BY <2>2, <1>1, <1>2 DEF TimerFires
  <2>3. CASE BackfillEnds(v)
    BY <2>3 DEF BackfillEnds, FailoverInv, TypeOK
  <2>. QED
    BY <1>4, <2>1, <2>2, <2>3 DEF WorkerStep
<1>. QED
  BY <1>1, <1>3, <1>4
     DEF Next, vars, workers, Tick, BridgeChanges, GraceElapses, EditWatchlist,
         ReconcileStops, Standby, ReconcileStarts, Spawn, StartFails

(* A worker whose stop() was called arms no timer and begins no backfill,  *)
(* whatever await of start, poll or backfill it was in.                    *)
THEOREM StoppedStaysQuiet == Spec => StoppedIsQuiet
<1> DEFINE StaysQuiet ==
        \A w \in Workers :
            stopped[w] /\ stopped'[w] =>
                timer'[w] = None /\ (running[w] = None => running'[w] = None)
<1>1. FailoverInv /\ FailoverInv' /\ [Next]_vars => StaysQuiet
  <2> SUFFICES ASSUME FailoverInv, FailoverInv', [Next]_vars, NEW w \in Workers, stopped[w], stopped'[w]
      PROVE  timer'[w] = None /\ (running[w] = None => running'[w] = None)
    OBVIOUS
  <2>1. timer'[w] = None
    BY DEF FailoverInv, StoppedIsDisarmed
  <2>2. running[w] = None => running'[w] = None
    BY BeginsOnlyThere DEF MayBegin
  <2>. QED
    BY <2>1, <2>2
<1>2. Spec => [][StaysQuiet]_vars
  BY <1>1, FailoverInvariant, PTL DEF Spec
<1>. QED
  BY <1>2 DEF StoppedIsQuiet

(* recoveryDelayMs keeps the due time over workers: an automatic backfill  *)
(* of a scope begins an interval after the last one that began, whoever    *)
(* began it and whatever wrote the attempts since, until two workers'      *)
(* backfills have overlapped.                                              *)
THEOREM DueTimeIsKept == Spec => DueTimeKept
<1> DEFINE InTime ==
        \A w \in Workers : BeginsAutomatically(w) => AnIntervalLater \/ overlapped'
<1>1. FailoverInv /\ [Next]_vars => InTime
  <2> SUFFICES ASSUME FailoverInv, [Next]_vars, NEW w \in Workers, BeginsAutomatically(w),
                      ~overlapped', latest[scope] # None
      PROVE  now - latest[scope] >= Interval
    BY DEF AnIntervalLater
  <2>1. PICK auto \in BOOLEAN : Begin(w, auto) /\ (auto => Due)
    BY BeginsOnlyThere DEF BeginsAutomatically
  <2>2. running'[w] = [scope |-> scope, at |-> now, auto |-> auto] /\ ~overlapped
    BY <2>1, BackfillBegun DEF FailoverInv
  <2>3. auto /\ Due
    BY <2>1, <2>2 DEF BeginsAutomatically
  <2>4. /\ scope \in Scopes /\ now \in Int
        /\ attempts[scope] # None /\ latest[scope] <= attempts[scope]
        /\ attempts[scope] \in Int /\ latest[scope] \in Int
    BY <2>2 DEF FailoverInv, TypeOK, TableIsCurrent, Time
  <2>5. attempts[scope] + Interval <= now
    BY <2>3, <2>4, FailoverAssumption, WorkersAssumption DEF Due, Delay
  <2>. QED
    BY <2>4, <2>5, FailoverAssumption, WorkersAssumption
<1>2. Spec => [][InTime]_vars
  BY <1>1, FailoverInvariant, PTL DEF Spec
<1>. QED
  BY <1>2 DEF DueTimeKept

-----------------------------------------------------------------------------
(* Twitter6551Inbox: the inductive invariant.                              *)

Stored(r) == row[r] # "absent"

(* A handler that is past its first write has its row, and one that is to  *)
(* mark it has stored the tweet. A replay's handlers begin behind it.      *)
HandlersWroteFirst ==
    \A h \in handlers :
        /\ h.step # "persist" => Stored(h.row)
        /\ h.step = "mark" => h.row \in home
        /\ h.step = "persist" => h.by = None

(* What a replay remembers of the table stays in the table.                *)
ReplaysReadRows ==
    \A w \in Workers :
        /\ \A r \in page[w] \cup owed[w] : Stored(r)
        /\ cursor[w] # None => Stored(cursor[w])

Ahead(w, r) ==
    \/ r \in page[w]
    \/ Behind(r, cursor[w]) /\ \A p \in page[w] : Before(p, r)
    \/ \E h \in handlers : h.by = w /\ h.row = r

(* What a replay without a failing write still owes is in its page, behind *)
(* the cursor and the page, or in the hands of its handler.                *)
OwedAhead(w) ==
    worker[w] = "replaying" /\ ~troubled[w] =>
        \A r \in owed[w] : r \notin Malformed /\ row[r] = "pending" => Ahead(w, r)

OwedIsAhead == \A w \in Workers : OwedAhead(w)

InboxInv ==
    InboxTypeOK /\ InboxKept /\ HandlersWroteFirst /\ ReplaysReadRows /\ OwedIsAhead

-----------------------------------------------------------------------------
(* What the steps of a handler do.                                         *)

(* Only a well-formed row of a watched account is ingested; an unwatched   *)
(* one is ignored; a malformed one is left where it is.                    *)
LEMMA RouteGoesOn ==
    ASSUME NEW h \in Handlers
    PROVE  /\ Route(h) \subseteq Handlers
           /\ \A g \in Route(h) :
                 g.row = h.row /\ g.by = h.by /\ g.step \in {"ingest", "ignore"}
           /\ h.row \notin Malformed => \E g \in Route(h) : TRUE
BY DEF Route, Handlers

(* A handler of an event is one, whoever runs it. *)
LEMMA HandlingTyped ==
    ASSUME InboxTypeOK, NEW w \in Workers, NEW r \in Events
    PROVE  /\ Handling(w, r) \in Handlers
           /\ [Handling(w, r) EXCEPT !.by = w] \in Handlers
           /\ [Handling(w, r) EXCEPT !.by = w].row = r
           /\ [Handling(w, r) EXCEPT !.by = w].by = w
           /\ Handling(w, r).step = "persist" /\ Handling(w, r).by = None
<1>1. Allowed(w, r) \in BOOLEAN
  BY DEF Allowed
<1>. QED
  BY <1>1 DEF Handling, Handlers, InboxTypeOK

(* A stored row stays, with its time; it is never pending again.           *)
TableKept ==
    \A r \in Events : Stored(r) =>
        /\ Stored(r)' /\ received'[r] = received[r]
        /\ row'[r] = "pending" => row[r] = "pending"

(* A table that does not change keeps its rows. *)
LEMMA TableUnchanged == UNCHANGED table => TableKept
BY DEF table, TableKept, Stored

(* Storing an event keeps the rows that are there. *)
LEMMA PersistKeepsTable ==
    ASSUME InboxTypeOK, NEW h \in handlers, Persist(h) PROVE TableKept
<1>1. h.row \in Events
  BY DEF InboxTypeOK, Handlers
<1>2. CASE row[h.row] = "absent"
  BY <1>1, <1>2 DEF InboxTypeOK, Persist, TableKept, Stored
<1>3. CASE row[h.row] # "absent"
  BY <1>3, TableUnchanged DEF Persist
<1>. QED
  BY <1>2, <1>3

(* A handler that marks its row keeps the others. *)
LEMMA MarkKeepsTable ==
    ASSUME InboxTypeOK, NEW h \in handlers, Mark(h) PROVE TableKept
<1>1. h.row \in Events
  BY DEF InboxTypeOK, Handlers
<1>. QED
  BY <1>1 DEF InboxTypeOK, Mark, TableKept, Stored

(* The order of stored rows never changes, so what was ahead of a replay   *)
(* that has not moved is ahead of it still.                                *)
LEMMA AheadKept ==
    ASSUME InboxInv, TableKept, NEW w \in Workers, NEW r \in owed[w],
           page'[w] = page[w], cursor'[w] = cursor[w], Ahead(w, r),
           \A h \in handlers : h.by = w /\ h.row = r =>
               \E g \in handlers' : g.by = w /\ g.row = r
    PROVE  Ahead(w, r)'
<1>1. /\ r \in Events /\ Stored(r) /\ page[w] \subseteq Events
      /\ \A p \in page[w] : Stored(p)
      /\ cursor[w] # None => cursor[w] \in Events /\ Stored(cursor[w])
  BY DEF InboxInv, InboxTypeOK, ReplaysReadRows
<1>2. \A p \in page[w] : Before(p, r) => Before(p, r)'
  BY <1>1 DEF TableKept, Before
<1>3. Behind(r, cursor[w]) => Behind(r, cursor[w])'
  BY <1>1 DEF TableKept, Before, Behind
<1>. QED
  BY <1>2, <1>3 DEF Ahead

(* A replay that has not moved keeps what it owes, if its handlers only    *)
(* leave what they have worked off, or a failing write is noted.           *)
LEMMA OwedKept ==
    ASSUME InboxInv, TableKept, NEW w \in Workers,
           worker'[w] = worker[w], page'[w] = page[w], cursor'[w] = cursor[w],
           owed'[w] = owed[w], troubled[w] => troubled'[w],
           ~troubled'[w] =>
               \A h \in handlers : h.by = w /\ row'[h.row] = "pending" =>
                   \E g \in handlers' : g.by = w /\ g.row = h.row
    PROVE  OwedAhead(w)'
<1> SUFFICES ASSUME worker'[w] = "replaying", ~troubled'[w], NEW r \in owed[w],
                    r \notin Malformed, row'[r] = "pending"
    PROVE  Ahead(w, r)'
  BY DEF OwedAhead
<1>1. r \in Events /\ Stored(r)
  BY DEF InboxInv, InboxTypeOK, ReplaysReadRows
<1>2. row[r] = "pending" /\ Ahead(w, r)
  BY <1>1 DEF InboxInv, OwedIsAhead, OwedAhead, TableKept
<1>. QED
  BY <1>2, AheadKept

(* What the replays read stays stored when the table is kept.              *)
LEMMA ReplaysKept ==
    ASSUME InboxInv, TableKept, UNCHANGED replay
    PROVE  ReplaysReadRows'
BY DEF InboxInv, InboxTypeOK, ReplaysReadRows, TableKept, replay

-----------------------------------------------------------------------------
(* Each action of the inbox preserves the invariant.                       *)

LEMMA InboxInitHolds == InboxInit => InboxInv
<1> SUFFICES ASSUME InboxInit PROVE InboxInv
  OBVIOUS
<1>1. InboxTypeOK
  <2>1. 0 \in Time /\ 0 \in 0 .. MaxFailures /\ 0 \in 0 .. MaxCrashes
    BY WorkersAssumption, InboxAssumption DEF Time
  <2>. QED
    BY <2>1 DEF InboxInit, InboxTypeOK
<1>2. InboxKept /\ HandlersWroteFirst /\ ReplaysReadRows /\ OwedIsAhead
  BY DEF InboxInit, InboxKept, WrittenFirst, ProcessedIsStored, HandlersWroteFirst,
         ReplaysReadRows, OwedIsAhead, OwedAhead
<1>. QED
  BY <1>1, <1>2 DEF InboxInv

(* Time passes. *)
LEMMA TimeKeepsInbox == ASSUME InboxInv, TimePasses PROVE InboxInv'
<1>1. InboxTypeOK'
  BY WorkersAssumption DEF InboxInv, InboxTypeOK, TimePasses, Time, table, replay
<1>2. UNCHANGED <<table, home, handlers, replay>>
  BY DEF TimePasses
<1>3. (InboxKept /\ HandlersWroteFirst)'
  BY <1>2
     DEF InboxInv, InboxKept, WrittenFirst, ProcessedIsStored, HandlersWroteFirst, Stored, table
<1>4. TableKept
  BY <1>2, TableUnchanged
<1>5. ReplaysReadRows'
  BY <1>2, <1>4, ReplaysKept
<1>6. OwedIsAhead'
  BY <1>2, <1>4, OwedKept DEF OwedIsAhead, replay
<1>. QED
  BY <1>1, <1>3, <1>5, <1>6 DEF InboxInv

(* The process ends; the rows stay. *)
LEMMA CrashKeepsInbox == ASSUME InboxInv, Crash PROVE InboxInv'
<1>1. InboxTypeOK'
  BY InboxAssumption DEF InboxInv, InboxTypeOK, Crash, table
<1>2. (InboxKept /\ HandlersWroteFirst)'
  BY DEF InboxInv, InboxKept, WrittenFirst, ProcessedIsStored, HandlersWroteFirst, Crash, table
<1>3. (ReplaysReadRows /\ OwedIsAhead)'
  BY DEF ReplaysReadRows, OwedIsAhead, OwedAhead, Crash
<1>. QED
  BY <1>1, <1>2, <1>3 DEF InboxInv

(* An event arrives. *)
LEMMA DeliverKeepsInbox == ASSUME InboxInv, NEW e \in Events, Deliver(e) PROVE InboxInv'
<1>1. PICK w \in Workers : handlers' = handlers \cup {Handling(w, e)}
  BY DEF Deliver
<1>2. /\ UNCHANGED <<bounds, table, home, replay>>
      /\ Handling(w, e) \in Handlers
      /\ Handling(w, e).step = "persist" /\ Handling(w, e).by = None
  BY HandlingTyped DEF Deliver, InboxInv
<1>3. InboxTypeOK'
  BY <1>1, <1>2 DEF InboxInv, InboxTypeOK, bounds, table, replay
<1>4. (InboxKept /\ HandlersWroteFirst)'
  BY <1>1, <1>2
     DEF InboxInv, InboxKept, WrittenFirst, ProcessedIsStored, HandlersWroteFirst, Stored, table
<1>5. TableKept
  BY <1>2, TableUnchanged
<1>6. OwedIsAhead'
  BY <1>1, <1>2, <1>5, OwedKept DEF OwedIsAhead, replay
<1>. QED
  BY <1>2, <1>3, <1>4, <1>5, <1>6, ReplaysKept DEF InboxInv

(* A handler stores its event. *)
LEMMA PersistKeepsInbox ==
    ASSUME InboxInv, NEW h \in handlers, Persist(h) PROVE InboxInv'
<1>1. h \in Handlers /\ h.row \in Events /\ h.at \in Time /\ h.by = None
  BY DEF InboxInv, InboxTypeOK, Handlers, HandlersWroteFirst, Persist
<1>2. TableKept
  BY PersistKeepsTable DEF InboxInv
<1>3. /\ handlers' \subseteq (handlers \ {h}) \cup Route(h) /\ handlers \ {h} \subseteq handlers'
      /\ UNCHANGED <<bounds, home, replay>>
      /\ (\E g \in handlers' : g \notin handlers \ {h}) => Stored(h.row)'
  BY <1>1 DEF Persist, InboxInv, InboxTypeOK, Stored
<1>4. /\ Route(h) \subseteq Handlers
      /\ \A g \in Route(h) : g.row = h.row /\ g.by = h.by /\ g.step \in {"ingest", "ignore"}
  BY <1>1, RouteGoesOn
<1>5. InboxTypeOK'
  <2>1. /\ row' \in [Events -> {"absent", "pending", "processed", "ignored"}]
        /\ received' \in [Events -> Time]
    BY <1>1 DEF Persist, InboxInv, InboxTypeOK, table
  <2>. QED
    BY <1>3, <1>4, <2>1 DEF InboxInv, InboxTypeOK, bounds, replay
<1>6. InboxKept'
  <2>1. WrittenFirst'
    BY <1>2, <1>3 DEF InboxInv, InboxTypeOK, InboxKept, WrittenFirst, TableKept, Stored
  <2>2. ProcessedIsStored'
    BY <1>3 DEF InboxInv, InboxTypeOK, InboxKept, ProcessedIsStored, Persist, table
  <2>. QED
    BY <2>1, <2>2 DEF InboxKept
<1>7. HandlersWroteFirst'
  <2> SUFFICES ASSUME NEW g \in handlers'
      PROVE  /\ g.step # "persist" => Stored(g.row)'
             /\ g.step = "mark" => g.row \in home'
             /\ g.step = "persist" => g.by = None
    BY DEF HandlersWroteFirst
  <2>1. CASE g \in handlers \ {h}
    <3>1. g.row \in Events
      BY <2>1 DEF InboxInv, InboxTypeOK, Handlers
    <3>. QED
      BY <2>1, <3>1, <1>2, <1>3 DEF InboxInv, HandlersWroteFirst, TableKept
  <2>2. CASE g \notin handlers \ {h}
    <3>1. g \in Route(h) /\ Stored(h.row)'
      BY <2>2, <1>3
    <3>. QED
      BY <3>1, <1>4
  <2>. QED
    BY <2>1, <2>2
<1>8. OwedIsAhead'
  <2> SUFFICES ASSUME NEW w \in Workers PROVE OwedAhead(w)'
    BY DEF OwedIsAhead
  <2>1. \A g \in handlers : g.by = w => g \in handlers'
    BY <1>1, <1>3, WorkersAssumption
  <2>. QED
    BY <2>1, <1>2, <1>3, OwedKept DEF replay
<1>. QED
  BY <1>2, <1>3, <1>5, <1>6, <1>7, <1>8, ReplaysKept DEF InboxInv

(* A handler passes its event on to the home timeline. *)
LEMMA IngestKeepsInbox ==
    ASSUME InboxInv, NEW h \in handlers, Ingest(h) PROVE InboxInv'
<1> DEFINE marking == [h EXCEPT !.step = "mark"]
<1>1. /\ h \in Handlers /\ h.row \in Events /\ Stored(h.row)
      /\ marking \in Handlers /\ marking.row = h.row /\ marking.by = h.by
      /\ marking.step = "mark"
  BY DEF InboxInv, InboxTypeOK, Handlers, HandlersWroteFirst, Ingest
<1>2. /\ handlers' = (handlers \ {h}) \cup {marking} /\ home' = home \cup {h.row}
      /\ UNCHANGED <<bounds, table, replay>>
  BY DEF Ingest
<1>. HIDE DEF marking
<1>3. TableKept
  BY <1>2, TableUnchanged
<1>4. InboxTypeOK'
  BY <1>1, <1>2 DEF InboxInv, InboxTypeOK, bounds, table, replay
<1>5. (InboxKept /\ HandlersWroteFirst)'
  BY <1>1, <1>2
     DEF InboxInv, InboxKept, WrittenFirst, ProcessedIsStored, HandlersWroteFirst, Stored, table
<1>6. OwedIsAhead'
  BY <1>1, <1>2, <1>3, OwedKept DEF OwedIsAhead, replay
<1>. QED
  BY <1>2, <1>3, <1>4, <1>5, <1>6, ReplaysKept DEF InboxInv

(* A handler marks its row. *)
LEMMA MarkKeepsInbox ==
    ASSUME InboxInv, NEW h \in handlers, Mark(h) PROVE InboxInv'
<1>1. /\ h \in Handlers /\ h.row \in Events /\ Stored(h.row)
      /\ h.step = "mark" => h.row \in home
  BY DEF InboxInv, InboxTypeOK, Handlers, HandlersWroteFirst, Mark
<1>2. /\ row' = [row EXCEPT ![h.row] = IF h.step = "mark" THEN "processed" ELSE "ignored"]
      /\ handlers' = handlers \ {h} /\ UNCHANGED <<bounds, received, home, replay>>
  BY DEF Mark
<1>3. TableKept
  BY MarkKeepsTable DEF InboxInv
<1>4. InboxTypeOK'
  BY <1>1, <1>2 DEF InboxInv, InboxTypeOK, bounds, replay
<1>5. (InboxKept /\ HandlersWroteFirst)'
  BY <1>1, <1>2
     DEF InboxInv, InboxTypeOK, Handlers, InboxKept, WrittenFirst, ProcessedIsStored,
         HandlersWroteFirst, Stored
<1>6. OwedIsAhead'
  <2>1. row'[h.row] # "pending"
    BY <1>1, <1>2 DEF InboxInv, InboxTypeOK
  <2>. QED
    BY <2>1, <1>2, <1>3, OwedKept DEF OwedIsAhead, replay
<1>. QED
  BY <1>2, <1>3, <1>4, <1>5, <1>6, ReplaysKept DEF InboxInv

(* A handler's write fails. *)
LEMMA WriteFailsKeepsInbox ==
    ASSUME InboxInv, NEW h \in handlers, WriteFails(h) PROVE InboxInv'
<1>1. /\ h \in Handlers /\ h.by \in Workers \cup {None} /\ None \notin Workers
      /\ handlers' = handlers \ {h} /\ failures' \in 0 .. MaxFailures
      /\ UNCHANGED <<now, crashes, table, home>>
  BY WorkersAssumption DEF InboxInv, InboxTypeOK, Handlers, WriteFails
<1>2. TableKept
  BY <1>1, TableUnchanged
<1>3. (InboxKept /\ HandlersWroteFirst)'
  BY <1>1
     DEF InboxInv, InboxKept, WrittenFirst, ProcessedIsStored, HandlersWroteFirst, Stored, table
<1>4. CASE h.by = None /\ UNCHANGED replay
  <2>1. InboxTypeOK'
    BY <1>1, <1>4 DEF InboxInv, InboxTypeOK, table, replay
  <2>2. OwedIsAhead'
    BY <1>1, <1>2, <1>4, OwedKept DEF OwedIsAhead, replay
  <2>. QED
    BY <2>1, <2>2, <1>2, <1>3, <1>4, ReplaysKept DEF InboxInv
<1>5. CASE /\ h.by \in Workers /\ troubled' = [troubled EXCEPT ![h.by] = TRUE]
           /\ UNCHANGED <<worker, page, watch, cursor, owed>>
  <2>1. InboxTypeOK'
    BY <1>1, <1>5 DEF InboxInv, InboxTypeOK, table
  <2>2. OwedIsAhead'
    <3>1. /\ troubled'[h.by]
          /\ \A w \in Workers \ {h.by} : troubled'[w] = troubled[w]
      BY <1>5 DEF InboxInv, InboxTypeOK
    <3>. QED
      BY <3>1, <1>1, <1>2, <1>5, OwedKept DEF OwedIsAhead
  <2>3. ReplaysReadRows'
    BY <1>2, <1>5 DEF InboxInv, InboxTypeOK, ReplaysReadRows, TableKept
  <2>. QED
    BY <2>1, <2>2, <2>3, <1>3 DEF InboxInv
<1>6. CASE h.by \in Workers /\ Forget(h.by, "off")
  <2>1. InboxTypeOK'
    BY <1>1, <1>6 DEF InboxInv, InboxTypeOK, table, Forget
  <2>2. OwedIsAhead'
    <3> SUFFICES ASSUME NEW w \in Workers PROVE OwedAhead(w)'
      BY DEF OwedIsAhead
    <3>1. CASE w = h.by
      BY <3>1, <1>6 DEF InboxInv, InboxTypeOK, Forget, OwedAhead
    <3>2. CASE w # h.by
      <4>1. /\ worker'[w] = worker[w] /\ page'[w] = page[w] /\ cursor'[w] = cursor[w]
            /\ owed'[w] = owed[w] /\ troubled'[w] = troubled[w]
        BY <3>2, <1>6 DEF InboxInv, InboxTypeOK, Forget
      <4>. QED
        BY <4>1, <3>2, <1>1, <1>2, OwedKept
    <3>. QED
      BY <3>1, <3>2
  <2>3. ReplaysReadRows'
    BY <1>2, <1>6 DEF InboxInv, InboxTypeOK, ReplaysReadRows, TableKept, Forget
  <2>. QED
    BY <2>1, <2>2, <2>3, <1>3 DEF InboxInv
<1>. QED
  BY <1>1, <1>4, <1>5, <1>6 DEF WriteFails

(* A step of worker w leaves what the others owe alone.                    *)
LEMMA OthersOwe ==
    ASSUME InboxInv, TableKept, handlers \subseteq handlers', NEW w \in Workers,
           NEW v \in Workers \ {w},
           worker'[v] = worker[v], page'[v] = page[v], cursor'[v] = cursor[v],
           owed'[v] = owed[v], troubled'[v] = troubled[v]
    PROVE  OwedAhead(v)'
BY OwedKept

(* A worker starts, and with it a replay. *)
LEMMA StartKeepsInbox ==
    ASSUME InboxInv, NEW w \in Workers, StartWorker(w) PROVE InboxInv'
<1>1. /\ UNCHANGED <<bounds, table, home, handlers, page>> /\ page[w] = {}
      /\ worker' = [worker EXCEPT ![w] = "replaying"]
      /\ cursor' = [cursor EXCEPT ![w] = None]
      /\ owed' = [owed EXCEPT ![w] = Pending] /\ Pending \subseteq Events
      /\ \A r \in Pending : Stored(r)
      /\ troubled' = [troubled EXCEPT ![w] = FALSE]
  BY DEF InboxInv, InboxTypeOK, StartWorker, Pending, Stored
<1>2. TableKept
  BY <1>1, TableUnchanged
<1>3. InboxTypeOK'
  BY <1>1 DEF InboxInv, InboxTypeOK, bounds, table
<1>4. (InboxKept /\ HandlersWroteFirst)'
  BY <1>1
     DEF InboxInv, InboxKept, WrittenFirst, ProcessedIsStored, HandlersWroteFirst, Stored, table
<1>5. ReplaysReadRows'
  BY <1>1, <1>2 DEF InboxInv, InboxTypeOK, ReplaysReadRows, TableKept
<1>6. OwedIsAhead'
  <2> SUFFICES ASSUME NEW v \in Workers PROVE OwedAhead(v)'
    BY DEF OwedIsAhead
  <2>1. CASE v = w
    BY <2>1, <1>1 DEF InboxInv, InboxTypeOK, OwedAhead, Ahead, Behind
  <2>2. CASE v # w
    BY <2>2, <1>1, <1>2, OthersOwe DEF InboxInv, InboxTypeOK
  <2>. QED
    BY <2>1, <2>2
<1>. QED
  BY <1>3, <1>4, <1>5, <1>6 DEF InboxInv

(* What a page leaves out comes after all that is in it.                   *)
LEMMA PageIsFirst ==
    ASSUME InboxTypeOK, NEW S \in SUBSET Events, NEW p \in FirstPage(S),
           NEW r \in S \ FirstPage(S)
    PROVE  Before(p, r)
<1> DEFINE upTo(x) == {s \in S : Before(s, x)}
<1>1. \A x \in S : received[x] \in Int /\ x \in Int
  BY InboxAssumption DEF InboxTypeOK, Time
<1>2. IsFiniteSet(S)
  BY InboxAssumption, FS_Subset
<1>3. \A x \in S : Cardinality(upTo(x)) \in Nat /\ IsFiniteSet(upTo(x))
  BY <1>2, FS_Subset, FS_CardinalityType
<1>4. /\ p \in S /\ p # r /\ Cardinality(upTo(p)) < PageSize
      /\ ~(Cardinality(upTo(r)) < PageSize)
  BY DEF FirstPage
<1>5. ASSUME ~Before(p, r) PROVE FALSE
  <2>1. Before(r, p)
    BY <1>1, <1>4, <1>5 DEF Before
  <2>2. upTo(r) \subseteq upTo(p)
    BY <1>1, <1>4, <2>1 DEF Before
  <2>3. Cardinality(upTo(r)) <= Cardinality(upTo(p))
    BY <1>3, <1>4, <2>2, FS_Subset
  <2>. QED
    BY <1>3, <1>4, <2>3, InboxAssumption
<1>. QED
  BY <1>5

(* A replay reads its next page. *)
LEMMA ReadPageKeepsInbox ==
    ASSUME InboxInv, NEW w \in Workers, ReadPage(w) PROVE InboxInv'
<1>1. /\ UNCHANGED <<bounds, table, home, handlers>> /\ page[w] = {} /\ Quiet(w)
      /\ Unread(w) \subseteq Pending /\ Pending \subseteq Events
      /\ worker[w] \in {"replaying", "abandoned"}
  BY DEF ReadPage, Unread, Pending
<1>2. TableKept
  BY <1>1, TableUnchanged
<1>3. (InboxKept /\ HandlersWroteFirst)'
  BY <1>1
     DEF InboxInv, InboxKept, WrittenFirst, ProcessedIsStored, HandlersWroteFirst, Stored, table
<1>4. CASE /\ page' = [page EXCEPT ![w] = FirstPage(Unread(w))]
           /\ UNCHANGED <<worker, watch, cursor, owed, troubled>>
  <2>1. FirstPage(Unread(w)) \subseteq Pending
    BY <1>1 DEF FirstPage
  <2>2. InboxTypeOK'
    BY <1>1, <1>4, <2>1 DEF InboxInv, InboxTypeOK, bounds, table
  <2>3. ReplaysReadRows'
    BY <1>1, <1>2, <1>4, <2>1
       DEF InboxInv, InboxTypeOK, ReplaysReadRows, TableKept, Pending, Stored
  <2>4. ASSUME NEW r \in owed[w], worker[w] = "replaying", ~troubled[w],
               r \notin Malformed, row[r] = "pending"
        PROVE  Ahead(w, r)'
    <3>1. r \in Events /\ Behind(r, cursor[w])
      BY <2>4, <1>1
         DEF InboxInv, InboxTypeOK, OwedIsAhead, OwedAhead, Ahead, Quiet
    <3>2. r \in Unread(w)
      BY <3>1, <2>4 DEF Unread, Pending
    <3>3. page'[w] = FirstPage(Unread(w))
      BY <1>4 DEF InboxInv, InboxTypeOK
    <3>4. CASE r \in FirstPage(Unread(w))
      BY <3>3, <3>4 DEF Ahead
    <3>5. CASE r \notin FirstPage(Unread(w))
      <4>1. \A p \in FirstPage(Unread(w)) : Before(p, r)
        BY <3>2, <3>5, <1>1, PageIsFirst DEF InboxInv
      <4>2. /\ received' = received /\ cursor' = cursor
        BY <1>1, <1>4 DEF table
      <4>. QED
        BY <3>1, <3>3, <4>1, <4>2 DEF Ahead, Behind, Before
    <3>. QED
      BY <3>4, <3>5
  <2>5. OwedIsAhead'
    <3> SUFFICES ASSUME NEW v \in Workers PROVE OwedAhead(v)'
      BY DEF OwedIsAhead
    <3>1. CASE v = w
      BY <3>1, <2>4, <1>1, <1>4 DEF OwedAhead, table
    <3>2. CASE v # w
      BY <3>2, <1>1, <1>2, <1>4, OthersOwe DEF InboxInv, InboxTypeOK
    <3>. QED
      BY <3>1, <3>2
  <2>. QED
    BY <2>2, <2>3, <2>5, <1>3 DEF InboxInv
<1>5. ASSUME NEW state \in {"connected", "off"}, Forget(w, state) PROVE InboxInv'
  <2>1. InboxTypeOK'
    BY <1>1, <1>5 DEF InboxInv, InboxTypeOK, Forget, bounds, table
  <2>2. ReplaysReadRows'
    BY <1>2, <1>5 DEF InboxInv, InboxTypeOK, ReplaysReadRows, TableKept, Forget
  <2>3. OwedIsAhead'
    <3> SUFFICES ASSUME NEW v \in Workers PROVE OwedAhead(v)'
      BY DEF OwedIsAhead
    <3>1. CASE v = w
      BY <3>1, <1>5 DEF InboxInv, InboxTypeOK, Forget, OwedAhead
    <3>2. CASE v # w
      <4>1. /\ worker'[v] = worker[v] /\ page'[v] = page[v] /\ cursor'[v] = cursor[v]
            /\ owed'[v] = owed[v] /\ troubled'[v] = troubled[v]
        BY <3>2, <1>5 DEF InboxInv, InboxTypeOK, Forget
      <4>. QED
        BY <4>1, <3>2, <1>1, <1>2, OthersOwe
    <3>. QED
      BY <3>1, <3>2
  <2>. QED
    BY <2>1, <2>2, <2>3, <1>3 DEF InboxInv
<1>. QED
  BY <1>1, <1>4, <1>5 DEF ReadPage

(* A replay takes the next row of its page. *)
LEMMA ReplayNextKeepsInbox ==
    ASSUME InboxInv, NEW w \in Workers, ReplayNext(w) PROVE InboxInv'
<1> DEFINE handling(r) == [Handling(w, r) EXCEPT !.by = w]
<1>1. PICK n \in Heads(w) :
        /\ cursor' = [cursor EXCEPT ![w] = n]
        /\ handlers' = handlers \cup Route(handling(n))
        /\ page' = [page EXCEPT ![w] = @ \ {n}]
  BY DEF ReplayNext
<1>2. /\ n \in Events /\ n \in page[w] /\ Stored(n)
      /\ \A p \in page[w] \ {n} : Before(n, p)
      /\ UNCHANGED <<bounds, table, home, worker, watch, owed, troubled>>
  BY DEF InboxInv, InboxTypeOK, ReplaysReadRows, ReplayNext, Heads
<1>3. handling(n) \in Handlers /\ handling(n).row = n /\ handling(n).by = w
  BY <1>2, HandlingTyped DEF InboxInv
<1>. HIDE DEF handling
<1>4. /\ Route(handling(n)) \subseteq Handlers
      /\ \A g \in Route(handling(n)) :
            g.row = n /\ g.by = w /\ g.step \in {"ingest", "ignore"}
      /\ n \notin Malformed => \E g \in Route(handling(n)) : TRUE
  BY <1>3, RouteGoesOn
<1>5. TableKept
  BY <1>2, TableUnchanged
<1>6. InboxTypeOK'
  <2>1. worker[w] \notin {"off", "connected"}
    BY <1>2 DEF InboxInv, InboxTypeOK
  <2>. QED
    BY <2>1, <1>1, <1>2, <1>4 DEF InboxInv, InboxTypeOK, bounds, table
<1>7. InboxKept'
  BY <1>2 DEF InboxInv, InboxKept, WrittenFirst, ProcessedIsStored, table
<1>8. HandlersWroteFirst'
  BY <1>1, <1>2, <1>4 DEF InboxInv, HandlersWroteFirst, Stored, table
<1>9. ReplaysReadRows'
  BY <1>1, <1>2, <1>5 DEF InboxInv, InboxTypeOK, ReplaysReadRows, TableKept
<1>10. ASSUME NEW r \in owed[w], worker[w] = "replaying", ~troubled[w],
              r \notin Malformed, row[r] = "pending"
       PROVE  Ahead(w, r)'
  <2>1. /\ page'[w] = page[w] \ {n} /\ cursor'[w] = n /\ received' = received
    BY <1>1, <1>2 DEF InboxInv, InboxTypeOK, table
  <2>2. Ahead(w, r)
    BY <1>10 DEF InboxInv, OwedIsAhead, OwedAhead
  <2>3. CASE r = n
    BY <2>3, <1>1, <1>4, <1>10 DEF Ahead
  <2>4. CASE r \in page[w] \ {n}
    BY <2>1, <2>4 DEF Ahead
  <2>5. CASE Behind(r, cursor[w]) /\ \A p \in page[w] : Before(p, r)
    BY <2>1, <2>5, <1>2 DEF Ahead, Behind, Before
  <2>6. CASE \E h \in handlers : h.by = w /\ h.row = r
    BY <2>6, <1>1 DEF Ahead
  <2>. QED
    BY <2>2, <2>3, <2>4, <2>5, <2>6 DEF Ahead
<1>11. OwedIsAhead'
  <2> SUFFICES ASSUME NEW v \in Workers PROVE OwedAhead(v)'
    BY DEF OwedIsAhead
  <2>1. CASE v = w
    BY <2>1, <1>10, <1>2 DEF OwedAhead, table
  <2>2. CASE v # w
    BY <2>2, <1>1, <1>2, <1>5, OthersOwe DEF InboxInv, InboxTypeOK
  <2>. QED
    BY <2>1, <2>2
<1>. QED
  BY <1>6, <1>7, <1>8, <1>9, <1>11 DEF InboxInv

(* A worker stops. *)
LEMMA StopKeepsInbox ==
    ASSUME InboxInv, NEW w \in Workers, StopWorker(w) PROVE InboxInv'
<1>1. /\ UNCHANGED <<bounds, table, home, handlers>>
      /\ worker' \in [Workers -> {"off", "replaying", "abandoned", "connected"}]
      /\ worker'[w] \in {"abandoned", "off"}
      /\ page' \in [Workers -> SUBSET Events] /\ page'[w] \subseteq page[w]
      /\ cursor' \in [Workers -> Events \cup {None}] /\ cursor'[w] \in {cursor[w], None}
      /\ worker'[w] = "off" => page'[w] = {} /\ cursor'[w] = None
      /\ owed' \in [Workers -> SUBSET Events] /\ owed'[w] = {}
      /\ troubled' \in [Workers -> BOOLEAN]
      /\ \A v \in Workers \ {w} :
            /\ worker'[v] = worker[v] /\ page'[v] = page[v] /\ cursor'[v] = cursor[v]
            /\ owed'[v] = owed[v] /\ troubled'[v] = troubled[v]
  BY DEF StopWorker, Forget, InboxInv, InboxTypeOK
<1>2. TableKept
  BY <1>1, TableUnchanged
<1>3. InboxTypeOK'
  BY <1>1 DEF InboxInv, InboxTypeOK, bounds, table
<1>4. (InboxKept /\ HandlersWroteFirst)'
  BY <1>1
     DEF InboxInv, InboxKept, WrittenFirst, ProcessedIsStored, HandlersWroteFirst, Stored, table
<1>5. ReplaysReadRows'
  BY <1>1, <1>2 DEF InboxInv, InboxTypeOK, ReplaysReadRows, TableKept
<1>6. OwedIsAhead'
  BY <1>1, <1>2, OthersOwe DEF OwedIsAhead, OwedAhead
<1>. QED
  BY <1>3, <1>4, <1>5, <1>6 DEF InboxInv

-----------------------------------------------------------------------------
(* What the inbox guarantees.                                              *)

LEMMA InboxStep == InboxInv /\ [InboxNext]_inbox_vars => InboxInv'
<1> SUFFICES ASSUME InboxInv, [InboxNext]_inbox_vars PROVE InboxInv'
  OBVIOUS
<1>1. CASE UNCHANGED inbox_vars
  <2>1. TableKept
    BY <1>1, TableUnchanged DEF inbox_vars
  <2>2. (InboxTypeOK /\ InboxKept /\ HandlersWroteFirst)'
    BY <1>1
       DEF inbox_vars, bounds, table, replay, InboxInv, InboxTypeOK, InboxKept, WrittenFirst,
           ProcessedIsStored, HandlersWroteFirst, Stored
  <2>3. OwedIsAhead'
    BY <1>1, <2>1, OwedKept DEF inbox_vars, replay, OwedIsAhead
  <2>. QED
    BY <1>1, <2>1, <2>2, <2>3, ReplaysKept DEF inbox_vars, InboxInv
<1>2. CASE TimePasses \/ Crash \/ \E e \in Events : Deliver(e)
  BY <1>2, TimeKeepsInbox, CrashKeepsInbox, DeliverKeepsInbox
<1>3. CASE \E h \in handlers : Persist(h) \/ Ingest(h) \/ Mark(h) \/ WriteFails(h)
  BY <1>3, PersistKeepsInbox, IngestKeepsInbox, MarkKeepsInbox, WriteFailsKeepsInbox
<1>4. CASE \E w \in Workers : StartWorker(w) \/ ReadPage(w) \/ ReplayNext(w) \/ StopWorker(w)
  BY <1>4, StartKeepsInbox, ReadPageKeepsInbox, ReplayNextKeepsInbox, StopKeepsInbox
<1>. QED
  BY <1>1, <1>2, <1>3, <1>4 DEF InboxNext

(* The invariant of the inbox holds in every reachable state. *)
LEMMA InboxInvariant == InboxSpec => []InboxInv
BY InboxInitHolds, InboxStep, PTL DEF InboxSpec

(* The inbox' table, its handlers and replays keep their types; a worker   *)
(* that is off or live has no replay left.                                 *)
THEOREM InboxTyped == InboxSpec => []InboxTypeOK
<1>1. InboxInv => InboxTypeOK
  BY DEF InboxInv
<1>. QED
  BY <1>1, InboxInvariant, PTL

(* persistAndProcessEvent writes an event before its tweet and marks it    *)
(* after: over any crashes, failing writes, duplicate deliveries and       *)
(* workers that overlap, nothing is stored that has no row, and no row is  *)
(* processed whose tweet is not stored.                                    *)
THEOREM InboxIsKept == InboxSpec => []InboxKept
<1>1. InboxInv => InboxKept
  BY DEF InboxInv
<1>. QED
  BY <1>1, InboxInvariant, PTL

(* replayPendingEvents misses no row: a replay that ends without a failing *)
(* write has worked off every well-formed row that was pending when it     *)
(* began, whatever the size of its pages, equal arrival times, and events  *)
(* that arrive meanwhile.                                                  *)
THEOREM ReplayIsComplete == InboxSpec => ReplayCovers
<1> DEFINE Covers ==
        \A w \in Workers :
            worker[w] = "replaying" /\ worker'[w] = "connected" /\ ~troubled[w] =>
                \A r \in owed[w] : r \in Malformed \/ row[r] # "pending"
<1>1. InboxInv /\ [InboxNext]_inbox_vars => Covers
  <2> SUFFICES ASSUME InboxInv, [InboxNext]_inbox_vars, NEW w \in Workers,
                      worker[w] = "replaying", worker'[w] = "connected", ~troubled[w],
                      NEW r \in owed[w], r \notin Malformed, row[r] = "pending"
      PROVE  FALSE
    OBVIOUS
  <2>1. ReadPage(w) /\ Unread(w) = {}
    <3>1. worker' # worker
      OBVIOUS
    <3>2. CASE \E h \in handlers : WriteFails(h)
      BY <3>1, <3>2 DEF WriteFails, Forget, replay, InboxInv, InboxTypeOK, Handlers
    <3>3. CASE \E v \in Workers : StartWorker(v) \/ StopWorker(v)
      BY <3>1, <3>3 DEF StartWorker, StopWorker, Forget, InboxInv, InboxTypeOK
    <3>4. CASE \E v \in Workers : ReadPage(v)
      BY <3>1, <3>4 DEF ReadPage, Forget, InboxInv, InboxTypeOK
    <3>. QED
      BY <3>1, <3>2, <3>3, <3>4
         DEF InboxNext, inbox_vars, replay, TimePasses, Crash, Deliver, Persist, Ingest, Mark,
             ReplayNext, InboxInv, InboxTypeOK
  <2>2. r \in Events /\ Ahead(w, r)
    BY DEF InboxInv, InboxTypeOK, OwedIsAhead, OwedAhead
  <2>3. Behind(r, cursor[w])
    BY <2>1, <2>2 DEF ReadPage, Ahead, Quiet
  <2>. QED
    BY <2>1, <2>2, <2>3 DEF Unread, Pending
<1>2. InboxSpec => [][Covers]_inbox_vars
  BY <1>1, InboxInvariant, PTL DEF InboxSpec
<1>. QED
  BY <1>2 DEF ReplayCovers
=============================================================================
