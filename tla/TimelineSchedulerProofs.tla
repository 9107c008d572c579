---------------------- MODULE TimelineSchedulerProofs ----------------------
(***************************************************************************)
(* Proofs about TimelineScheduler for every set of requests and signals,   *)
(* every concurrency and cooldown, and any behaviour of the clock.         *)
(***************************************************************************)
EXTENDS TimelineScheduler, FiniteSetTheorems, WellFoundedInduction, TLAPS

-----------------------------------------------------------------------------
(* The head of a queue.                                                    *)

(* A set of natural numbers that is not empty has a least one. *)
LEMMA LeastNatural ==
    ASSUME NEW T \in SUBSET Nat, T # {}
    PROVE  \E x \in T : \A y \in T : x <= y
<1>. DEFINE R == OpToRel(<, Nat)
<1>1. IsWellFoundedOn(R, Nat)
  BY NatLessThanWellFounded
<1>2. \A x, y \in Nat : y < x => <<y, x>> \in R
  BY DEF OpToRel
<1>. HIDE DEF R
<1>3. \E x \in T : \A y \in T : ~(<<y, x>> \in R)
  BY <1>1, WFMin
<1>4. PICK x \in T : \A y \in T : ~(<<y, x>> \in R)
  BY <1>3
<1>5. ASSUME NEW y \in T PROVE x <= y
  <2>1. x \in Nat /\ y \in Nat /\ ~(y < x)
    BY <1>2, <1>4
  <2>. QED
    BY <2>1
<1>. QED
  BY <1>5

(* With one free slot exactly the head of the queue is shifted. *)
LEMMA HeadShifted ==
    ASSUME NEW Q \in SUBSET Requests, Q # {}, NEW a \in [Requests -> Nat],
           \A e, f \in Q : a[e] = a[f] => e = f
    PROVE  \E h \in Q :
             /\ {e \in Q : Cardinality({f \in Q : a[f] < a[e]}) < 1} = {h}
             /\ \A e \in Q \ {h} : a[h] < a[e]
<1>1. PICK h \in Q : \A e \in Q : a[h] <= a[e]
  <2>. DEFINE T == {a[e] : e \in Q}
  <2>1. T \in SUBSET Nat /\ T # {}
    OBVIOUS
  <2>2. \E x \in T : \A y \in T : x <= y
    BY <2>1, LeastNatural
  <2>. QED
    BY <2>2
<1>2. \A e \in Q \ {h} : a[h] < a[e]
  BY <1>1
<1>3. \A e \in Q : IsFiniteSet({f \in Q : a[f] < a[e]})
  BY RequestsAssumption, FS_Subset
<1>4. {f \in Q : a[f] < a[h]} = {}
  BY <1>1
<1>5. ASSUME NEW e \in Q
      PROVE  Cardinality({f \in Q : a[f] < a[e]}) < 1 <=> e = h
  <2>. DEFINE A == {f \in Q : a[f] < a[e]}
  <2>1. IsFiniteSet(A)
    BY <1>3
  <2>2. Cardinality(A) \in Nat /\ (Cardinality(A) = 0 <=> A = {})
    BY <2>1, FS_CardinalityType, FS_EmptySet
  <2>3. A = {} <=> e = h
    BY <1>2, <1>4
  <2>. HIDE DEF A
  <2>4. Cardinality(A) < 1 <=> e = h
    BY <2>2, <2>3
  <2>. QED
    BY <2>4 DEF A
<1>. QED
  BY <1>2, <1>5

-----------------------------------------------------------------------------
(* The inductive invariant.  The counter and the queue say nothing about   *)
(* where a request is: a request waits, or its task is in flight or ended, *)
(* and only a request that was called is anywhere.  The queue is empty     *)
(* whenever it is closed, and no two requests arrive in the same place.    *)
Places ==
    /\ running \subseteq inFlight \cup ended
    /\ inFlight \cap ended = {}
    /\ waiting \cap (inFlight \cup ended) = {}
    /\ \A e \in Requests : outcome[e] = "uncalled" =>
         e \notin waiting \cup inFlight \cup ended /\ arrival[e] = 0

QueueOpen == waiting # {} => cooldownUntil = 0

Line ==
    /\ \A e \in waiting : arrival[e] > 0
    /\ \A e \in Requests : arrival[e] <= Arrivals
    /\ \A e, f \in Requests : arrival[e] = arrival[f] /\ arrival[e] > 0 => e = f

SInv ==
    /\ TypeOK /\ SlotsCounted /\ NoIdleSlot /\ NothingForgotten
    /\ SignalsHeard /\ AbortReachesTheTask
    /\ Places /\ QueueOpen /\ Line

-----------------------------------------------------------------------------
(* What the steps that drain the queue do to a state of the invariant.     *)

(* Nothing in a queue of live requests is dropped. *)
LEMMA DrainLive ==
    ASSUME NEW Q \in SUBSET Requests, NEW H, NEW c,
           NEW out \in [Requests -> Outcomes],
           NEW lis \in [Requests -> SUBSET Signals],
           \A e \in Q : out[e] = "pending" /\ lis[e] \cap aborted = {},
           Drain(Q, H, c, out, lis),
           NEW D, D = Shifted(Q, Q, Concurrency - c)
    PROVE  /\ waiting' = Q \ D /\ running' = H \cup D
           /\ active' = c + Cardinality(D) /\ inFlight' = inFlight \cup D
           /\ outcome' = out /\ listening' = lis
<1>. DEFINE live == {e \in Q : out[e] = "pending" /\ lis[e] \cap aborted = {}}
            shifted == Shifted(Q, live, Concurrency - c)
            dropped == {e \in shifted \ live : out[e] = "pending"}
<1>1. live = Q
  OBVIOUS
<1>2. shifted = D
  BY <1>1
<1>3. D \subseteq Q
  BY DEF Shifted
<1>4. shifted \cap live = D /\ dropped = {}
  BY <1>1, <1>2, <1>3
<1>5. /\ waiting' = Q \ shifted
      /\ running' = H \cup (shifted \cap live)
      /\ active' = c + Cardinality(shifted \cap live)
      /\ inFlight' = inFlight \cup (shifted \cap live)
      /\ outcome' = [e \in Requests |-> IF e \in dropped THEN "aborted" ELSE out[e]]
      /\ listening' = [e \in Requests |-> IF e \in dropped THEN {} ELSE lis[e]]
  BY DEF Drain
<1>. HIDE DEF live, shifted, dropped
<1>6. outcome' = out /\ listening' = lis
  BY <1>4, <1>5
<1>. QED
  BY <1>2, <1>4, <1>5, <1>6

(* What waits is alive. *)
LEMMA WaitingLive ==
    ASSUME SInv
    PROVE  \A e \in waiting : outcome[e] = "pending" /\ listening[e] \cap aborted = {}
BY DEF SInv, TypeOK, NothingForgotten, SignalsHeard

(* Without a free slot nothing is shifted. *)
LEMMA NothingShifted ==
    ASSUME NEW Q \in SUBSET Requests
    PROVE  Shifted(Q, Q, 0) = {}
<1>1. ASSUME NEW e \in Q
      PROVE  Cardinality({f \in Q : arrival'[f] < arrival'[e]}) \in Nat
  <2>1. IsFiniteSet({f \in Q : arrival'[f] < arrival'[e]})
    BY RequestsAssumption, FS_Subset
  <2>. QED
    BY <2>1, FS_CardinalityType
<1>2. \A e \in Q : ~(Cardinality({f \in Q : arrival'[f] < arrival'[e]}) < 0)
  BY <1>1
<1>. QED
  BY <1>2 DEF Shifted

(* A request that is pushed takes a free slot or waits behind all others. *)
LEMMA QueuedEffect ==
    ASSUME SInv, NEW e \in Requests, NEW S \in SUBSET Signals,
           ScheduleQueued(e, S)
    PROVE  /\ outcome' = [outcome EXCEPT ![e] = "pending"]
           /\ listening' = [listening EXCEPT ![e] = S]
           /\ \/ /\ active = Concurrency
                 /\ waiting' = waiting \cup {e}
                 /\ UNCHANGED slotVars
              \/ /\ active < Concurrency /\ waiting = {} /\ waiting' = {}
                 /\ running' = running \cup {e} /\ active' = active + 1
                 /\ inFlight' = inFlight \cup {e}
<1>. DEFINE Q == waiting \cup {e}
            out == [outcome EXCEPT ![e] = "pending"]
            lis == [listening EXCEPT ![e] = S]
            D == Shifted(Q, Q, Concurrency - active)
<1>1. /\ Q \in SUBSET Requests /\ out \in [Requests -> Outcomes]
      /\ lis \in [Requests -> SUBSET Signals]
  BY DEF SInv, TypeOK, Outcomes
<1>2. \A f \in Q : out[f] = "pending" /\ lis[f] \cap aborted = {}
  BY WaitingLive DEF SInv, TypeOK, ScheduleQueued
<1>3. Drain(Q, running, active, out, lis)
  BY DEF ScheduleQueued
<1>4. /\ waiting' = Q \ D /\ running' = running \cup D
      /\ active' = active + Cardinality(D) /\ inFlight' = inFlight \cup D
      /\ outcome' = out /\ listening' = lis
  <2>. HIDE DEF out, lis, Q
  <2>. QED
    BY <1>1, <1>2, <1>3, DrainLive
<1>5. active \in Nat /\ Concurrency \in Nat /\ active <= Concurrency
      /\ (waiting # {} => active = Concurrency)
  BY ConcurrencyAssumption DEF SInv, TypeOK, SlotsCounted, NoIdleSlot
<1>6. CASE active = Concurrency
  <2>1. D = Shifted(Q, Q, 0)
    BY <1>5, <1>6
  <2>2. D = {}
    BY <1>1, <2>1, NothingShifted
  <2>3. Cardinality(D) = 0
    BY <2>2, FS_EmptySet
  <2>. HIDE DEF Q, out, lis, D
  <2>4. /\ waiting' = Q /\ running' = running /\ inFlight' = inFlight
        /\ active' = active
    BY <1>4, <1>5, <2>2, <2>3
  <2>. QED
    BY <1>4, <1>6, <2>4 DEF Q, out, lis, slotVars
<1>7. CASE active < Concurrency
  <2>1. waiting = {} /\ Q = {e}
    BY <1>5, <1>7
  <2>2. arrival'[e] \in Nat
    <3>1. Arrivals \in Nat
      BY RequestsAssumption, FS_Subset, FS_CardinalityType DEF Arrivals
    <3>. QED
      BY <3>1 DEF ScheduleQueued, SInv, TypeOK
  <2>3. {f \in Q : arrival'[f] < arrival'[e]} = {}
    BY <2>1, <2>2
  <2>4. D = {e}
    BY <1>5, <1>7, <2>1, <2>3, FS_EmptySet DEF Shifted
  <2>5. Cardinality(D) = 1
    BY <2>4, FS_Singleton
  <2>. QED
    BY <1>4, <1>7, <2>1, <2>4, <2>5
<1>. QED
  BY <1>5, <1>6, <1>7

(* A slot given back goes to the head of the queue. *)
LEMMA FreedEffect ==
    ASSUME SInv, NEW e \in Requests, SlotFreed(e)
    PROVE  /\ UNCHANGED callVars
           /\ \/ e \notin running /\ UNCHANGED <<waiting, slotVars>>
              \/ /\ e \in running /\ waiting = {} /\ waiting' = {}
                 /\ running' = running \ {e} /\ active' = active - 1
                 /\ inFlight' = inFlight
              \/ /\ e \in running
                 /\ \E h \in waiting :
                      /\ waiting' = waiting \ {h}
                      /\ running' = (running \ {e}) \cup {h}
                      /\ active' = active /\ inFlight' = inFlight \cup {h}
                      /\ \A f \in waiting \ {h} : arrival[h] < arrival[f]
<1>1. CASE ~HasSlot(e)
  BY <1>1 DEF SlotFreed, HasSlot
<1>2. CASE HasSlot(e)
  <2>. DEFINE D == Shifted(waiting, waiting, Concurrency - (active - 1))
  <2>1. e \in running /\ Drain(waiting, running \ {e}, active - 1, outcome, listening)
        /\ arrival' = arrival
    BY <1>2 DEF SlotFreed, HasSlot
  <2>2. /\ waiting \in SUBSET Requests /\ outcome \in [Requests -> Outcomes]
        /\ listening \in [Requests -> SUBSET Signals]
        /\ arrival \in [Requests -> Nat]
    BY DEF SInv, TypeOK
  <2>3. /\ waiting' = waiting \ D /\ running' = (running \ {e}) \cup D
        /\ active' = (active - 1) + Cardinality(D)
        /\ inFlight' = inFlight \cup D
        /\ outcome' = outcome /\ listening' = listening
    <3>. DEFINE Q == waiting
                H == running \ {e}
                c == active - 1
                out == outcome
                lis == listening
    <3>1. \A f \in Q : out[f] = "pending" /\ lis[f] \cap aborted = {}
      BY WaitingLive
    <3>2. /\ Drain(Q, H, c, out, lis) /\ D = Shifted(Q, Q, Concurrency - c)
          /\ Q \in SUBSET Requests /\ out \in [Requests -> Outcomes]
          /\ lis \in [Requests -> SUBSET Signals]
      BY <2>1, <2>2
    <3>3. /\ waiting' = Q \ D /\ running' = H \cup D
          /\ active' = c + Cardinality(D) /\ inFlight' = inFlight \cup D
          /\ outcome' = out /\ listening' = lis
      <4>. HIDE DEF Q, H, c, out, lis
      <4>. QED
        BY <3>1, <3>2, DrainLive
    <3>. QED
      BY <3>3
  <2>4. active \in Nat /\ Concurrency \in Nat
        /\ (waiting # {} => active = Concurrency)
    BY ConcurrencyAssumption DEF SInv, TypeOK, NoIdleSlot
  <2>5. CASE waiting = {}
    <3>1. D = {}
      BY <2>5 DEF Shifted
    <3>2. Cardinality(D) = 0
      BY <3>1, FS_EmptySet
    <3>. QED
      BY <2>1, <2>3, <2>4, <2>5, <3>1, <3>2 DEF callVars
  <2>6. CASE waiting # {}
    <3>1. Concurrency - (active - 1) = 1
      BY <2>4, <2>6
    <3>2. D = {x \in waiting :
                 Cardinality({f \in waiting : arrival[f] < arrival[x]}) < 1}
      BY <2>1, <3>1 DEF Shifted
    <3>3. \A x, y \in waiting : arrival[x] = arrival[y] => x = y
      BY <2>2 DEF SInv, Line
    <3>. DEFINE F == {x \in waiting :
                       Cardinality({f \in waiting : arrival[f] < arrival[x]}) < 1}
    <3>4. PICK h \in waiting : F = {h} /\ \A f \in waiting \ {h} : arrival[h] < arrival[f]
      <4>1. waiting # {} /\ \A x, y \in waiting : arrival[x] = arrival[y] => x = y
        BY <2>6, <3>3
      <4>. QED
        BY <2>2, <4>1, HeadShifted
    <3>. HIDE DEF D, F
    <3>6. D = F
      BY <3>2 DEF F
    <3>5. D = {h} /\ Cardinality(D) = 1
      BY <3>4, <3>6, FS_Singleton
    <3>. QED
      BY <2>1, <2>3, <2>4, <3>4, <3>5 DEF callVars
  <2>. QED
    BY <2>5, <2>6
<1>. QED
  BY <1>1, <1>2

(* An answer settles what is pending in S and leaves the rest alone. *)
LEMMA AnswerEffect ==
    ASSUME TypeOK, NEW S \in SUBSET Requests, NEW result \in Outcomes,
           Answer(S, result)
    PROVE  /\ outcome' \in [Requests -> Outcomes]
           /\ listening' \in [Requests -> SUBSET Signals]
           /\ \A e \in Requests :
                IF e \in S /\ outcome[e] = "pending"
                THEN outcome'[e] = result /\ listening'[e] = {}
                ELSE outcome'[e] = outcome[e] /\ listening'[e] = listening[e]
BY DEF Answer, Pending, TypeOK

(* The line stands while nobody joins it. *)
LEMMA LineStands ==
    ASSUME Line, arrival' = arrival, waiting' \subseteq waiting
    PROVE  Line'
BY DEF Line, Arrivals

-----------------------------------------------------------------------------
(* Every step keeps the invariant.                                         *)

LEMMA RefusedKeeps ==
    ASSUME SInv, NEW e \in Requests, NEW S \in SUBSET Signals,
           ScheduleAborted(e, S) \/ ScheduleRefused(e, S)
    PROVE  SInv'
<1>. PICK r \in {"aborted", "overloaded"} : Refuse(e, r)
  BY DEF ScheduleAborted, ScheduleRefused
<1>1. /\ outcome[e] = "uncalled" /\ outcome' = [outcome EXCEPT ![e] = r]
      /\ UNCHANGED <<listening, waiting, arrival, slotVars, ended, cancelled,
                     cooldownVars, aborted, now>>
  BY DEF ScheduleAborted, ScheduleRefused, Refuse
<1>2. e \notin waiting \cup inFlight \cup ended
  BY <1>1 DEF SInv, Places
<1>3. listening[e] = {}
  BY <1>1 DEF SInv, SignalsHeard
<1>4. /\ outcome' \in [Requests -> Outcomes] /\ outcome'[e] = r
      /\ \A f \in Requests \ {e} : outcome'[f] = outcome[f]
  BY <1>1 DEF SInv, TypeOK, Outcomes
<1>5. TypeOK'
  BY <1>1, <1>4 DEF SInv, TypeOK, slotVars, cooldownVars
<1>6. SlotsCounted' /\ NoIdleSlot' /\ QueueOpen'
  BY <1>1 DEF SInv, SlotsCounted, NoIdleSlot, QueueOpen, slotVars, cooldownVars
<1>7. NothingForgotten' /\ SignalsHeard' /\ AbortReachesTheTask'
  BY <1>1, <1>2, <1>3, <1>4
     DEF SInv, TypeOK, NothingForgotten, SignalsHeard, AbortReachesTheTask, slotVars
<1>8. Places'
  BY <1>1, <1>4 DEF SInv, Places, slotVars
<1>9. Line'
  BY <1>1, LineStands DEF SInv
<1>. QED
  BY <1>5, <1>6, <1>7, <1>8, <1>9 DEF SInv

(* A new place is behind all others. *)
LEMMA LineGrows ==
    ASSUME TypeOK, Line, NEW e \in Requests, arrival[e] = 0,
           arrival' = [arrival EXCEPT ![e] = Arrivals + 1],
           waiting' \subseteq waiting \cup {e}
    PROVE  Line'
<1>. DEFINE A == {f \in Requests : arrival[f] > 0}
<1>1. IsFiniteSet(A) /\ Arrivals = Cardinality(A) /\ Arrivals \in Nat
  BY RequestsAssumption, FS_Subset, FS_CardinalityType DEF Arrivals
<1>2. /\ arrival'[e] = Arrivals + 1
      /\ \A f \in Requests \ {e} : arrival'[f] = arrival[f]
      /\ \A f \in Requests : arrival[f] \in Nat
  BY DEF TypeOK
<1>3. {f \in Requests : arrival'[f] > 0} = A \cup {e}
  <2>1. arrival'[e] > 0
    BY <1>1, <1>2
  <2>2. \A f \in Requests \ {e} : arrival'[f] > 0 <=> f \in A
    BY <1>2
  <2>. QED
    BY <2>1, <2>2
<1>4. Arrivals' = Arrivals + 1
  <2>1. e \notin A
    OBVIOUS
  <2>2. Arrivals' = Cardinality({f \in Requests : arrival'[f] > 0})
    BY DEF Arrivals
  <2>. HIDE DEF A
  <2>3. Cardinality(A \cup {e}) = Cardinality(A) + 1
    BY <1>1, <2>1, FS_AddElement
  <2>. QED
    BY <1>1, <1>3, <2>2, <2>3
<1>5. \A f \in Requests : arrival[f] <= Arrivals
  BY DEF Line
<1>6. \A f \in waiting' : arrival'[f] > 0
  BY <1>1, <1>2 DEF Line, TypeOK
<1>7. \A f \in Requests : arrival'[f] <= Arrivals'
  BY <1>1, <1>2, <1>4, <1>5
<1>8. \A f, g \in Requests :
        arrival'[f] = arrival'[g] /\ arrival'[f] > 0 => f = g
  BY <1>1, <1>2, <1>5 DEF Line
<1>. QED
  BY <1>6, <1>7, <1>8 DEF Line

(* A request is queued. *)
LEMMA QueuedKeeps ==
    ASSUME SInv, NEW e \in Requests, NEW S \in SUBSET Signals,
           ScheduleQueued(e, S)
    PROVE  SInv'
<1>1. /\ outcome[e] = "uncalled" /\ S \cap aborted = {}
      /\ cooldownUntil' = 0 /\ cooldownError' = Null
      /\ arrival' = [arrival EXCEPT ![e] = Arrivals + 1]
      /\ UNCHANGED <<ended, cancelled, aborted, now>>
  BY DEF ScheduleQueued
<1>2. e \notin waiting \cup inFlight \cup ended \cup running /\ arrival[e] = 0
  BY <1>1 DEF SInv, Places
<1>3. /\ outcome' = [outcome EXCEPT ![e] = "pending"]
      /\ listening' = [listening EXCEPT ![e] = S]
      /\ \/ /\ active = Concurrency
            /\ waiting' = waiting \cup {e}
            /\ UNCHANGED slotVars
         \/ /\ active < Concurrency /\ waiting = {} /\ waiting' = {}
            /\ running' = running \cup {e} /\ active' = active + 1
            /\ inFlight' = inFlight \cup {e}
  BY QueuedEffect
<1>4. /\ outcome' \in [Requests -> Outcomes] /\ outcome'[e] = "pending"
      /\ listening' \in [Requests -> SUBSET Signals] /\ listening'[e] = S
      /\ \A f \in Requests \ {e} : outcome'[f] = outcome[f]
                                  /\ listening'[f] = listening[f]
  BY <1>3 DEF SInv, TypeOK, Outcomes
<1>5. TypeOK'
  <2>1. Arrivals \in Nat
    BY RequestsAssumption, FS_Subset, FS_CardinalityType DEF Arrivals
  <2>2. arrival' \in [Requests -> Nat]
    BY <1>1, <2>1 DEF SInv, TypeOK
  <2>. QED
    BY <1>1, <1>3, <1>4, <2>2 DEF SInv, TypeOK, slotVars
<1>6. SlotsCounted' /\ NoIdleSlot' /\ QueueOpen'
  <2>1. /\ IsFiniteSet(running) /\ active = Cardinality(running)
        /\ active \in Nat /\ Concurrency \in Nat
    BY RequestsAssumption, ConcurrencyAssumption, FS_Subset
       DEF SInv, TypeOK, SlotsCounted
  <2>2. Cardinality(running \cup {e}) = active + 1
    BY <1>2, <2>1, FS_AddElement
  <2>3. SlotsCounted'
    <3>1. CASE UNCHANGED slotVars
      BY <3>1 DEF SInv, SlotsCounted, slotVars
    <3>2. CASE /\ active < Concurrency /\ running' = running \cup {e}
               /\ active' = active + 1
      BY <2>1, <2>2, <3>2 DEF SlotsCounted
    <3>. QED
      BY <1>3, <3>1, <3>2
  <2>4. NoIdleSlot'
    BY <1>3 DEF NoIdleSlot, slotVars
  <2>5. QueueOpen'
    BY <1>1 DEF QueueOpen
  <2>. QED
    BY <2>3, <2>4, <2>5
<1>7. NothingForgotten' /\ SignalsHeard' /\ AbortReachesTheTask'
  BY <1>1, <1>2, <1>3, <1>4
     DEF SInv, TypeOK, NothingForgotten, SignalsHeard, AbortReachesTheTask, slotVars
<1>8. Places'
  BY <1>1, <1>2, <1>3, <1>4 DEF SInv, TypeOK, Places, slotVars
<1>9. Line'
  BY <1>1, <1>2, <1>3, LineGrows DEF SInv
<1>. QED
  BY <1>5, <1>6, <1>7, <1>8, <1>9 DEF SInv

(* A signal aborts its requests. *)
LEMMA AbortKeeps ==
    ASSUME SInv, NEW s \in Signals, Abort(s)
    PROVE  SInv'
<1>. DEFINE hit == {e \in Requests : s \in listening[e]}
<1>1. /\ aborted' = aborted \cup {s} /\ waiting' = waiting \ (hit \ running)
      /\ cancelled' = cancelled \cup ((inFlight \cup ended) \cap hit)
      /\ UNCHANGED <<arrival, slotVars, ended, cooldownVars, now>>
  BY DEF Abort, AbortReaches
<1>2. /\ outcome' \in [Requests -> Outcomes]
      /\ listening' \in [Requests -> SUBSET Signals]
      /\ \A e \in Requests :
           IF e \in hit /\ outcome[e] = "pending"
           THEN outcome'[e] = "aborted" /\ listening'[e] = {}
           ELSE outcome'[e] = outcome[e] /\ listening'[e] = listening[e]
  <2>1. hit \in SUBSET Requests /\ Answer(hit, "aborted") /\ "aborted" \in Outcomes
    BY DEF Abort, Outcomes
  <2>. HIDE DEF hit
  <2>. QED
    BY <2>1, AnswerEffect DEF SInv
<1>3. \A e \in hit : outcome[e] = "pending"
  BY DEF SInv, SignalsHeard
<1>4. \A e \in waiting : e \notin running
  BY DEF SInv, Places
<1>5. TypeOK'
  BY <1>1, <1>2 DEF SInv, TypeOK, slotVars, cooldownVars
<1>6. SlotsCounted' /\ NoIdleSlot' /\ QueueOpen'
  BY <1>1 DEF SInv, SlotsCounted, NoIdleSlot, QueueOpen, slotVars, cooldownVars
<1>7. NothingForgotten'
  BY <1>1, <1>2, <1>4 DEF SInv, TypeOK, NothingForgotten, slotVars
<1>8. SignalsHeard'
  <2>1. ASSUME NEW e \in Requests, listening'[e] # {}
        PROVE  outcome'[e] = "pending" /\ listening'[e] \cap aborted' = {}
    <3>1. e \notin hit /\ listening'[e] = listening[e] /\ outcome'[e] = outcome[e]
      BY <1>2, <1>3, <2>1
    <3>. QED
      BY <1>1, <2>1, <3>1 DEF SInv, SignalsHeard
  <2>. QED
    BY <2>1 DEF SignalsHeard
<1>9. AbortReachesTheTask'
  BY <1>1, <1>2 DEF SInv, TypeOK, AbortReachesTheTask, slotVars
<1>10. Places'
  BY <1>1, <1>2 DEF SInv, TypeOK, Places, slotVars
<1>11. Line'
  BY <1>1, LineStands DEF SInv
<1>. QED
  BY <1>5, <1>6, <1>7, <1>8, <1>9, <1>10, <1>11 DEF SInv

(* A task settles, overloaded or not: L is whoever leaves the queue.       *)
LEMMA SettledKeeps ==
    ASSUME SInv, NEW e \in inFlight, NEW result \in Outcomes,
           result \notin {"uncalled", "pending", "aborted"},
           NEW L, L = {} \/ L = waiting,
           Settle(e), Answer(Pending(L) \cup {e}, result),
           waiting' = waiting \ L,
           QueueOpen',
           cooldownUntil' \in Nat, cooldownError' \in Requests \cup {Null},
           UNCHANGED <<arrival, running, active, cancelled, aborted, now>>
    PROVE  SInv'
<1>1. inFlight' = inFlight \ {e} /\ ended' = ended \cup {e} /\ e \in Requests
  BY DEF Settle, SInv, TypeOK
<1>. DEFINE S == Pending(L) \cup {e}
<1>2. /\ outcome' \in [Requests -> Outcomes]
      /\ listening' \in [Requests -> SUBSET Signals]
      /\ \A f \in Requests :
           IF f \in S /\ outcome[f] = "pending"
           THEN outcome'[f] = result /\ listening'[f] = {}
           ELSE outcome'[f] = outcome[f] /\ listening'[f] = listening[f]
  <2>1. S \in SUBSET Requests /\ Answer(S, result)
    BY <1>1 DEF Pending, SInv, TypeOK
  <2>. HIDE DEF S
  <2>. QED
    BY <2>1, AnswerEffect DEF SInv
<1>3. \A f \in Requests : f \in S <=> f = e \/ (f \in L /\ outcome[f] = "pending")
  BY DEF Pending
<1>4. e \notin waiting /\ outcome[e] # "uncalled"
  BY <1>1 DEF SInv, Places
<1>. HIDE DEF S
<1>5. TypeOK'
  BY <1>1, <1>2 DEF SInv, TypeOK
<1>6. SlotsCounted' /\ NoIdleSlot'
  BY DEF SInv, SlotsCounted, NoIdleSlot
<1>7. NothingForgotten'
  <2>1. ASSUME NEW f \in Requests, outcome'[f] = "pending"
        PROVE  f \in waiting' \/ f \in inFlight' \cap running'
    <3>1. outcome[f] = "pending" /\ f \notin S
      BY <1>2, <2>1
    <3>2. f # e /\ f \notin L
      BY <1>3, <3>1
    <3>3. f \in waiting \/ f \in inFlight \cap running
      BY <3>1 DEF SInv, NothingForgotten
    <3>. QED
      BY <1>1, <3>2, <3>3
  <2>2. ASSUME NEW f \in Requests, f \in waiting' PROVE outcome'[f] = "pending"
    <3>1. f \in waiting /\ f # e /\ f \notin L
      BY <1>4, <2>2
    <3>2. outcome[f] = "pending"
      BY <3>1 DEF SInv, NothingForgotten
    <3>. QED
      BY <1>2, <1>3, <3>1, <3>2
  <2>. QED
    BY <2>1, <2>2 DEF NothingForgotten
<1>8. SignalsHeard'
  BY <1>2 DEF SInv, SignalsHeard
<1>9. AbortReachesTheTask'
  BY <1>1, <1>2 DEF SInv, TypeOK, AbortReachesTheTask
<1>10. Places'
  BY <1>1, <1>2, <1>4 DEF SInv, TypeOK, Places
<1>11. Line'
  BY LineStands DEF SInv
<1>. QED
  BY <1>5, <1>6, <1>7, <1>8, <1>9, <1>10, <1>11 DEF SInv

(* A task ends, and its request is settled. *)
LEMMA EndedKeeps ==
    ASSUME SInv, NEW e \in Requests, NEW result \in {"resolved", "failed"},
           TaskEnds(e, result)
    PROVE  SInv'
<1>1. Pending({}) \cup {e} = {e}
  BY DEF Pending
<1>2. /\ e \in inFlight /\ Settle(e) /\ Answer({e}, result)
      /\ UNCHANGED <<waiting, arrival, running, active, cancelled, cooldownVars,
                     aborted, now>>
  BY DEF TaskEnds
<1>3. /\ result \in Outcomes /\ result \notin {"uncalled", "pending", "aborted"}
      /\ cooldownUntil' \in Nat /\ cooldownError' \in Requests \cup {Null}
      /\ waiting' = waiting \ {} /\ QueueOpen'
  BY <1>2 DEF Outcomes, SInv, TypeOK, QueueOpen, cooldownVars
<1>. QED
  BY <1>1, <1>2, <1>3, SettledKeeps

(* A task is refused as overloaded, and what waits is shed. *)
LEMMA OverloadedKeeps ==
    ASSUME SInv, NEW e \in Requests, TaskOverloaded(e)
    PROVE  SInv'
<1>1. /\ e \in inFlight /\ Settle(e) /\ Answer(Pending(waiting) \cup {e}, "overloaded")
      /\ cooldownError' = e /\ cooldownUntil' = now + CooldownTime /\ waiting' = {}
      /\ UNCHANGED <<arrival, running, active, cancelled, aborted, now>>
  BY DEF TaskOverloaded, Shed
<1>2. /\ "overloaded" \in Outcomes
      /\ cooldownUntil' \in Nat /\ cooldownError' \in Requests \cup {Null}
      /\ waiting' = waiting \ waiting /\ QueueOpen'
  BY <1>1, ClockAssumption DEF Outcomes, SInv, TypeOK, QueueOpen
<1>. QED
  BY <1>1, <1>2, SettledKeeps

(* A slot is given back, and the queue drained into it. *)
LEMMA FreedKeeps ==
    ASSUME SInv, NEW e \in Requests, SlotFreed(e)
    PROVE  SInv'
<1>1. /\ e \in ended /\ ended' = ended \ {e}
      /\ UNCHANGED <<arrival, cancelled, cooldownVars, aborted, now>>
  BY DEF SlotFreed
<1>2. /\ outcome' = outcome /\ listening' = listening
      /\ \/ e \notin running /\ UNCHANGED <<waiting, slotVars>>
         \/ /\ e \in running /\ waiting = {} /\ waiting' = {}
            /\ running' = running \ {e} /\ active' = active - 1
            /\ inFlight' = inFlight
         \/ /\ e \in running
            /\ \E h \in waiting :
                 /\ waiting' = waiting \ {h}
                 /\ running' = (running \ {e}) \cup {h}
                 /\ active' = active /\ inFlight' = inFlight \cup {h}
                 /\ \A f \in waiting \ {h} : arrival[h] < arrival[f]
  BY FreedEffect DEF callVars
<1>3. e \notin inFlight /\ outcome[e] # "uncalled"
  BY <1>1 DEF SInv, Places
<1>4. /\ IsFiniteSet(running) /\ active = Cardinality(running)
      /\ active \in Nat /\ Concurrency \in Nat /\ active <= Concurrency
  BY RequestsAssumption, ConcurrencyAssumption, FS_Subset
     DEF SInv, TypeOK, SlotsCounted
<1>5. CASE e \notin running /\ UNCHANGED <<waiting, slotVars>>
  <2>1. TypeOK' /\ SlotsCounted' /\ NoIdleSlot' /\ QueueOpen'
    BY <1>1, <1>2, <1>5 DEF SInv, TypeOK, SlotsCounted, NoIdleSlot, QueueOpen,
                            slotVars, cooldownVars
  <2>2. NothingForgotten' /\ SignalsHeard' /\ AbortReachesTheTask'
    BY <1>1, <1>2, <1>5
       DEF SInv, NothingForgotten, SignalsHeard, AbortReachesTheTask, slotVars
  <2>3. Places'
    BY <1>1, <1>2, <1>5 DEF SInv, Places, slotVars
  <2>4. Line'
    BY <1>1, <1>5, LineStands DEF SInv
  <2>. QED
    BY <2>1, <2>2, <2>3, <2>4 DEF SInv
<1>6. CASE /\ e \in running /\ waiting = {} /\ waiting' = {}
           /\ running' = running \ {e} /\ active' = active - 1
           /\ inFlight' = inFlight
  <2>1. Cardinality(running \ {e}) = active - 1 /\ active - 1 \in Nat
    <3>1. /\ IsFiniteSet(running \ {e})
          /\ Cardinality(running \ {e}) = active - 1
      BY <1>4, <1>6, FS_RemoveElement
    <3>. QED
      BY <3>1, FS_CardinalityType
  <2>2. TypeOK'
    BY <1>1, <1>2, <1>6, <2>1 DEF SInv, TypeOK, cooldownVars
  <2>3. SlotsCounted' /\ NoIdleSlot' /\ QueueOpen'
    BY <1>4, <1>6, <2>1 DEF SlotsCounted, NoIdleSlot, QueueOpen
  <2>4. NothingForgotten' /\ SignalsHeard' /\ AbortReachesTheTask'
    BY <1>1, <1>2, <1>3, <1>6
       DEF SInv, NothingForgotten, SignalsHeard, AbortReachesTheTask
  <2>5. Places'
    BY <1>1, <1>2, <1>3, <1>6 DEF SInv, Places
  <2>6. Line'
    BY <1>1, <1>6, LineStands DEF SInv
  <2>. QED
    BY <2>2, <2>3, <2>4, <2>5, <2>6 DEF SInv
<1>7. ASSUME NEW h \in waiting, e \in running, waiting' = waiting \ {h},
             running' = (running \ {e}) \cup {h}, active' = active,
             inFlight' = inFlight \cup {h}
      PROVE  SInv'
  <2>1. /\ h \in Requests /\ h \notin inFlight \cup ended \cup running
        /\ outcome[h] = "pending" /\ active = Concurrency
    BY DEF SInv, TypeOK, Places, NothingForgotten, NoIdleSlot
  <2>2. Cardinality((running \ {e}) \cup {h}) = active
    <3>1. /\ IsFiniteSet(running \ {e})
          /\ Cardinality(running \ {e}) = active - 1 /\ h \notin running \ {e}
      BY <1>4, <1>7, <2>1, FS_RemoveElement
    <3>2. Cardinality((running \ {e}) \cup {h}) = (active - 1) + 1
      BY <3>1, FS_AddElement
    <3>. QED
      BY <1>4, <3>2
  <2>3. TypeOK'
    BY <1>1, <1>2, <1>7, <2>1 DEF SInv, TypeOK, cooldownVars
  <2>4. SlotsCounted' /\ NoIdleSlot'
    BY <1>4, <1>7, <2>1, <2>2 DEF SlotsCounted, NoIdleSlot
  <2>5. QueueOpen'
    BY <1>1, <1>7 DEF SInv, QueueOpen, cooldownVars
  <2>6. NothingForgotten' /\ SignalsHeard' /\ AbortReachesTheTask'
    BY <1>1, <1>2, <1>3, <1>7, <2>1
       DEF SInv, NothingForgotten, SignalsHeard, AbortReachesTheTask
  <2>7. Places'
    BY <1>1, <1>2, <1>3, <1>7, <2>1 DEF SInv, Places
  <2>8. Line'
    BY <1>1, <1>7, LineStands DEF SInv
  <2>. QED
    BY <2>3, <2>4, <2>5, <2>6, <2>7, <2>8 DEF SInv
<1>. QED
  BY <1>2, <1>5, <1>6, <1>7

(* A reset empties the queue and takes every slot. *)
LEMMA ResetKeeps ==
    ASSUME SInv, Reset
    PROVE  SInv'
<1>1. /\ cancelled' = cancelled \cup running
      /\ waiting' = {} /\ running' = {} /\ active' = 0
      /\ cooldownUntil' = 0 /\ cooldownError' = Null
      /\ UNCHANGED <<arrival, inFlight, ended, aborted, now>>
  BY DEF Reset
<1>. DEFINE S == waiting \cup running
<1>2. /\ outcome' \in [Requests -> Outcomes]
      /\ listening' \in [Requests -> SUBSET Signals]
      /\ \A f \in Requests :
           IF f \in S /\ outcome[f] = "pending"
           THEN outcome'[f] = "aborted" /\ listening'[f] = {}
           ELSE outcome'[f] = outcome[f] /\ listening'[f] = listening[f]
  <2>1. /\ S \in SUBSET Requests /\ Answer(S, "aborted") /\ "aborted" \in Outcomes
    BY DEF Reset, SInv, TypeOK, Outcomes
  <2>. HIDE DEF S
  <2>. QED
    BY <2>1, AnswerEffect DEF SInv
<1>3. TypeOK'
  BY <1>1, <1>2 DEF SInv, TypeOK
<1>4. SlotsCounted' /\ NoIdleSlot' /\ QueueOpen'
  BY <1>1, ConcurrencyAssumption, FS_EmptySet DEF SlotsCounted, NoIdleSlot, QueueOpen
<1>5. NothingForgotten' /\ SignalsHeard'
  BY <1>1, <1>2 DEF SInv, NothingForgotten, SignalsHeard
<1>6. AbortReachesTheTask'
  <2>1. ASSUME NEW f \in inFlight, outcome'[f] = "aborted"
        PROVE  f \in cancelled'
    <3>1. f \in Requests /\ f \notin waiting
      BY DEF SInv, TypeOK, Places
    <3>2. outcome[f] = "aborted" \/ f \in running
      BY <1>2, <2>1, <3>1
    <3>. QED
      BY <1>1, <3>2 DEF SInv, AbortReachesTheTask
  <2>. QED
    BY <1>1, <2>1 DEF AbortReachesTheTask
<1>7. Places'
  BY <1>1, <1>2 DEF SInv, TypeOK, Places
<1>8. Line'
  BY <1>1, LineStands DEF SInv
<1>. QED
  BY <1>3, <1>4, <1>5, <1>6, <1>7, <1>8 DEF SInv

-----------------------------------------------------------------------------
(* The empty scheduler satisfies the invariant. *)
LEMMA SInvInit == Init => SInv
<1>. SUFFICES ASSUME Init PROVE SInv
  OBVIOUS
<1>1. IsFiniteSet({}) /\ Cardinality({}) = 0
  BY FS_EmptySet
<1>2. TypeOK
  BY ClockAssumption DEF Init, TypeOK, Outcomes
<1>3. SlotsCounted /\ NoIdleSlot /\ QueueOpen
  BY <1>1, ConcurrencyAssumption DEF Init, SlotsCounted, NoIdleSlot, QueueOpen
<1>4. NothingForgotten /\ SignalsHeard /\ AbortReachesTheTask /\ Places
  BY DEF Init, NothingForgotten, SignalsHeard, AbortReachesTheTask, Places
<1>5. Line
  <2>1. {e \in Requests : arrival[e] > 0} = {}
    BY DEF Init
  <2>2. Arrivals = 0
    BY <1>1, <2>1 DEF Arrivals
  <2>. QED
    BY <2>2 DEF Init, Line
<1>. QED
  BY <1>2, <1>3, <1>4, <1>5 DEF SInv

(* Every step keeps the invariant. *)
LEMMA SInvNext == SInv /\ [Next]_scheduler_vars => SInv'
<1>. SUFFICES ASSUME SInv, [Next]_scheduler_vars PROVE SInv'
  OBVIOUS
<1>1. CASE UNCHANGED <<callVars, waiting, arrival, slotVars, ended, cancelled,
                       cooldownVars, aborted>> /\ now' \in Instants
  BY <1>1 DEF SInv, TypeOK, SlotsCounted, NoIdleSlot, NothingForgotten,
              SignalsHeard, AbortReachesTheTask, Places, QueueOpen, Line,
              Arrivals, callVars, slotVars, cooldownVars
<1>2. CASE Clock
  BY <1>1, <1>2 DEF Clock
<1>3. CASE UNCHANGED scheduler_vars
  BY <1>1, <1>3 DEF scheduler_vars, SInv, TypeOK
<1>. QED
  BY <1>2, <1>3, RefusedKeeps, QueuedKeeps, AbortKeeps, EndedKeeps,
     OverloadedKeeps, FreedKeeps, ResetKeeps DEF Next

(* So it holds in every reachable state. *)
LEMMA SchedulerInvariant == Spec => []SInv
BY SInvInit, SInvNext, PTL DEF Spec

-----------------------------------------------------------------------------
(* The scheduler's variables keep their types. *)
THEOREM SchedulerTypes == Spec => []TypeOK
<1>1. SInv => TypeOK
  BY DEF SInv
<1>. QED
  BY <1>1, SchedulerInvariant, PTL

(* activeCount counts the requests that hold a slot and never exceeds the  *)
(* concurrency, and nobody waits beside a free slot, whatever settles,     *)
(* aborts, overloads or resets when.                                       *)
THEOREM SlotsHold == Spec => []SlotsUsed
<1>1. SInv => SlotsUsed
  BY DEF SInv, SlotsUsed
<1>. QED
  BY <1>1, SchedulerInvariant, PTL

(* A pending promise has somebody who will answer it; an aborted signal    *)
(* leaves no request pending and no task untold, an answer no listener.    *)
THEOREM PromisesHold == Spec => []PromisesKept
<1>1. SInv => PromisesKept
  BY DEF SInv, PromisesKept
<1>. QED
  BY <1>1, SchedulerInvariant, PTL

(* While the server cools down no task starts: the queue is empty and      *)
(* schedule refuses.                                                       *)
THEOREM CooldownKept == Spec => NoStartInCooldown
<1>1. SInv /\ [Next]_scheduler_vars
        => [now < cooldownUntil => running' \subseteq running]_scheduler_vars
  <2>. SUFFICES ASSUME SInv, Next, now < cooldownUntil
                PROVE  running' \subseteq running
    OBVIOUS
  <2>1. waiting = {}
    BY ClockAssumption DEF SInv, TypeOK, QueueOpen
  <2>2. ASSUME NEW e \in Requests, NEW S \in SUBSET Signals,
               ScheduleQueued(e, S)
        PROVE  FALSE
    BY <2>2, ClockAssumption DEF ScheduleQueued, SInv, TypeOK
  <2>3. ASSUME NEW e \in Requests, SlotFreed(e)
        PROVE  running' \subseteq running
    BY <2>1, <2>3, FreedEffect DEF slotVars
  <2>4. ASSUME NEW e \in Requests, NEW S \in SUBSET Signals,
               ScheduleAborted(e, S) \/ ScheduleRefused(e, S)
        PROVE  running' \subseteq running
    BY <2>4 DEF ScheduleAborted, ScheduleRefused, Refuse, slotVars
  <2>5. ASSUME NEW s \in Signals, Abort(s) PROVE running' \subseteq running
    BY <2>5 DEF Abort, slotVars
  <2>6. ASSUME NEW e \in Requests, NEW r, TaskEnds(e, r)
        PROVE  running' \subseteq running
    BY <2>6 DEF TaskEnds
  <2>7. ASSUME NEW e \in Requests, TaskOverloaded(e)
        PROVE  running' \subseteq running
    BY <2>7 DEF TaskOverloaded
  <2>8. Reset \/ Clock => running' \subseteq running
    BY DEF Reset, Clock, slotVars
  <2>. QED
    BY <2>2, <2>3, <2>4, <2>5, <2>6, <2>7, <2>8 DEF Next
<1>. QED
  BY <1>1, SchedulerInvariant, PTL DEF Spec, NoStartInCooldown

(* Requests start in the order of their calls. *)
THEOREM OrderKept == Spec => InOrder
<1>. DEFINE A == \A e \in running' \ running, f \in waiting' :
                   arrival'[e] < arrival'[f]
<1>1. SInv /\ [Next]_scheduler_vars => [A]_scheduler_vars
  <2>. SUFFICES ASSUME SInv, Next, ~(running' \subseteq running) PROVE A
    OBVIOUS
  <2>1. ASSUME NEW e \in Requests, NEW S \in SUBSET Signals,
               ScheduleQueued(e, S)
        PROVE  A
    <3>1. UNCHANGED slotVars \/ waiting' = {}
      BY <2>1, QueuedEffect
    <3>. QED
      BY <3>1 DEF slotVars
  <2>2. ASSUME NEW e \in Requests, SlotFreed(e) PROVE A
    <3>1. arrival' = arrival
      BY <2>2 DEF SlotFreed
    <3>. QED
      BY <2>2, <3>1, FreedEffect DEF slotVars
  <2>3. ASSUME NEW e \in Requests, NEW S \in SUBSET Signals,
               ScheduleAborted(e, S) \/ ScheduleRefused(e, S)
        PROVE  running' \subseteq running
    BY <2>3 DEF ScheduleAborted, ScheduleRefused, Refuse, slotVars
  <2>4. ASSUME NEW s \in Signals, Abort(s) PROVE running' \subseteq running
    BY <2>4 DEF Abort, slotVars
  <2>5. ASSUME NEW e \in Requests, NEW r, TaskEnds(e, r)
        PROVE  running' \subseteq running
    BY <2>5 DEF TaskEnds
  <2>6. ASSUME NEW e \in Requests, TaskOverloaded(e)
        PROVE  running' \subseteq running
    BY <2>6 DEF TaskOverloaded
  <2>7. Reset \/ Clock => running' \subseteq running
    BY DEF Reset, Clock, slotVars
  <2>. HIDE DEF A
  <2>. QED
    BY <2>1, <2>2, <2>3, <2>4, <2>5, <2>6, <2>7 DEF Next
<1>. QED
  BY <1>1, SchedulerInvariant, PTL DEF Spec, InOrder
=============================================================================
