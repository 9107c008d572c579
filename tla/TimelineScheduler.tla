------------------------- MODULE TimelineScheduler --------------------------
(***************************************************************************)
(* The bounded scheduler every mounted timeline card shares                *)
(* (src/lib/timeline-request-scheduler.ts): at most Concurrency tasks run, *)
(* the rest wait in order, a signal drops what waits and aborts what runs, *)
(* and an overloaded server (429, 503) empties the queue and closes it for *)
(* a while.                                                                *)
(*                                                                         *)
(* JavaScript runs each function below to its end, so each is a step; what *)
(* interleaves are the calls, the signals, and the two promise callbacks   *)
(* of a task, its settlement and its finally.  The queue is a set of       *)
(* requests ordered by their arrival numbers.                              *)
(***************************************************************************)
EXTENDS Integers, FiniteSets

CONSTANTS
    Requests,      \* bound: the calls of schedule, each made once
    Signals,       \* abort signals the cards hand over
    Concurrency,   \* concurrency
    CooldownTime,  \* cooldownMs
    Instants,      \* bound: what Date.now() may answer, in any order
    Null

ASSUME RequestsAssumption == IsFiniteSet(Requests)
ASSUME ConcurrencyAssumption == Concurrency \in Nat \ {0}
ASSUME ClockAssumption == CooldownTime \in Nat /\ Instants \subseteq Nat
ASSUME NullAssumption == Null \notin Requests

VARIABLES
    outcome,       \* what the promise of a call has come to
    listening,     \* the signals onAbort of a request is registered with
    waiting,       \* queue
    arrival,       \* the place in which a request was pushed
    running,       \* running: the requests that hold a slot
    active,        \* activeCount
    inFlight,      \* requests whose task has started and not settled
    ended,         \* requests whose task has settled and whose finally is due
    cancelled,     \* requests whose own controller is aborted
    cooldownUntil,
    cooldownError, \* the request whose error closed the queue
    aborted,       \* signals that are aborted
    now            \* Date.now()

callVars == <<outcome, listening>>
slotVars == <<running, active, inFlight>>
cooldownVars == <<cooldownUntil, cooldownError>>
scheduler_vars == <<callVars, waiting, arrival, slotVars, ended, cancelled,
                    cooldownVars, aborted, now>>

Outcomes == {"uncalled", "pending", "resolved", "failed", "overloaded", "aborted"}

Init ==
    /\ outcome = [e \in Requests |-> "uncalled"]
    /\ listening = [e \in Requests |-> {}]
    /\ arrival = [e \in Requests |-> 0]
    /\ waiting = {} /\ running = {} /\ active = 0
    /\ inFlight = {} /\ ended = {} /\ cancelled = {}
    /\ cooldownUntil = 0 /\ cooldownError = Null
    /\ aborted = {}
    /\ now \in Instants

-----------------------------------------------------------------------------
Pending(S) == {e \in S : outcome[e] = "pending"}

(* A promise settles once: an answer reaches the requests of S that are    *)
(* still pending and takes their listeners off the signals.                *)
Answer(S, result) ==
    /\ outcome' = [e \in Requests |->
                     IF e \in Pending(S) THEN result ELSE outcome[e]]
    /\ listening' = [e \in Requests |->
                       IF e \in Pending(S) THEN {} ELSE listening[e]]

ShiftedOneMore(queue, live, slots) ==  \* mutant: activeCount <= concurrency
    {e \in queue :
        Cardinality({f \in live : arrival'[f] < arrival'[e]}) <= slots}

ShiftedNewest(queue, live, slots) ==  \* mutant: pop instead of shift
    {e \in queue :
        Cardinality({f \in live : arrival'[f] > arrival'[e]}) < slots}

(* What drain shifts off a queue: every request with fewer live ones       *)
(* before it than there are slots.                                         *)
Shifted(queue, live, slots) ==
    {e \in queue :
        Cardinality({f \in live : arrival'[f] < arrival'[e]}) < slots}

(* The loop of drain, run with the slots and promises as its caller leaves *)
(* them: dead requests are rejected, live ones take the free slots.        *)
Drain(queue, holders, count, outcomes, listeners) ==
    LET live == {e \in queue : /\ outcomes[e] = "pending"
                               /\ listeners[e] \cap aborted = {}}
        shifted == Shifted(queue, live, Concurrency - count)
        started == shifted \cap live
        dropped == {e \in shifted \ live : outcomes[e] = "pending"}
    IN  /\ waiting' = queue \ shifted
        /\ running' = holders \cup started
        /\ active' = count + Cardinality(started)
        /\ inFlight' = inFlight \cup started
        /\ outcome' = [e \in Requests |->
                         IF e \in dropped THEN "aborted" ELSE outcomes[e]]
        /\ listening' = [e \in Requests |->
                           IF e \in dropped THEN {} ELSE listeners[e]]

-----------------------------------------------------------------------------
(* schedule, with its two early refusals.                                  *)

Refuse(e, result) ==
    /\ outcome' = [outcome EXCEPT ![e] = result]
    /\ UNCHANGED <<listening, waiting, arrival, slotVars, ended, cancelled,
                   cooldownVars, aborted, now>>

ScheduleAborted(e, S) ==
    /\ outcome[e] = "uncalled"
    /\ S \cap aborted # {}
    /\ Refuse(e, "aborted")

ScheduleRefused(e, S) ==
    /\ outcome[e] = "uncalled"
    /\ S \cap aborted = {}
    /\ cooldownUntil > now
    /\ Refuse(e, "overloaded")

Arrivals == Cardinality({e \in Requests : arrival[e] > 0})

ScheduleQueued(e, S) ==
    /\ outcome[e] = "uncalled"
    /\ S \cap aborted = {}
    /\ cooldownUntil <= now
    /\ cooldownUntil' = 0 /\ cooldownError' = Null
    /\ arrival' = [arrival EXCEPT ![e] = Arrivals + 1]
    /\ Drain(waiting \cup {e}, running, active,
             [outcome EXCEPT ![e] = "pending"], [listening EXCEPT ![e] = S])
    /\ UNCHANGED <<ended, cancelled, aborted, now>>

-----------------------------------------------------------------------------
(* A signal fires: every request that listens is answered, a waiting one   *)
(* leaves the queue, the task of a running one is told and keeps its slot. *)

AbortReaches(started, hit) == started \cap hit

Abort(s) ==
    LET hit == {e \in Requests : s \in listening[e]}
    IN  /\ s \notin aborted
        /\ aborted' = aborted \cup {s}
        /\ waiting' = waiting \ (hit \ running)
        /\ cancelled' = cancelled \cup AbortReaches(inFlight \cup ended, hit)
        /\ Answer(hit, "aborted")
        /\ UNCHANGED <<arrival, slotVars, ended, cooldownVars, now>>

-----------------------------------------------------------------------------
(* The task's promise settles.  An overload closes the queue even if the   *)
(* request it belongs to has long been answered.                           *)

Settle(e) == inFlight' = inFlight \ {e} /\ ended' = ended \cup {e}

TaskEnds(e, result) ==
    /\ e \in inFlight
    /\ Settle(e)
    /\ Answer({e}, result)
    /\ UNCHANGED <<waiting, arrival, running, active, cancelled, cooldownVars,
                   aborted, now>>

ShedForgets == {}  \* mutant: empties the queue and tells nobody
Shed == Pending(waiting)

TaskOverloadedShedsNothing(e) ==  \* mutant
    /\ e \in inFlight
    /\ Settle(e)
    /\ cooldownError' = e
    /\ cooldownUntil' = now + CooldownTime
    /\ Answer({e}, "overloaded")
    /\ UNCHANGED <<waiting, arrival, running, active, cancelled, aborted, now>>

TaskOverloaded(e) ==
    /\ e \in inFlight
    /\ Settle(e)
    /\ cooldownError' = e
    /\ cooldownUntil' = now + CooldownTime
    /\ waiting' = {}
    /\ Answer(Shed \cup {e}, "overloaded")
    /\ UNCHANGED <<arrival, running, active, cancelled, aborted, now>>

(* finally: the slot is given back once, and the queue drained into it.    *)
HasSlot(e) == e \in running

SlotFreedOnly(e) ==  \* mutant: no drain
    /\ e \in ended
    /\ ended' = ended \ {e}
    /\ running' = running \ {e}
    /\ active' = Cardinality(running')
    /\ UNCHANGED <<callVars, waiting, arrival, inFlight, cancelled,
                   cooldownVars, aborted, now>>

SlotFreed(e) ==
    /\ e \in ended
    /\ ended' = ended \ {e}
    /\ UNCHANGED <<arrival, cancelled, cooldownVars, aborted, now>>
    /\ \/ /\ HasSlot(e)
          /\ Drain(waiting, running \ {e}, active - 1, outcome, listening)
       \/ /\ ~HasSlot(e)
          /\ UNCHANGED <<waiting, slotVars, callVars>>

(* resetForTests: tasks in flight are told and lose their slots.           *)
Reset ==
    /\ Answer(waiting \cup running, "aborted")
    /\ cancelled' = cancelled \cup running
    /\ waiting' = {} /\ running' = {} /\ active' = 0
    /\ cooldownUntil' = 0 /\ cooldownError' = Null
    /\ UNCHANGED <<arrival, inFlight, ended, aborted, now>>

(* The wall clock may be set back.                                         *)
Clock ==
    /\ now' \in Instants
    /\ UNCHANGED <<callVars, waiting, arrival, slotVars, ended, cancelled,
                   cooldownVars, aborted>>

Next ==
    \/ \E e \in Requests, S \in SUBSET Signals :
         ScheduleAborted(e, S) \/ ScheduleRefused(e, S) \/ ScheduleQueued(e, S)
    \/ \E s \in Signals : Abort(s)
    \/ \E e \in Requests :
         \/ \E result \in {"resolved", "failed"} : TaskEnds(e, result)
         \/ TaskOverloaded(e)
         \/ SlotFreed(e)
    \/ Reset
    \/ Clock

Spec == Init /\ [][Next]_scheduler_vars

(* A task ends, by an answer or by the browser giving the connection up,   *)
(* and the promise callbacks run.                                          *)
FairSpec ==
    /\ Spec
    /\ \A e \in Requests :
        /\ WF_scheduler_vars(TaskEnds(e, "resolved") \/ TaskEnds(e, "failed")
                               \/ TaskOverloaded(e))
        /\ WF_scheduler_vars(SlotFreed(e))

-----------------------------------------------------------------------------
TypeOK ==
    /\ outcome \in [Requests -> Outcomes]
    /\ listening \in [Requests -> SUBSET Signals]
    /\ arrival \in [Requests -> Nat]
    /\ waiting \subseteq Requests /\ running \subseteq Requests
    /\ inFlight \subseteq Requests /\ ended \subseteq Requests
    /\ cancelled \subseteq Requests
    /\ active \in Nat
    /\ cooldownUntil \in Nat /\ cooldownError \in Requests \cup {Null}
    /\ aborted \subseteq Signals
    /\ now \in Instants

(* The counter, which alone decides whether a task may start, counts the   *)
(* requests that hold a slot, whatever aborts, overloads and resets come   *)
(* between a task's settlement and its finally; it stays in its bound.     *)
SlotsCounted == active = Cardinality(running) /\ active <= Concurrency

(* No request waits beside a free slot: schedule and finally are the only  *)
(* calls of drain, and no other step frees a slot or leaves a queue.       *)
NoIdleSlot == waiting # {} => active = Concurrency

(* Slots neither leak nor idle, under abort, failure and the closing of    *)
(* the queue.                                                              *)
SlotsUsed == SlotsCounted /\ NoIdleSlot

(* No promise is left behind: a pending request waits, or its task is in   *)
(* flight and will answer it; a request that waits is still pending.       *)
NothingForgotten ==
    \A e \in Requests :
        /\ outcome[e] = "pending" => e \in waiting \/ e \in inFlight \cap running
        /\ e \in waiting => outcome[e] = "pending"

(* A signal is heard as long as it matters and no longer: no pending       *)
(* request has an aborted signal, and no answered one still listens.       *)
SignalsHeard ==
    \A e \in Requests :
        listening[e] # {} => outcome[e] = "pending" /\ listening[e] \cap aborted = {}

(* "running fetches receive a real AbortSignal so leaving the viewport     *)
(* releases server work too": what was aborted and is in flight knows it.  *)
AbortReachesTheTask ==
    \A e \in inFlight : outcome[e] = "aborted" => e \in cancelled

(* Every promise has somebody who will answer it, and every abort its      *)
(* effect.                                                                 *)
PromisesKept == NothingForgotten /\ SignalsHeard /\ AbortReachesTheTask

(* Nothing starts while the server cools down.                             *)
NoStartInCooldown ==
    [][now < cooldownUntil => running' \subseteq running]_scheduler_vars

(* First come, first served: what starts leaves nobody behind who was      *)
(* there before.                                                           *)
InOrder ==
    [][\A e \in running' \ running, f \in waiting' : arrival'[e] < arrival'[f]]_scheduler_vars

(* Every call is answered.                                                 *)
EveryCallAnswered ==
    \A e \in Requests : outcome[e] = "pending" ~> outcome[e] # "pending"
=============================================================================
