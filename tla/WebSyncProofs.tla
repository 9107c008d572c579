---------------------------- MODULE WebSyncProofs ----------------------------
(***************************************************************************)
(* Proofs about DatabaseWriter and WebSync, for any number of writes,      *)
(* databases, jobs and accounts.                                           *)
(*                                                                         *)
(* The chain of promises keeps the order of the calls: the tail of a       *)
(* database is its last call, no tail means that nothing is waiting, and a *)
(* write is chained to the call before it unless all the earlier ones were *)
(* executed already.                                                       *)
(*                                                                         *)
(* The tables of the web syncs agree, two syncs of an account stay apart   *)
(* and a reported sync was written, however often the default account      *)
(* changes: a job works for the account of its key unless the default      *)
(* changed since, and awaits the write that its success is later reported  *)
(* for.                                                                    *)
(***************************************************************************)
EXTENDS WebSync, FiniteSetTheorems, TLAPS

-----------------------------------------------------------------------------
(* The writer.                                                             *)

(* Calls are numbered in order, and each has a number of its own.          *)
Numbered ==
    /\ \A w \in Writes : state[w] # "new" => ticket[w] < calls
    /\ \A v, w \in Writes :
          state[v] # "new" /\ state[w] # "new" /\ ticket[v] = ticket[w] => v = w

(* Without a tail every write of the database was executed.                *)
TailGuards ==
    \A d \in Databases : tail[d] = None =>
        \A w \in Writes : state[w] # "new" /\ home[w] = d => Executed(w)

(* The tail is the last call of its database.                              *)
TailIsLast ==
    \A d \in Databases : tail[d] # None =>
        /\ state[tail[d]] # "new" /\ home[tail[d]] = d
        /\ \A w \in Writes :
              state[w] # "new" /\ home[w] = d => ticket[w] <= ticket[tail[d]]

(* A waiting write is chained to the call before it, or all the earlier    *)
(* ones were executed.                                                     *)
Chained ==
    \A w \in Writes : state[w] = "queued" =>
        IF after[w] = None
        THEN \A v \in Writes : Earlier(v, w) => Executed(v)
        ELSE /\ Earlier(after[w], w)
             /\ \A v \in Writes : Earlier(v, w) => ticket[v] <= ticket[after[w]]

(* Only what was executed is cleaned up after.                             *)
SweptIsDone == \A w \in unswept : Executed(w)

IInv ==
    TypeOK /\ Numbered /\ TailGuards /\ TailIsLast /\ Chained /\ InOrder /\ SweptIsDone

-----------------------------------------------------------------------------
(* The writer without writes satisfies its invariant. *)
LEMMA InitIInv == Init => IInv
BY DEF Init, IInv, TypeOK, Numbered, TailGuards, TailIsLast, Chained, InOrder,
       SweptIsDone, Executed, Earlier

(* A write is ready when every earlier one was executed. *)
LEMMA ReadyIsNext ==
    ASSUME IInv, NEW w \in Writes, state[w] = "queued", Ready(w)
    PROVE  \A v \in Writes : Earlier(v, w) => Executed(v)
<1> SUFFICES ASSUME NEW v \in Writes, Earlier(v, w) PROVE Executed(v)
    OBVIOUS
<1>1. CASE after[w] = None
    BY <1>1 DEF IInv, Chained
<1>2. CASE after[w] # None
    <2> DEFINE u == after[w]
    <2>1. u \in Writes /\ Earlier(u, w) /\ ticket[v] <= ticket[u] /\ Executed(u)
        BY <1>2 DEF IInv, TypeOK, Chained, Ready
    <2>2. CASE v = u
        BY <2>1, <2>2
    <2>3. CASE v # u
        <3>1. ticket[v] # ticket[u]
            BY <2>1, <2>3 DEF IInv, Numbered, Earlier
        <3>2. Earlier(v, u)
            BY <2>1, <3>1 DEF IInv, TypeOK, Earlier
        <3> QED BY <2>1, <3>2 DEF IInv, InOrder
    <2> QED BY <2>2, <2>3
<1> QED BY <1>1, <1>2

(* A write is queued with the next ticket. *)
LEMMA EnqueueStep ==
    ASSUME IInv, NEW w \in Writes, NEW d \in Databases, Enqueue(w, d)
    PROVE  IInv'
<1> USE DEF IInv
<1>1. TypeOK'
    BY DEF TypeOK, Enqueue
<1>2. state'[w] = "queued" /\ ticket'[w] = calls /\ home'[w] = d /\ after'[w] = tail[d]
    BY DEF TypeOK, Enqueue
<1>3. \A v \in Writes \ {w} :
          state'[v] = state[v] /\ ticket'[v] = ticket[v] /\ home'[v] = home[v]
          /\ after'[v] = after[v]
    BY DEF TypeOK, Enqueue
<1>4. tail'[d] = w /\ \A c \in Databases \ {d} : tail'[c] = tail[c]
    BY DEF TypeOK, Enqueue
<1>5. state[w] = "new" /\ calls' = calls + 1 /\ calls \in Nat
    BY DEF TypeOK, Enqueue
<1>6. \A v \in Writes : ticket[v] \in Nat
    BY DEF TypeOK
<1>7. Numbered'
    BY <1>2, <1>3, <1>5, <1>6 DEF Numbered
<1>8. TailGuards'
    BY <1>2, <1>3, <1>4, WriterAssumption DEF TailGuards, Executed
<1>9. TailIsLast'
    <2> SUFFICES ASSUME NEW c \in Databases, tail'[c] # None
                 PROVE  /\ state'[tail'[c]] # "new" /\ home'[tail'[c]] = c
                        /\ \A v \in Writes : state'[v] # "new" /\ home'[v] = c
                              => ticket'[v] <= ticket'[tail'[c]]
        BY DEF TailIsLast
    <2>1. CASE c = d
        BY <2>1, <1>2, <1>3, <1>4, <1>5, <1>6 DEF Numbered
    <2>2. CASE c # d
        <3>1. tail[c] \in Writes /\ tail[c] # w /\ tail'[c] = tail[c]
            BY <2>2, <1>4, <1>5 DEF TypeOK, TailIsLast
        <3> QED BY <3>1, <2>2, <1>2, <1>3 DEF TailIsLast
    <2> QED BY <2>1, <2>2
<1>10. \A u, v \in Writes : u # w /\ v # w => (Earlier(u, v)' <=> Earlier(u, v))
    BY <1>3 DEF Earlier
<1>11. \A v \in Writes :
          state'[v] # "new" /\ home'[w] = home'[v] => ~ ticket'[w] < ticket'[v]
    <2> SUFFICES ASSUME NEW v \in Writes, state'[v] # "new", ticket'[w] < ticket'[v]
                 PROVE  FALSE
        OBVIOUS
    <2>1. CASE v = w
        BY <2>1, <1>2, <1>5
    <2>2. CASE v # w
        <3>1. state[v] # "new" /\ calls < ticket[v]
            BY <2>2, <1>2, <1>3
        <3> QED BY <3>1, <1>5, <1>6 DEF Numbered
    <2> QED BY <2>1, <2>2
<1>16. \A u, v \in Writes : Earlier(u, v)' => u # w
    <2> SUFFICES ASSUME NEW u \in Writes, NEW v \in Writes, Earlier(u, v)', u = w
                 PROVE  FALSE
        OBVIOUS
    <2> QED BY <1>11 DEF Earlier
<1>12. \A v \in Writes : v # w => (Executed(v)' <=> Executed(v))
    BY <1>3 DEF Executed
<1>13. Chained'
    <2> SUFFICES ASSUME NEW v \in Writes, state'[v] = "queued"
                 PROVE  IF after'[v] = None
                        THEN \A x \in Writes : Earlier(x, v)' => Executed(x)'
                        ELSE /\ state'[after'[v]] # "new" /\ home'[after'[v]] = home'[v]
                             /\ ticket'[after'[v]] < ticket'[v]
                             /\ \A x \in Writes : Earlier(x, v)' => ticket'[x] <= ticket'[after'[v]]
        BY DEF Chained, Earlier
    <2>1. CASE v = w
        <3>1. CASE tail[d] = None
            BY <2>1, <3>1, <1>2, <1>3, <1>11, <1>12 DEF TailGuards, Earlier
        <3>2. CASE tail[d] # None
            <4>1. tail[d] \in Writes /\ tail[d] # w /\ state[tail[d]] # "new" /\ home[tail[d]] = d
                BY <3>2, <1>5 DEF TypeOK, TailIsLast
            <4>2. /\ state'[tail[d]] # "new" /\ home'[tail[d]] = home'[w]
                  /\ ticket'[tail[d]] < ticket'[w]
                BY <4>1, <1>2, <1>3, <1>5 DEF Numbered
            <4>3. ASSUME NEW x \in Writes, Earlier(x, w)'
                  PROVE  ticket'[x] <= ticket'[tail[d]]
                <5>1. x # w /\ state[x] # "new" /\ home[x] = d
                    BY <4>3, <1>11, <1>2, <1>3 DEF Earlier
                <5> QED BY <5>1, <4>1, <3>2, <1>3 DEF TailIsLast
            <4> QED BY <2>1, <1>2, <3>2, <4>2, <4>3
        <3> QED BY <3>1, <3>2
    <2>2. CASE v # w
        <3>1. state[v] = "queued" /\ after'[v] = after[v]
            BY <2>2, <1>3
        <3>2. CASE after[v] = None
            BY <3>1, <3>2, <2>2, <1>10, <1>16, <1>12 DEF Chained
        <3>3. CASE after[v] # None
            <4>1. after[v] \in Writes /\ Earlier(after[v], v) /\ after[v] # w
                BY <3>1, <3>3, <1>5 DEF TypeOK, Chained, Earlier
            <4>2. /\ state'[after[v]] # "new" /\ home'[after[v]] = home'[v]
                  /\ ticket'[after[v]] < ticket'[v]
                BY <4>1, <2>2, <1>3 DEF Earlier
            <4>3. ASSUME NEW x \in Writes, Earlier(x, v)'
                  PROVE  ticket'[x] <= ticket'[after[v]]
                <5>1. x # w /\ Earlier(x, v)
                    BY <4>3, <2>2, <1>10, <1>16
                <5> QED BY <5>1, <4>1, <3>1, <3>3, <1>3 DEF Chained
            <4> QED BY <3>1, <3>3, <4>2, <4>3
        <3> QED BY <3>2, <3>3
    <2> QED BY <2>1, <2>2
<1>14. InOrder'
    <2> SUFFICES ASSUME NEW u \in Writes, NEW v \in Writes, Executed(v)', Earlier(u, v)'
                 PROVE  Executed(u)'
        BY DEF InOrder
    <2>1. u # w /\ v # w
        BY <1>2, <1>16 DEF Executed
    <2> QED BY <2>1, <1>10, <1>12 DEF InOrder
<1>15. SweptIsDone'
    BY <1>5, <1>12 DEF SweptIsDone, TypeOK, Enqueue, Executed
<1> QED BY <1>1, <1>7, <1>8, <1>9, <1>13, <1>14, <1>15

(* A write that is ready runs. *)
LEMMA RunStep ==
    ASSUME IInv, NEW w \in Writes, Run(w)
    PROVE  IInv'
<1> USE DEF IInv
<1>1. \A v \in Writes : Earlier(v, w) => Executed(v)
    BY ReadyIsNext DEF Run
<1>2. TypeOK'
    BY DEF TypeOK, Run
<1>3. state[w] = "queued" /\ Executed(w)'
    BY DEF TypeOK, Run, Executed
<1>4. \A v \in Writes : v # w => state'[v] = state[v]
    BY DEF TypeOK, Run
<1>5. UNCHANGED <<calls, ticket, home, after, tail>> /\ unswept' = unswept \cup {w}
    BY DEF Run
<1>6. \A v \in Writes : (state'[v] = "new" <=> state[v] = "new")
                        /\ (Executed(v) => Executed(v)')
                        /\ (state'[v] = "queued" => state[v] = "queued")
    BY <1>3, <1>4 DEF Executed
<1>7. \A u, v \in Writes : Earlier(u, v)' <=> Earlier(u, v)
    BY <1>5, <1>6 DEF Earlier
<1>8. Numbered'
    BY <1>5, <1>6 DEF Numbered
<1>9. TailGuards'
    BY <1>5, <1>6 DEF TailGuards
<1>10. TailIsLast'
    BY <1>5, <1>6 DEF TailIsLast, TypeOK
<1>11. Chained'
    <2> SUFFICES ASSUME NEW v \in Writes, state'[v] = "queued"
                 PROVE  IF after'[v] = None
                        THEN \A x \in Writes : Earlier(x, v)' => Executed(x)'
                        ELSE /\ state'[after'[v]] # "new" /\ home'[after'[v]] = home'[v]
                             /\ ticket'[after'[v]] < ticket'[v]
                             /\ \A x \in Writes : Earlier(x, v)' => ticket'[x] <= ticket'[after'[v]]
        BY DEF Chained, Earlier
    <2>1. state[v] = "queued" /\ after'[v] = after[v]
        BY <1>5, <1>6
    <2>2. CASE after[v] = None
        BY <2>1, <2>2, <1>6, <1>7 DEF Chained
    <2>3. CASE after[v] # None
        <3>1. after[v] \in Writes
            BY <2>3 DEF TypeOK
        <3>2. Earlier(after[v], v)'
            BY <2>1, <2>3, <3>1, <1>7 DEF Chained
        <3> QED BY <2>1, <2>3, <3>1, <3>2, <1>5, <1>7 DEF Chained, Earlier
    <2> QED BY <2>2, <2>3
<1>12. InOrder'
    <2> SUFFICES ASSUME NEW u \in Writes, NEW v \in Writes, Executed(v)', Earlier(u, v)
                 PROVE  Executed(u)'
        BY <1>7 DEF InOrder
    <2>1. CASE v = w
        BY <2>1, <1>1, <1>6
    <2>2. CASE v # w
        BY <2>2, <1>4, <1>6 DEF InOrder, Executed
    <2> QED BY <2>1, <2>2
<1>13. SweptIsDone'
    BY <1>3, <1>5, <1>6 DEF SweptIsDone, TypeOK
<1> QED BY <1>2, <1>8, <1>9, <1>10, <1>11, <1>12, <1>13

(* A write that was executed is swept. *)
LEMMA SweepStep ==
    ASSUME IInv, NEW w \in Writes, Sweep(w)
    PROVE  IInv'
<1> USE DEF IInv
<1>1. UNCHANGED <<calls, ticket, home, state, after, queuedWrites>>
      /\ unswept' \subseteq unswept /\ Executed(w)
    BY DEF Sweep, SweptIsDone
<1>2. TypeOK'
    BY DEF TypeOK, Sweep
<1>3. \A d \in Databases : tail'[d] = tail[d] \/ (tail[d] = w /\ tail'[d] = None)
    BY DEF TypeOK, Sweep
<1>4. \A v \in Writes : Executed(v)' <=> Executed(v)
    BY <1>1 DEF Executed
<1>5. \A u, v \in Writes : Earlier(u, v)' <=> Earlier(u, v)
    BY <1>1 DEF Earlier
<1>6. Numbered' /\ InOrder' /\ SweptIsDone'
    BY <1>1, <1>4, <1>5 DEF Numbered, InOrder, SweptIsDone, TypeOK
<1>7. Chained'
    BY <1>1 DEF Chained, Earlier, Executed
<1>8. TailGuards'
    <2> SUFFICES ASSUME NEW d \in Databases, tail'[d] = None,
                        NEW v \in Writes, state[v] # "new", home[v] = d
                 PROVE  Executed(v)
        BY <1>1, <1>4 DEF TailGuards
    <2>1. CASE tail[d] = None
        BY <2>1 DEF TailGuards
    <2>2. CASE tail[d] # None
        <3>1. tail[d] = w /\ state[w] # "new" /\ home[w] = d /\ ticket[v] <= ticket[w]
            BY <2>2, <1>3 DEF TailIsLast
        <3>2. CASE v = w
            BY <3>2, <1>1
        <3>3. CASE v # w
            <4>1. ticket[v] # ticket[w]
                BY <3>1, <3>3 DEF Numbered
            <4>2. Earlier(v, w)
                BY <3>1, <4>1 DEF Earlier, TypeOK
            <4> QED BY <4>2, <1>1 DEF InOrder
        <3> QED BY <3>2, <3>3
    <2> QED BY <2>1, <2>2
<1>9. TailIsLast'
    BY <1>1, <1>3, WriterAssumption DEF TailIsLast
<1> QED BY <1>2, <1>6, <1>7, <1>8, <1>9

(* Every step of the writer keeps its invariant. *)
LEMMA NextIInv == IInv /\ [Next]_vars => IInv'
<1> SUFFICES ASSUME IInv, [Next]_vars PROVE IInv'
    OBVIOUS
<1>1. ASSUME NEW w \in Writes, NEW d \in Databases, Enqueue(w, d) PROVE IInv'
    BY <1>1, EnqueueStep
<1>2. ASSUME NEW w \in Writes, Run(w) PROVE IInv'
    BY <1>2, RunStep
<1>3. ASSUME NEW w \in Writes, Sweep(w) PROVE IInv'
    BY <1>3, SweepStep
<1>4. CASE UNCHANGED vars
    BY <1>4 DEF vars, IInv, TypeOK, Numbered, TailGuards, TailIsLast, Chained, InOrder,
                SweptIsDone, Executed, Earlier
<1> QED BY <1>1, <1>2, <1>3, <1>4 DEF Next

(* The writer's invariant holds in every reachable state. *)
THEOREM IInvHolds == Spec => []IInv
BY InitIInv, NextIInv, PTL DEF Spec

(* The state of the write queue has its types for every number of calls.   *)
THEOREM WriterTypes == Spec => []TypeOK
<1>1. IInv => TypeOK
    BY DEF IInv
<1> QED BY <1>1, IInvHolds, PTL

(* Writes of one database are executed in the order of their calls.        *)
THEOREM InOrderHolds == Spec => []InOrder
<1>1. IInv => InOrder
    BY DEF IInv
<1> QED BY <1>1, IInvHolds, PTL

(* A failed write holds up nothing behind it: the next in line can run.    *)
THEOREM NeverWedgedHolds == Spec => []NeverWedged
<1>1. IInv => NeverWedged
  <2> SUFFICES ASSUME IInv, NEW w \in Writes, state[w] = "queued",
                      \A v \in Writes : Earlier(v, w) => Executed(v)
               PROVE  Ready(w)
      BY DEF NeverWedged
  <2>1. after[w] # None => after[w] \in Writes /\ Earlier(after[w], w)
      BY DEF IInv, TypeOK, Chained
  <2> QED BY <2>1 DEF Ready
<1> QED BY <1>1, IInvHolds, PTL

-----------------------------------------------------------------------------
(* The metric. Every call adds one write to those that wait, and every     *)
(* execution takes one out, so the clamp at zero is never needed.          *)
Queued == {w \in Writes : state[w] = "queued"}

QueuedIsFinite == IsFiniteSet(Queued) /\ QueuedIsCounted

(* Nothing is queued in the beginning. *)
LEMMA InitQueued == Init => QueuedIsFinite
<1> SUFFICES ASSUME Init PROVE QueuedIsFinite
    OBVIOUS
<1>1. Queued = {} /\ queuedWrites = 0
    BY DEF Init, Queued
<1> QED BY <1>1, FS_EmptySet DEF QueuedIsFinite, QueuedIsCounted, Queued

(* Every step leaves finitely many writes in the queue. *)
LEMMA StepQueued == TypeOK /\ QueuedIsFinite /\ [Next]_vars => QueuedIsFinite'
<1> SUFFICES ASSUME TypeOK, QueuedIsFinite, [Next]_vars PROVE QueuedIsFinite'
    OBVIOUS
<1>1. IsFiniteSet(Queued) /\ queuedWrites = Cardinality(Queued)
    BY DEF QueuedIsFinite, QueuedIsCounted, Queued
<1>2. SUFFICES IsFiniteSet(Queued') /\ queuedWrites' = Cardinality(Queued')
    BY DEF QueuedIsFinite, QueuedIsCounted, Queued
<1>3. ASSUME NEW w \in Writes, NEW d \in Databases, Enqueue(w, d)
      PROVE  IsFiniteSet(Queued') /\ queuedWrites' = Cardinality(Queued')
    <2>1. Queued' = Queued \cup {w} /\ w \notin Queued /\ queuedWrites' = queuedWrites + 1
        BY <1>3 DEF Queued, Enqueue, TypeOK
    <2> QED BY <2>1, <1>1, FS_AddElement
<1>4. ASSUME NEW w \in Writes, Run(w)
      PROVE  IsFiniteSet(Queued') /\ queuedWrites' = Cardinality(Queued')
    <2>1. Queued' = Queued \ {w} /\ w \in Queued
        BY <1>4 DEF Queued, Run, TypeOK
    <2>2. queuedWrites \in Nat /\ queuedWrites # 0
        BY <2>1, <1>1, FS_EmptySet DEF TypeOK
    <2>3. queuedWrites' = queuedWrites - 1
        BY <1>4, <2>2 DEF Run
    <2> QED BY <2>1, <2>3, <1>1, FS_RemoveElement
<1>5. ASSUME NEW w \in Writes, Sweep(w)
      PROVE  IsFiniteSet(Queued') /\ queuedWrites' = Cardinality(Queued')
    BY <1>5, <1>1 DEF Sweep, Queued
<1>6. CASE UNCHANGED vars
    BY <1>6, <1>1 DEF vars, Queued
<1> QED BY <1>3, <1>4, <1>5, <1>6 DEF Next

(* The metric is the number of waiting writes, for any number of them.     *)
THEOREM QueuedHolds == Spec => []QueuedIsCounted
<1>1. QueuedIsFinite => QueuedIsCounted
    BY DEF QueuedIsFinite
<1> QED BY <1>1, InitQueued, StepQueued, WriterTypes, PTL DEF Spec

-----------------------------------------------------------------------------
(* The writer starts as the abstract order does. *)
LEMMA InitAbstract == Init => Abstract!Init
BY DEF Init, Abstract!Init

(* Every step of the writer is one of the abstract order, or none. *)
LEMMA StepAbstract ==
    IInv /\ [Next]_vars => [Abstract!Next]_<<calls, ticket, home, state>>
<1> SUFFICES ASSUME IInv, [Next]_vars
             PROVE  Abstract!Next \/ UNCHANGED <<calls, ticket, home, state>>
    OBVIOUS
<1>1. ASSUME NEW w \in Writes, NEW d \in Databases, Enqueue(w, d)
      PROVE  Abstract!Call(w, d)
    BY <1>1 DEF Enqueue, Abstract!Call
<1>2. ASSUME NEW w \in Writes, Run(w) PROVE Abstract!Execute(w)
    <2>1. \A v \in Writes : Earlier(v, w) => Executed(v)
        BY <1>2, ReadyIsNext DEF Run
    <2> QED BY <1>2, <2>1 DEF Run, Abstract!Execute, Abstract!Earlier, Abstract!Executed,
                              Earlier, Executed
<1>3. ASSUME NEW w \in Writes, Sweep(w) PROVE UNCHANGED <<calls, ticket, home, state>>
    BY <1>3 DEF Sweep
<1>4. CASE UNCHANGED vars
    BY <1>4 DEF vars
<1> QED BY <1>1, <1>2, <1>3, <1>4 DEF Next, Abstract!Next

(* The chain of promises implements the abstract queue of a database.      *)
THEOREM WriterImplements == Spec => ImplementsWriteOrder
BY InitAbstract, StepAbstract, IInvHolds, PTL DEF Spec, ImplementsWriteOrder, Abstract!Spec

-----------------------------------------------------------------------------
(* The jobs.                                                               *)

(* The account of a job is that of its key; if it asked for none, only a   *)
(* change of the default can part the two.                                 *)
Faithful ==
    \A j \in InProgress :
        /\ asked[j] \in Requests /\ key[j] \in Keys /\ key[j][1] = asked[j].kind
        /\ asked[j].account # None => asked[j].account = key[j][2]
        /\ stage[j] = "main" => target[j] = key[j][2]
        /\ stage[j] = "threads" /\ j \notin switched => target[j] = key[j][2]
        /\ stage[j] \in {"main", "threads"} /\ j \notin switched /\ asked[j].account = None
           => default = key[j][2]

(* A job past its main stage has its items committed.                      *)
Stored ==
    \A j \in Jobs :
        /\ stage[j] = "main" /\ awaits[j] # None => wrote[j] = awaits[j]
        /\ stage[j] \in {"threads", "backup"} =>
              wrote[j] # None /\ state[wrote[j]] = "committed"
        /\ shown[j] = "succeeded" => stage[j] = "settled"
        /\ j \in timers => stage[j] = "settled"

WInv == SyncTypeOK /\ RunningIsListed /\ Faithful /\ Stored /\ SucceededWrote

-----------------------------------------------------------------------------
(* Every step of the syncs is one of the write queue, or none.             *)
LEMMA WriterSees == [SyncNext]_sync_vars => [Next]_vars
<1>1. ASSUME NEW w \in Writes, NEW d \in Databases, Enqueue(w, d) PROVE Next
    BY <1>1 DEF Next
<1>2. ASSUME MayWrite PROVE NextWrite \in Writes
    BY <1>2 DEF MayWrite, NextWrite
<1>3. Main \in Databases
    BY SyncAssumption
<1>4. ASSUME NEW j \in Jobs, Continues(j) PROVE [Next]_vars
    <2>1. CASE Fetched(j)
        BY <2>1, <1>1, <1>2, <1>3 DEF Fetched
    <2>2. CASE ~Fetched(j)
        BY <1>4, <2>2 DEF Continues, Fails
    <2> QED BY <2>1, <2>2
<1>5. ASSUME NEW d \in Databases, OtherWrite(d) PROVE Next
    BY <1>5, <1>1, <1>2 DEF OtherWrite
<1>6. ASSUME NEW w \in Writes, RunNext(w) \/ SweepNext(w) PROVE Next
    BY <1>6 DEF RunNext, SweepNext, Next
<1>7. CASE SyncNext
    <2>1. ASSUME NEW r \in Requests, Start(NextJob, r) PROVE UNCHANGED vars
        BY <2>1 DEF Start
    <2>2. ASSUME NEW j \in Jobs, Expire(j) PROVE UNCHANGED vars
        BY <2>2 DEF Expire
    <2>3. ASSUME NEW a \in Accounts, ChangeDefault(a) PROVE UNCHANGED vars
        BY <2>3 DEF ChangeDefault
    <2> QED BY <1>7, <1>4, <1>5, <1>6, <2>1, <2>2, <2>3 DEF SyncNext
<1>8. CASE UNCHANGED sync_vars
    BY <1>8 DEF sync_vars
<1> QED BY <1>7, <1>8

(* The writer's invariant holds while synchronisation jobs write. *)
THEOREM WriterHolds == SyncSpec => []IInv
<1>1. SyncInit => IInv
    BY InitIInv DEF SyncInit
<1>2. IInv /\ [SyncNext]_sync_vars => IInv'
    BY WriterSees, NextIInv
<1> QED BY <1>1, <1>2, PTL DEF SyncSpec

(* Under the syncs, too, a database's writes are executed in the order of  *)
(* the calls.                                                              *)
THEOREM SyncedInOrder == SyncSpec => []InOrder
<1>1. IInv => InOrder
    BY DEF IInv
<1> QED BY <1>1, WriterHolds, PTL

(* Under the syncs, too, the chain of promises implements the abstract     *)
(* queue of a database: what jobs and other writers do together is a       *)
(* sequence of calls and executions in their order.                        *)
THEOREM SyncedImplements == SyncSpec => ImplementsWriteOrder
<1>1. SyncInit => Abstract!Init
    BY InitAbstract DEF SyncInit
<1>2. IInv /\ [SyncNext]_sync_vars => [Abstract!Next]_<<calls, ticket, home, state>>
    BY WriterSees, StepAbstract
<1> QED BY <1>1, <1>2, WriterHolds, PTL DEF SyncSpec, ImplementsWriteOrder, Abstract!Spec

-----------------------------------------------------------------------------
(* Without jobs the invariant of their writes holds. *)
LEMMA InitWInv == SyncInit => WInv
BY SyncAssumption
   DEF SyncInit, Init, WInv, SyncTypeOK, RunningIsListed, Faithful, Stored, SucceededWrote,
       InProgress, Keys

(* A job that may write has a write that was not used yet. *)
LEMMA NextWriteIsNew ==
    ASSUME MayWrite
    PROVE  NextWrite \in Writes /\ state[NextWrite] = "new"
BY DEF MayWrite, NextWrite

(* None is no write, no job and no account. *)
LEMMA NoneIsApart == None \notin Writes /\ None \notin Jobs /\ None \notin Accounts
BY SyncAssumption, WriterAssumption

(* What a settling job leaves: every conjunct of WInv but SucceededWrote,  *)
(* which depends on the status.                                            *)
LEMMA SettleStep ==
    ASSUME WInv, NEW j \in InProgress, NEW status \in {"succeeded", "failed"},
           Settle(j, status), UNCHANGED <<state, setting, wrote>>,
           status = "succeeded" => wrote[j] # None /\ state[wrote[j]] = "committed"
    PROVE  WInv'
<1> USE DEF WInv
<1>1. j \in Jobs /\ key[j] \in Keys /\ running[key[j]] = j
    BY DEF InProgress, RunningIsListed, Faithful
<1>2. /\ shown' = [shown EXCEPT ![j] = status]
      /\ running' = [running EXCEPT ![key[j]] = None]
      /\ timers' = timers \cup {j}
      /\ Over(j) /\ UNCHANGED key
    BY <1>1 DEF Settle, KeyOf
<1>3. InProgress' = InProgress \ {j}
    BY <1>1, <1>2 DEF InProgress, Over, SyncTypeOK
<1>4. SyncTypeOK'
    BY <1>1, <1>2 DEF SyncTypeOK, Over, setting
<1>5. RunningIsListed'
    BY <1>1, <1>2, <1>3, NoneIsApart DEF RunningIsListed, SyncTypeOK, Faithful
<1>6. Faithful'
    BY <1>1, <1>2, <1>3 DEF Faithful, SyncTypeOK, Over, setting, InProgress
<1>7. Stored'
    BY <1>1, <1>2 DEF Stored, SyncTypeOK, Over
<1>8. SucceededWrote'
    BY <1>1, <1>2 DEF SucceededWrote, SyncTypeOK
<1> QED BY <1>4, <1>5, <1>6, <1>7, <1>8

(* A job starts for a request. *)
LEMMA StartStep ==
    ASSUME WInv, MayStart, NEW r \in Requests, Start(NextJob, r)
    PROVE  WInv'
<1> USE DEF WInv
<1> DEFINE j == NextJob
           k == KeyFor(r)
<1>1. j \in Jobs /\ stage[j] = "new" /\ j \notin InProgress
    BY DEF MayStart, NextJob, InProgress
<1>2. k \in Keys /\ k[1] = r.kind /\ k[2] = Resolved(r.account)
    BY DEF KeyFor, Resolved, Keys, Requests, SyncTypeOK
<1>3. /\ running[k] = None
      /\ running' = [running EXCEPT ![k] = j]
      /\ shown' = [shown EXCEPT ![j] = "running"]
      /\ key' = [key EXCEPT ![j] = k]
      /\ asked' = [asked EXCEPT ![j] = r]
      /\ stage' = [stage EXCEPT ![j] = "main"]
      /\ target' = [target EXCEPT ![j] = k[2]]
      /\ UNCHANGED <<state, default, changes, timers, awaits, wrote, switched>>
    BY <1>2 DEF Start, vars, setting, history
<1> HIDE DEF j, k
<1>4. InProgress' = InProgress \cup {j}
    BY <1>1, <1>3 DEF InProgress, SyncTypeOK
<1>5. SyncTypeOK'
    BY <1>1, <1>2, <1>3 DEF SyncTypeOK, Keys
<1>6. RunningIsListed'
    <2>1. \A i \in InProgress : i # j /\ key[i] \in Keys /\ key[i] # k /\ running[key[i]] = i
        BY <1>1, <1>3, NoneIsApart DEF RunningIsListed, Faithful, InProgress
    <2>2. \A i \in Keys : running[i] # None => running[i] \in InProgress /\ key[running[i]] = i
        BY DEF RunningIsListed
    <2>3. \A i \in InProgress' : shown'[i] = "running" /\ running'[key'[i]] = i
        BY <1>1, <1>2, <1>3, <1>4, <2>1
           DEF RunningIsListed, SyncTypeOK, InProgress
    <2>4. \A i \in Keys : running'[i] # None => running'[i] \in InProgress' /\ key'[running'[i]] = i
        BY <1>1, <1>2, <1>3, <1>4, <2>1, <2>2 DEF SyncTypeOK, InProgress
    <2> QED BY <2>3, <2>4 DEF RunningIsListed
<1>7. Faithful'
    BY <1>1, <1>2, <1>3, <1>4 DEF Faithful, SyncTypeOK, InProgress, Resolved, Requests
<1>8. Stored'
    BY <1>1, <1>3 DEF Stored, SyncTypeOK
<1>9. SucceededWrote'
    BY <1>1, <1>3 DEF SucceededWrote, SyncTypeOK
<1> QED BY <1>5, <1>6, <1>7, <1>8, <1>9

(* A job has fetched, and queues its main write. *)
LEMMA FetchedStep ==
    ASSUME WInv, IInv, NEW j \in Jobs, Fetched(j)
    PROVE  WInv'
<1> USE DEF WInv
<1> DEFINE w == NextWrite
<1>1. w \in Writes /\ state[w] = "new" /\ stage[j] \in {"main", "threads", "backup"}
    BY NextWriteIsNew DEF Fetched
<1>2. state' = [state EXCEPT ![w] = "queued"]
    BY DEF Fetched, Enqueue
<1>3. /\ awaits' = [awaits EXCEPT ![j] = w]
      /\ wrote' = IF stage[j] = "main" THEN [wrote EXCEPT ![j] = w] ELSE wrote
      /\ UNCHANGED <<default, changes, running, shown, key, timers, asked, stage, target, switched>>
    BY DEF Fetched, setting, tables
<1>4. \A v \in Writes : v # None /\ state[v] = "committed" => state'[v] = "committed"
    BY <1>1, <1>2 DEF IInv, TypeOK
<1>5. shown[j] = "running"
    BY <1>1 DEF RunningIsListed, InProgress
<1> HIDE DEF w
<1>6. SyncTypeOK'
    BY <1>1, <1>3 DEF SyncTypeOK
<1>7. RunningIsListed' /\ Faithful'
    BY <1>3 DEF RunningIsListed, Faithful, InProgress
<1>8. Stored'
    BY <1>1, <1>3, <1>4 DEF Stored, SyncTypeOK
<1>9. SucceededWrote'
    BY <1>1, <1>3, <1>4, <1>5 DEF SucceededWrote, SyncTypeOK
<1> QED BY <1>6, <1>7, <1>8, <1>9

(* A job's main write has ended, well or not. *)
LEMMA MainStep ==
    ASSUME WInv, IInv, NEW j \in Jobs, MainWritten(j), UNCHANGED <<vars, setting, wrote>>
    PROVE  WInv'
<1> USE DEF WInv
<1>1. stage[j] = "main" /\ awaits[j] # None /\ wrote[j] = awaits[j] /\ j \in InProgress
    BY DEF MainWritten, WriteEnded, Stored, InProgress
<1>2. CASE Settle(j, "failed")
    BY <1>1, <1>2, SettleStep DEF MainWritten, vars
<1>3. CASE state[awaits[j]] # "failed" /\ AfterMain(j)
    <2>1. state[wrote[j]] = "committed" /\ AfterMain(j) /\ shown[j] = "running"
        BY <1>1, <1>3 DEF MainWritten, WriteEnded, Executed, RunningIsListed
    <2>2. /\ \/ /\ stage' = [stage EXCEPT ![j] = "threads"]
                /\ target' = [target EXCEPT ![j] = Resolved(asked[j].account)]
             \/ stage' = [stage EXCEPT ![j] = "backup"] /\ UNCHANGED target
          /\ awaits' = [awaits EXCEPT ![j] = None]
          /\ UNCHANGED <<default, changes, running, shown, key, timers, asked, switched,
                         wrote, state>>
        BY <2>1 DEF AfterMain, setting, tables, vars
    <2>3. InProgress' = InProgress
        BY <1>1, <2>2 DEF InProgress, SyncTypeOK
    <2>4. asked[j] \in Requests /\ Resolved(asked[j].account) \in Accounts
        BY <1>1 DEF Faithful, Resolved, Requests, SyncTypeOK
    <2>5. SyncTypeOK'
        BY <1>1, <2>2, <2>4 DEF SyncTypeOK
    <2>6. RunningIsListed'
        BY <2>2, <2>3 DEF RunningIsListed
    <2>7. j \notin switched => Resolved(asked[j].account) = key[j][2]
        BY <1>1 DEF Faithful, Resolved
    <2>8. Faithful'
        BY <1>1, <2>2, <2>3, <2>7 DEF Faithful, SyncTypeOK, InProgress
    <2>9. Stored'
        BY <1>1, <2>1, <2>2 DEF Stored, SyncTypeOK
    <2>10. SucceededWrote'
        BY <2>2 DEF SucceededWrote
    <2> QED BY <2>5, <2>6, <2>8, <2>9, <2>10
<1> QED BY <1>2, <1>3 DEF MainWritten, ThreadsRefused

(* A job's next thread is written, or all of them are. *)
LEMMA ThreadsStep ==
    ASSUME WInv, NEW j \in Jobs, ThreadWritten(j) \/ ThreadsDone(j),
           UNCHANGED <<vars, setting, wrote>>
    PROVE  WInv'
<1> USE DEF WInv
<1>1. /\ stage[j] = "threads"
      /\ stage' \in {stage, [stage EXCEPT ![j] = "backup"]}
      /\ awaits' \in {awaits, [awaits EXCEPT ![j] = None]}
      /\ UNCHANGED <<default, changes, running, shown, key, timers, asked, target, switched,
                     wrote, state>>
    BY DEF ThreadWritten, ThreadsDone, tables, setting, vars
<1>2. InProgress' = InProgress
    BY <1>1 DEF InProgress, SyncTypeOK
<1>3. SyncTypeOK'
    BY <1>1 DEF SyncTypeOK
<1>4. RunningIsListed'
    BY <1>1, <1>2 DEF RunningIsListed
<1>5. Faithful'
    BY <1>1, <1>2 DEF Faithful, SyncTypeOK, InProgress
<1>6. Stored' /\ SucceededWrote'
    BY <1>1 DEF Stored, SyncTypeOK, SucceededWrote
<1> QED BY <1>3, <1>4, <1>5, <1>6

(* A job that ended is forgotten. *)
LEMMA ExpireStep ==
    ASSUME WInv, NEW j \in Jobs, Expire(j)
    PROVE  WInv'
<1> USE DEF WInv
<1>1. j \notin InProgress /\ stage[j] = "settled"
    BY DEF Expire, Stored, InProgress
<1>2. /\ timers' = timers \ {j}
      /\ shown' = [shown EXCEPT ![j] = "unknown"]
      /\ key' = [key EXCEPT ![j] = None]
      /\ wrote' = [wrote EXCEPT ![j] = None]
      /\ UNCHANGED <<state, default, changes, running, asked, stage, target, awaits, switched>>
    BY DEF Expire, vars, setting, jobs
<1>3. InProgress' = InProgress
    BY <1>2 DEF InProgress
<1>4. SyncTypeOK'
    BY <1>2 DEF SyncTypeOK
<1>5. RunningIsListed'
    BY <1>1, <1>2, <1>3 DEF RunningIsListed, SyncTypeOK
<1>6. Faithful'
    BY <1>1, <1>2, <1>3 DEF Faithful, SyncTypeOK
<1>7. Stored' /\ SucceededWrote'
    BY <1>1, <1>2 DEF Stored, SucceededWrote, SyncTypeOK
<1> QED BY <1>4, <1>5, <1>6, <1>7

(* The default account changes. *)
LEMMA DefaultStep ==
    ASSUME WInv, NEW a \in Accounts, ChangeDefault(a)
    PROVE  WInv'
<1> USE DEF WInv
<1>1. /\ default' = a /\ changes < MaxChanges /\ changes' = changes + 1
      /\ switched' = switched \cup
             {j \in Jobs : stage[j] \in {"main", "threads"} /\ asked[j].account = None}
      /\ UNCHANGED <<state, running, shown, key, timers, asked, stage, target, awaits, wrote>>
    BY DEF ChangeDefault, vars, tables, jobs
<1>2. InProgress' = InProgress
    BY <1>1 DEF InProgress
<1>3. SyncTypeOK'
    BY <1>1, SyncAssumption DEF SyncTypeOK
<1>4. RunningIsListed' /\ Stored' /\ SucceededWrote'
    BY <1>1, <1>2 DEF RunningIsListed, Stored, SucceededWrote
<1>5. Faithful'
    BY <1>1, <1>2 DEF Faithful, InProgress
<1> QED BY <1>3, <1>4, <1>5

(* The writer works, for a job or for another writer. *)
LEMMA WritesStep ==
    ASSUME WInv, IInv, UNCHANGED <<setting, tables, jobs, history>>,
           \/ \E d \in Databases : OtherWrite(d)
           \/ \E w \in Writes : Run(w) \/ Sweep(w)
    PROVE  WInv'
<1> USE DEF WInv
<1>1. \A v \in Writes : state[v] = "committed" => state'[v] = "committed"
    <2>1. ASSUME NEW d \in Databases, OtherWrite(d)
          PROVE  \A v \in Writes : state[v] = "committed" => state'[v] = "committed"
        BY <2>1, NextWriteIsNew DEF OtherWrite, Enqueue, IInv, TypeOK
    <2>2. ASSUME NEW w \in Writes, Run(w) \/ Sweep(w)
          PROVE  \A v \in Writes : state[v] = "committed" => state'[v] = "committed"
        BY <2>2 DEF Run, Sweep, IInv, TypeOK
    <2> QED BY <2>1, <2>2
<1>2. UNCHANGED <<default, changes, running, shown, key, timers, asked, stage, target, awaits,
                  wrote, switched>>
    BY DEF setting, tables, jobs, history
<1>3. SyncTypeOK' /\ RunningIsListed' /\ Faithful'
    BY <1>2 DEF SyncTypeOK, RunningIsListed, Faithful, InProgress
<1>4. Stored' /\ SucceededWrote'
    BY <1>1, <1>2 DEF Stored, SucceededWrote, SyncTypeOK
<1> QED BY <1>3, <1>4

(* A job goes on after its write. *)
LEMMA ContinuesStep ==
    ASSUME WInv, IInv, NEW j \in Jobs, Continues(j)
    PROVE  WInv'
<1>1. CASE Fetched(j)
    BY <1>1, FetchedStep
<1>2. CASE Fails(j)
    BY <1>2, SettleStep DEF Fails, InProgress, vars
<1>3. ASSUME BackedUp(j), UNCHANGED <<vars, setting, wrote>> PROVE WInv'
    <2>1. j \in InProgress /\ wrote[j] # None /\ state[wrote[j]] = "committed"
        BY <1>3 DEF BackedUp, InProgress, WInv, Stored
    <2> QED BY <1>3, <2>1, SettleStep DEF BackedUp, vars
<1> QED BY <1>1, <1>2, <1>3, MainStep, ThreadsStep DEF Continues

(* Every step keeps the invariant of the jobs' writes. *)
LEMMA NextWInv == WInv /\ IInv /\ [SyncNext]_sync_vars => WInv'
<1> SUFFICES ASSUME WInv, IInv, [SyncNext]_sync_vars PROVE WInv'
    OBVIOUS
<1>1. CASE SyncNext
    <2>1. ASSUME NEW w \in Writes, RunNext(w) \/ SweepNext(w) PROVE WInv'
        BY <2>1, WritesStep DEF RunNext, SweepNext
    <2>2. ASSUME NEW d \in Databases, OtherWrite(d) PROVE WInv'
        BY <2>2, WritesStep DEF OtherWrite
    <2> QED BY <1>1, <2>1, <2>2, StartStep, ContinuesStep, ExpireStep, DefaultStep DEF SyncNext
<1>2. CASE UNCHANGED sync_vars
    BY <1>2 DEF sync_vars, vars, setting, tables, jobs, history, WInv, SyncTypeOK,
                RunningIsListed, Faithful, Stored, SucceededWrote, InProgress
<1> QED BY <1>1, <1>2

(* The invariant of the jobs' writes holds in every reachable state. *)
THEOREM WInvHolds == SyncSpec => []WInv
BY InitWInv, NextWInv, WriterHolds, PTL DEF SyncSpec

(* The tables and jobs of the web syncs keep their types.                  *)
THEOREM SyncTypes == SyncSpec => []SyncTypeOK
<1>1. WInv => SyncTypeOK
    BY DEF WInv
<1> QED BY <1>1, WInvHolds, PTL

(* Exactly the jobs in progress hold a key, whatever became of the default *)
(* account since they started, and what is reported as synced is written.  *)
THEOREM SnapshotsHold == SyncSpec => []SnapshotsAreTrue
<1>1. WInv => SnapshotsAreTrue
    BY DEF WInv, SnapshotsAreTrue
<1> QED BY <1>1, WInvHolds, PTL

(* Two syncs of a kind fetch for an account at once only if one of them    *)
(* hydrates the threads of a default that has changed.                     *)
THEOREM SyncsStayApart == SyncSpec => []OneSyncPerAccount
<1>1. WInv => OneSyncPerAccount
    <2> SUFFICES ASSUME WInv, NEW i \in Jobs, NEW j \in Jobs, i # j,
                        {stage[i], stage[j]} \subseteq {"main", "threads"},
                        asked[i].kind = asked[j].kind, target[i] = target[j],
                        ~ \E x \in {i, j} : x \in switched /\ stage[x] = "threads"
                 PROVE  FALSE
        BY DEF OneSyncPerAccount
    <2>1. i \in InProgress /\ j \in InProgress
        BY DEF InProgress
    <2>2. key[i][2] = target[i] /\ key[j][2] = target[j] /\ key[i][1] = key[j][1]
        BY <2>1 DEF WInv, Faithful
    <2>3. key[i] = key[j]
        BY <2>1, <2>2 DEF WInv, Faithful, Keys
    <2> QED BY <2>1, <2>3 DEF WInv, RunningIsListed
<1> QED BY <1>1, WInvHolds, PTL
=============================================================================
