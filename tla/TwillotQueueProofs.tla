------------------------- MODULE TwillotQueueProofs -------------------------
(***************************************************************************)
(* Proofs about TwillotQueue for every set of jobs, every daily limit and  *)
(* every length of lease and day: its tables keep their types and shapes,  *)
(* the budget is respected, the receipts say what was charged and where    *)
(* jobs stand, and the queue implements TwillotLease.                      *)
(***************************************************************************)
EXTENDS TwillotQueue, FiniteSetTheorems, TLAPS

-----------------------------------------------------------------------------
(* Arithmetic of usage days.                                               *)

(* Multiplication by a natural number keeps order. *)
LEMMA TimesMonotone ==
    ASSUME NEW a \in Nat, NEW b \in Nat, NEW c \in Nat, a <= b
    PROVE  a * c <= b * c
<1>1. PICK k \in Nat : b = a + k
  BY b - a \in Nat /\ b = a + (b - a)
<1>2. b * c = a * c + k * c /\ k * c >= 0 /\ a * c \in Nat /\ k * c \in Nat
  BY <1>1
<1>. QED
  BY <1>2

(* The division that cuts time into days. *)
LEMMA DayBounds ==
    ASSUME NEW t \in Nat
    PROVE  /\ UsageDay(t) \in Nat
           /\ UsageDay(t) * DayLength <= t + DayOffset
           /\ t + DayOffset < (UsageDay(t) + 1) * DayLength
BY TimeAssumption DEF UsageDay

(* Later instants fall on later or equal days. *)
LEMMA DayMonotone ==
    ASSUME NEW s \in Nat, NEW t \in Nat, s <= t
    PROVE  UsageDay(s) <= UsageDay(t)
<1>1. SUFFICES ASSUME UsageDay(t) + 1 <= UsageDay(s)
               PROVE  FALSE
  BY DayBounds
<1>a. UsageDay(t) + 1 \in Nat /\ UsageDay(s) \in Nat /\ DayLength \in Nat
  BY DayBounds, TimeAssumption
<1>2. (UsageDay(t) + 1) * DayLength <= UsageDay(s) * DayLength
  BY <1>1, <1>a, TimesMonotone
<1>. QED
  BY <1>2, DayBounds, TimeAssumption

(* The next reset lies strictly ahead. *)
LEMMA ResetAhead ==
    ASSUME NEW t \in Nat
    PROVE  NextReset(UsageDay(t)) \in Nat /\ t < NextReset(UsageDay(t))
BY DayBounds, TimeAssumption DEF NextReset

(* Every instant of the model belongs to one of its days. *)
LEMMA DayInDays ==
    ASSUME NEW t \in 0..Horizon
    PROVE  UsageDay(t) \in Days
<1>1. t \in Nat /\ Horizon \in Nat /\ t <= Horizon
  BY TimeAssumption
<1>. QED
  BY <1>1, DayBounds, DayMonotone DEF Days

(* The current usage day is one the model keeps a quota row for. *)
LEMMA TodayInDays ==
    ASSUME now \in 0..Horizon
    PROVE  Today \in Days
BY DayInDays DEF Today

(* A lease granted or renewed now ends later than now and not after the reset. *)
LEMMA LeaseEndAhead ==
    ASSUME now \in Nat
    PROVE  /\ LeaseEnd \in Nat
           /\ now < LeaseEnd
           /\ LeaseEnd <= NextReset(Today)
BY ResetAhead, TimeAssumption DEF LeaseEnd, Least, Today

-----------------------------------------------------------------------------
(* Reservations as sets of units.                                          *)

Block(j, a) == {j} \X (1..a)

(* A lease reserves as many units as its allowance. *)
LEMMA BlockSize ==
    ASSUME NEW j, NEW a \in Nat
    PROVE  IsFiniteSet(Block(j, a)) /\ Cardinality(Block(j, a)) = a
<1>1. IsFiniteSet({j}) /\ Cardinality({j}) = 1
  BY FS_Singleton
<1>2. IsFiniteSet(1..a) /\ Cardinality(1..a) = a
  BY FS_Interval
<1>3. /\ IsFiniteSet({j} \X (1..a))
      /\ Cardinality({j} \X (1..a)) = Cardinality({j}) * Cardinality(1..a)
  BY <1>1, <1>2, FS_Product
<1>. QED
  BY <1>1, <1>2, <1>3 DEF Block

(* The units reserved on a day are finitely many, so they can be counted. *)
LEMMA UnitsFinite ==
    ASSUME NEW tbl, NEW d, NEW t
    PROVE  /\ IsFiniteSet(ReservedUnits(tbl, d, t))
           /\ Reserved(tbl, d, t) \in Nat
<1>1. IsFiniteSet(1..DailyLimit)
  BY FS_Interval, QuotaAssumption
<1>2. IsFiniteSet(Jobs \X (1..DailyLimit))
  BY <1>1, FS_Product, JobsAssumption
<1>3. ReservedUnits(tbl, d, t) \in SUBSET (Jobs \X (1..DailyLimit))
  BY DEF ReservedUnits
<1>4. IsFiniteSet(ReservedUnits(tbl, d, t))
  BY <1>2, <1>3, FS_Subset
<1>. QED
  BY <1>4, FS_CardinalityType DEF Reserved

(* Fewer units, smaller reservation. *)
LEMMA FewerUnits ==
    ASSUME NEW tbl1, NEW tbl2, NEW d, NEW t1, NEW t2,
           ReservedUnits(tbl2, d, t2) \subseteq ReservedUnits(tbl1, d, t1)
    PROVE  Reserved(tbl2, d, t2) <= Reserved(tbl1, d, t1)
BY UnitsFinite, FS_Subset DEF Reserved

(* A grant adds its allowance. *)
LEMMA UnitsAdded ==
    ASSUME NEW tbl1, NEW tbl2, NEW d, NEW t, NEW j, NEW a \in Nat,
           ReservedUnits(tbl2, d, t) \subseteq
               ReservedUnits(tbl1, d, t) \cup Block(j, a)
    PROVE  Reserved(tbl2, d, t) <= Reserved(tbl1, d, t) + a
<1>. DEFINE U == ReservedUnits(tbl1, d, t)
<1>1. IsFiniteSet(U) /\ IsFiniteSet(Block(j, a)) /\ Cardinality(Block(j, a)) = a
  BY UnitsFinite, BlockSize
<1>2. /\ IsFiniteSet(U \cup Block(j, a))
      /\ Cardinality(U \cup Block(j, a)) =
           Cardinality(U) + a - Cardinality(U \cap Block(j, a))
  BY <1>1, FS_Union
<1>3. /\ Cardinality(U) \in Nat
      /\ Cardinality(U \cap Block(j, a)) \in Nat
  BY <1>1, FS_Intersection, FS_CardinalityType
<1>4. Reserved(tbl2, d, t) <= Cardinality(U \cup Block(j, a))
  BY <1>2, FS_Subset DEF Reserved
<1>. QED
  BY <1>2, <1>3, <1>4, UnitsFinite DEF Reserved

(* A lease that ends takes its allowance away. *)
LEMMA UnitsRemoved ==
    ASSUME NEW tbl1, NEW tbl2, NEW d, NEW t, NEW j, NEW a \in Nat,
           Block(j, a) \subseteq ReservedUnits(tbl1, d, t),
           ReservedUnits(tbl2, d, t) \subseteq
               ReservedUnits(tbl1, d, t) \ Block(j, a)
    PROVE  Reserved(tbl2, d, t) <= Reserved(tbl1, d, t) - a
<1>. DEFINE U == ReservedUnits(tbl1, d, t)
<1>1. IsFiniteSet(U) /\ Cardinality(Block(j, a)) = a
  BY UnitsFinite, BlockSize
<1>2. U \cap Block(j, a) = Block(j, a)
  OBVIOUS
<1>3. /\ IsFiniteSet(U \ Block(j, a))
      /\ Cardinality(U \ Block(j, a)) = Cardinality(U) - a
  BY <1>1, <1>2, FS_Difference
<1>4. Reserved(tbl2, d, t) <= Cardinality(U \ Block(j, a))
  BY <1>3, FS_Subset DEF Reserved
<1>. QED
  BY <1>3, <1>4 DEF Reserved

-----------------------------------------------------------------------------
(* Type correctness.                                                       *)

(* Nulling the lease columns of a row gives a row. *)
LEMMA UnleasedType ==
    ASSUME NEW r \in Row
    PROVE  /\ Unleased(r) \in Row
           /\ Unleased(r).state = r.state
           /\ Unleased(r).nextRunAt = r.nextRunAt
           /\ Unleased(r).attempts = r.attempts
           /\ Unleased(r).cursor = r.cursor
           /\ Unleased(r).token = Null
           /\ Unleased(r).expiresAt = Null
           /\ Unleased(r).leaseDay = Null
           /\ Unleased(r).allowance = 0
           /\ Unleased(r).downloaded = r.downloaded
<1>1. 0 \in 0..DailyLimit
  BY QuotaAssumption
<1>2. Unleased(r) \in Row
  BY <1>1 DEF Row, Unleased
<1>. QED
  BY <1>2 DEF Row, Unleased

(* Reclaiming a row gives a row. *)
LEMMA ReclaimType ==
    ASSUME NEW r \in Row
    PROVE  Reclaim(r) \in Row
<1>1. /\ (IF r.nextRunAt > now THEN "deferred" ELSE "queued") \in States
      /\ "capture_requested" \in CaptureStatuses
  BY DEF States, CaptureStatuses
<1>. DEFINE u == Unleased(r)
            state == IF r.nextRunAt > now THEN "deferred" ELSE "queued"
<1>2. u \in Row
  BY UnleasedType
<1>3. Reclaim(r) = IF Expired(r)
                   THEN [u EXCEPT !.state = state, !.capture = "capture_requested"]
                   ELSE r
  BY DEF Reclaim
<1>. HIDE DEF u, state
<1>4. [u EXCEPT !.state = state, !.capture = "capture_requested"] \in Row
  BY <1>1, <1>2 DEF Row, state
<1>. QED
  BY <1>3, <1>4

(* A lease within the daily limit gives a row. *)
LEMMA GrantedType ==
    ASSUME now \in Nat, NEW r \in Row, NEW a \in 0..DailyLimit
    PROVE  Granted(r, a) \in Row
<1>1. LeaseEnd \in Nat /\ Today \in Nat
  BY LeaseEndAhead, DayBounds DEF Today
<1>2. "leased" \in States /\ "capturing" \in CaptureStatuses
  BY DEF States, CaptureStatuses
<1>3. r.attempts + 1 \in Nat
  BY DEF Row
<1>. QED
  BY <1>1, <1>2, <1>3 DEF Row, Granted

(* Applying a batch to a row gives a row. *)
LEMMA CommittedType ==
    ASSUME now \in Nat, NEW r \in Row, NEW s \in Submissions, NEW used
    PROVE  Committed(r, s, used) \in Row
<1>. DEFINE state == IF s.done THEN "completed"
                     ELSE IF used >= DailyLimit THEN "deferred" ELSE "queued"
            next == CASE state = "completed" -> r.nextRunAt
                      [] state = "deferred" -> NextReset(Today)
                      [] state = "queued" -> now
            capture == IF s.done THEN "caught_up_unverified" ELSE "capturing"
<1>1. NextReset(Today) \in Nat
  BY ResetAhead DEF Today
<1>2. s.cursor \in Cursors \cup {NoCursor} /\ s.count \in Nat
  BY QuotaAssumption DEF Submissions
<1>3. state \in {"completed", "deferred", "queued"}
  OBVIOUS
<1>4. next \in Nat
  <2>1. r.nextRunAt \in Nat
    BY DEF Row
  <2>. QED
    BY <1>1, <1>3, <2>1
<1>5. state \in States /\ capture \in CaptureStatuses
  BY <1>3 DEF States, CaptureStatuses
<1>6. r.downloaded + s.count \in Nat
  BY <1>2 DEF Row
<1>7. Committed(r, s, used) =
        [Unleased(r) EXCEPT !.state = state, !.capture = capture,
           !.cursor = s.cursor, !.nextRunAt = next,
           !.downloaded = r.downloaded + s.count]
  BY DEF Committed
<1>. DEFINE u == Unleased(r)
<1>8. u \in Row
  BY UnleasedType
<1>. HIDE DEF state, next, capture, u
<1>9. [u EXCEPT !.state = state, !.capture = capture, !.cursor = s.cursor,
                !.nextRunAt = next, !.downloaded = r.downloaded + s.count] \in Row
  BY <1>2, <1>4, <1>5, <1>6, <1>8 DEF Row
<1>. QED
  BY <1>7, <1>9 DEF u

(* Failing a row gives a row. *)
LEMMA FailedType ==
    ASSUME NEW r \in Row
    PROVE  Failed(r) \in Row
<1>. DEFINE u == Unleased(r)
<1>1. u \in Row
  BY UnleasedType
<1>2. "failed" \in States /\ "needs_attention" \in CaptureStatuses
  BY DEF States, CaptureStatuses
<1>. HIDE DEF u
<1>3. [u EXCEPT !.state = "failed", !.capture = "needs_attention"] \in Row
  BY <1>1, <1>2 DEF Row
<1>. QED
  BY <1>3 DEF Failed, u

(* What is left of a day never exceeds the limit. *)
LEMMA RemainingType ==
    ASSUME TypeOK, NEW tbl
    PROVE  /\ Remaining(tbl) \in 0..DailyLimit
           /\ Remaining(tbl) > 0 =>
                usage[Today] + Reserved(tbl, Today, now) + Remaining(tbl)
                    = DailyLimit
<1>1. usage[Today] \in Nat
  BY TodayInDays DEF TypeOK
<1>2. Reserved(tbl, Today, now) \in Nat
  BY UnitsFinite
<1>. QED
  BY <1>1, <1>2, QuotaAssumption DEF Remaining

(* Reclaiming the whole table gives a table of rows. *)
LEMMA ReclaimedType ==
    ASSUME TypeOK
    PROVE  Reclaimed \in [Jobs -> Row]
BY ReclaimType DEF TypeOK, Reclaimed

(* The placeholder of a job that does not exist is a row. *)
LEMMA AbsentRowType == AbsentRow \in Row
BY QuotaAssumption DEF AbsentRow, Row, States, CaptureStatuses

(* The empty tables are well typed. *)
LEMMA TypeInit == Init => TypeOK
BY AbsentRowType, TimeAssumption DEF Init, TypeOK

(* No operation of the queue stores an ill-typed row. *)
LEMMA TypeStep == TypeOK /\ [Next]_vars => TypeOK'
<1>. SUFFICES ASSUME TypeOK, [Next]_vars PROVE TypeOK'
  OBVIOUS
<1>. USE DEF TypeOK
<1>1. now \in Nat /\ Today \in Days /\ Today \in Nat /\ NextReset(Today) \in Nat
  BY TodayInDays, DayBounds, ResetAhead, TimeAssumption DEF Today
<1>2. ASSUME NEW j \in Jobs, Enqueue(j) PROVE TypeOK'
  <2>1. [AbsentRow EXCEPT !.state = "queued", !.nextRunAt = now] \in Row
    <3>1. "queued" \in States
      BY DEF States
    <3>. DEFINE u == AbsentRow
    <3>2. u \in Row
      BY AbsentRowType
    <3>. HIDE DEF u
    <3>3. [u EXCEPT !.state = "queued", !.nextRunAt = now] \in Row
      BY <1>1, <3>1, <3>2 DEF Row
    <3>. QED
      BY <3>3 DEF u
  <2>. QED
    BY <1>2, <2>1 DEF Enqueue
<1>3. ASSUME NEW j \in Jobs, RetryFailed(j) PROVE TypeOK'
  <2>. DEFINE u == job[j]
  <2>2. /\ u \in Row /\ "queued" \in States
        /\ "capture_requested" \in CaptureStatuses
    BY DEF States, CaptureStatuses
  <2>1. [u EXCEPT !.state = "queued", !.capture = "capture_requested",
                  !.nextRunAt = now] \in Row
    <3>. HIDE DEF u
    <3>. QED
      BY <1>1, <2>2 DEF Row
  <2>. QED
    BY <1>3, <2>1 DEF RetryFailed
<1>4. ASSUME NEW j \in Jobs, VerifyComplete(j) PROVE TypeOK'
  <2>1. [job[j] EXCEPT !.capture = "verified_complete"] \in Row
    BY DEF Row, CaptureStatuses
  <2>. QED
    BY <1>4, <2>1 DEF VerifyComplete
<1>5. ASSUME NEW j \in Jobs, QueueFallback(j) PROVE TypeOK'
  <2>1. [Unleased(job[j]) EXCEPT !.state = "queued",
           !.capture = "capture_requested", !.cursor = NoCursor,
           !.nextRunAt = now] \in Row
    <3>1. "queued" \in States /\ "capture_requested" \in CaptureStatuses
      BY DEF States, CaptureStatuses
    <3>. DEFINE u == Unleased(job[j])
    <3>2. u \in Row
      BY UnleasedType
    <3>. HIDE DEF u
    <3>3. [u EXCEPT !.state = "queued", !.capture = "capture_requested",
                    !.cursor = NoCursor, !.nextRunAt = now] \in Row
      BY <1>1, <3>1, <3>2 DEF Row
    <3>. QED
      BY <3>3 DEF u
  <2>. QED
    BY <1>5, <2>1 DEF QueueFallback
<1>6. ASSUME NEW j \in Jobs, SetPaused(j) PROVE TypeOK'
  BY <1>6 DEF SetPaused
<1>7. CASE ClaimDefers
  <2>1. ASSUME NEW j \in Jobs
        PROVE  [Reclaimed[j] EXCEPT !.state = "deferred",
                                    !.nextRunAt = NextReset(Today)] \in Row
    <3>1. "deferred" \in States
      BY DEF States
    <3>. DEFINE u == Reclaimed[j]
                t == NextReset(Today)
    <3>2. u \in Row /\ t \in Nat
      BY <1>1, ReclaimedType
    <3>. HIDE DEF u, t
    <3>3. [u EXCEPT !.state = "deferred", !.nextRunAt = t] \in Row
      BY <3>1, <3>2 DEF Row
    <3>. QED
      BY <3>3 DEF u, t
  <2>. QED
    BY <1>7, <2>1, ReclaimedType DEF ClaimDefers
<1>8. CASE ClaimFindsNothing
  BY <1>8, ReclaimedType DEF ClaimFindsNothing
<1>9. ASSUME NEW j \in Jobs, NEW cap \in Caps, ClaimGrants(j, cap)
      PROVE  TypeOK'
  <2>1. Least(Remaining(Reclaimed), cap) \in 0..DailyLimit
    BY RemainingType, QuotaAssumption DEF Least
  <2>2. Granted(Reclaimed[j], Least(Remaining(Reclaimed), cap)) \in Row
    BY <1>1, <2>1, GrantedType, ReclaimedType
  <2>. QED
    BY <1>9, <2>2, ReclaimedType DEF ClaimGrants
<1>10. ASSUME NEW s \in Submissions, CompleteBatch(s) PROVE TypeOK'
  <2>1. /\ s.batch \in Batches /\ s.job \in Jobs /\ s.token \in Nat
        /\ s.count \in Nat /\ s.cursor \in Cursors \cup {NoCursor}
        /\ s.done \in BOOLEAN
    BY QuotaAssumption, BoundAssumption DEF Submissions
  <2>2. Committed(job[s.job], s, usage'[Today]) \in Row
    BY <1>1, <2>1, CommittedType
  <2>3. receipts' \subseteq Receipt
    BY <1>1, <1>10, <2>1 DEF CompleteBatch, Receipt
  <2>4. usage' \in [Days -> Nat]
    BY <1>1, <1>10, <2>1 DEF CompleteBatch
  <2>. QED
    BY <1>10, <2>1, <2>2, <2>3, <2>4 DEF CompleteBatch
<1>11. ASSUME NEW j \in Jobs, NEW tok, Fail(j, tok) PROVE TypeOK'
  BY <1>11, FailedType DEF Fail
<1>12. ASSUME NEW j \in Jobs, NEW tok, NEW status \in LeaseStatuses,
              MarkCaptureStatus(j, tok, status)
       PROVE  TypeOK'
  <2>1. status \in CaptureStatuses
    BY StatusAssumption DEF CaptureStatuses
  <2>2. [job[j] EXCEPT !.capture = status] \in Row
    BY <2>1 DEF Row
  <2>. QED
    BY <1>12, <2>2 DEF MarkCaptureStatus
<1>13. ASSUME NEW j \in Jobs, NEW tok, NEW status \in LeaseStatuses,
              Renew(j, tok, status)
       PROVE  TypeOK'
  <2>1. status \in CaptureStatuses
    BY StatusAssumption DEF CaptureStatuses
  <2>2. [job[j] EXCEPT !.capture = status, !.expiresAt = LeaseEnd] \in Row
    BY <1>1, <2>1, LeaseEndAhead DEF Row
  <2>. QED
    BY <1>13, <2>2 DEF Renew
<1>14. CASE Tick
  BY <1>14, TimeAssumption DEF Tick
<1>15. CASE UNCHANGED vars
  BY <1>15 DEF vars
<1>. QED
  BY <1>2, <1>3, <1>4, <1>5, <1>6, <1>7, <1>8, <1>9, <1>10, <1>11, <1>12,
     <1>13, <1>14, <1>15 DEF Next, Claim

(* Every reachable state of the three tables is well typed. *)
THEOREM TypeCorrect == Spec => []TypeOK
BY TypeInit, TypeStep, PTL DEF Spec

-----------------------------------------------------------------------------
(* The shape of leases.                                                    *)

(* A row that leaves the state 'leased' with its columns nulled is well shaped. *)
LEMMA UnleasedShape ==
    ASSUME NEW u \in Row, NEW day,
           u.state # "leased", u.token = Null, u.expiresAt = Null,
           u.leaseDay = Null, u.allowance = 0
    PROVE  RowShape(u, day)
BY DEF RowShape

(* Reclaiming keeps the lease columns consistent. *)
LEMMA ReclaimShape ==
    ASSUME NEW r \in Row, NEW day, RowShape(r, day)
    PROVE  RowShape(Reclaim(r), day)
<1>1. CASE Expired(r)
  <2>. DEFINE u == Unleased(r)
  <2>1. u \in Row /\ u.token = Null /\ u.expiresAt = Null /\ u.leaseDay = Null
        /\ u.allowance = 0
    BY UnleasedType
  <2>. HIDE DEF u
  <2>2. Reclaim(r) =
          [u EXCEPT !.state = IF r.nextRunAt > now THEN "deferred" ELSE "queued",
                    !.capture = "capture_requested"]
    BY <1>1 DEF Reclaim, u
  <2>. QED
    BY <2>1, <2>2 DEF RowShape, Row
<1>2. CASE ~Expired(r)
  BY <1>2 DEF Reclaim
<1>. QED
  BY <1>1, <1>2

(* A granted lease sets all its columns and ends within its day. *)
LEMMA GrantedShape ==
    ASSUME now \in Nat, NEW r \in Row, NEW a \in Nat, a > 0
    PROVE  RowShape(Granted(r, a), Today)
<1>1. LeaseEnd \in Nat /\ Today \in Nat /\ LeaseEnd <= NextReset(Today)
  BY LeaseEndAhead, DayBounds DEF Today
<1>. QED
  BY <1>1, SentinelAssumption DEF Row, RowShape, Granted

(* An applied batch gives up the lease and all its columns. *)
LEMMA CommittedShape ==
    ASSUME now \in Nat, NEW r \in Row, NEW s \in Submissions, NEW used, NEW day
    PROVE  /\ RowShape(Committed(r, s, used), day)
           /\ Committed(r, s, used).state # "leased"
           /\ Committed(r, s, used).attempts = r.attempts
<1>. DEFINE u == Unleased(r)
            state == IF s.done THEN "completed"
                     ELSE IF used >= DailyLimit THEN "deferred" ELSE "queued"
            capture == IF s.done THEN "caught_up_unverified" ELSE "capturing"
            next == CASE state = "completed" -> r.nextRunAt
                      [] state = "deferred" -> NextReset(Today)
                      [] state = "queued" -> now
            w == [u EXCEPT !.state = state, !.capture = capture,
                    !.cursor = s.cursor, !.nextRunAt = next,
                    !.downloaded = r.downloaded + s.count]
<1>1. Committed(r, s, used) = w
  BY DEF Committed
<1>2. Committed(r, s, used) \in Row
  BY CommittedType
<1>3. u \in Row /\ u.token = Null /\ u.expiresAt = Null /\ u.leaseDay = Null
      /\ u.allowance = 0 /\ u.attempts = r.attempts
  BY UnleasedType
<1>4. state # "leased"
  OBVIOUS
<1>5. w.state # "leased" /\ w.token = Null /\ w.expiresAt = Null
      /\ w.leaseDay = Null /\ w.allowance = 0 /\ w.attempts = r.attempts
  <2>. HIDE DEF u, state, capture, next
  <2>. QED
    BY <1>3, <1>4 DEF Row
<1>. HIDE DEF w
<1>. QED
  BY <1>1, <1>2, <1>5, UnleasedShape

(* A failed job keeps none of its lease columns. *)
LEMMA FailedShape ==
    ASSUME NEW r \in Row, NEW day
    PROVE  /\ RowShape(Failed(r), day)
           /\ Failed(r).state # "leased"
           /\ Failed(r).attempts = r.attempts
<1>. DEFINE u == Unleased(r)
            w == [u EXCEPT !.state = "failed", !.capture = "needs_attention"]
<1>1. u \in Row /\ u.token = Null /\ u.expiresAt = Null /\ u.leaseDay = Null
      /\ u.allowance = 0 /\ u.attempts = r.attempts
  BY UnleasedType
<1>2. Failed(r) = w
  BY DEF Failed
<1>3. w.state # "leased" /\ w.token = Null /\ w.expiresAt = Null
      /\ w.leaseDay = Null /\ w.allowance = 0 /\ w.attempts = r.attempts
  <2>. HIDE DEF u
  <2>. QED
    BY <1>1 DEF Row
<1>. QED
  BY <1>2, <1>3, FailedType, UnleasedShape

(* The empty queue has no lease columns set. *)
LEMMA ShapeInit == Init => LeaseShape
BY DEF Init, LeaseShape, RowShape, AbsentRow

(* No operation leaves a lease half set or lets it outlive its day. *)
LEMMA ShapeStep == TypeOK /\ LeaseShape /\ [Next]_vars => LeaseShape'
<1>. SUFFICES ASSUME TypeOK, LeaseShape, [Next]_vars PROVE LeaseShape'
  OBVIOUS
<1>1. /\ now \in Nat /\ Today \in Nat
      /\ job \in [Jobs -> Row]
  BY DayBounds, TimeAssumption DEF TypeOK, Today
<1>2. \A i \in Jobs : job[i] \in Row /\ RowShape(job[i], Today)
  BY <1>1 DEF LeaseShape
<1>3. \A i \in Jobs : Reclaimed[i] \in Row /\ RowShape(Reclaimed[i], Today)
  BY <1>2, ReclaimType, ReclaimShape DEF Reclaimed
<1>4. ASSUME now' = now,
             \A i \in Jobs : RowShape(job'[i], Today)
      PROVE  LeaseShape'
  BY <1>4 DEF LeaseShape, Today
<1>5. ASSUME NEW j \in Jobs, Enqueue(j) PROVE LeaseShape'
  <2>1. RowShape([AbsentRow EXCEPT !.state = "queued", !.nextRunAt = now], Today)
    BY DEF RowShape, AbsentRow
  <2>. QED
    BY <1>1, <1>2, <1>4, <1>5, <2>1 DEF Enqueue
<1>6. ASSUME NEW j \in Jobs, RetryFailed(j) PROVE LeaseShape'
  <2>1. RowShape([job[j] EXCEPT !.state = "queued",
                    !.capture = "capture_requested", !.nextRunAt = now], Today)
    BY <1>2, <1>6 DEF RowShape, Row, RetryFailed
  <2>. QED
    BY <1>1, <1>2, <1>4, <1>6, <2>1 DEF RetryFailed
<1>7. ASSUME NEW j \in Jobs, VerifyComplete(j) PROVE LeaseShape'
  <2>1. RowShape([job[j] EXCEPT !.capture = "verified_complete"], Today)
    BY <1>2, <1>7 DEF RowShape, Row, VerifyComplete
  <2>. QED
    BY <1>1, <1>2, <1>4, <1>7, <2>1 DEF VerifyComplete
<1>8. ASSUME NEW j \in Jobs, QueueFallback(j) PROVE LeaseShape'
  <2>. DEFINE u == Unleased(job[j])
  <2>1. u \in Row /\ u.token = Null /\ u.expiresAt = Null /\ u.leaseDay = Null
        /\ u.allowance = 0
    BY <1>2, UnleasedType
  <2>. HIDE DEF u
  <2>2. RowShape([u EXCEPT !.state = "queued", !.capture = "capture_requested",
                    !.cursor = NoCursor, !.nextRunAt = now], Today)
    BY <2>1 DEF RowShape, Row
  <2>. QED
    BY <1>1, <1>2, <1>4, <1>8, <2>2 DEF QueueFallback, u
<1>9. ASSUME NEW j \in Jobs, SetPaused(j) PROVE LeaseShape'
  BY <1>2, <1>4, <1>9 DEF SetPaused
<1>10. CASE ClaimDefers
  <2>1. ASSUME NEW i \in Jobs, Waiting(Reclaimed[i])
        PROVE  RowShape([Reclaimed[i] EXCEPT !.state = "deferred",
                           !.nextRunAt = NextReset(Today)], Today)
    <3>. DEFINE u == Reclaimed[i]
    <3>1. u \in Row /\ RowShape(u, Today) /\ u.state # "leased"
      BY <1>3, <2>1 DEF Waiting
    <3>. HIDE DEF u
    <3>2. RowShape([u EXCEPT !.state = "deferred",
                      !.nextRunAt = NextReset(Today)], Today)
      BY <3>1 DEF RowShape, Row
    <3>. QED
      BY <3>2 DEF u
  <2>. QED
    BY <1>3, <1>4, <1>10, <2>1 DEF ClaimDefers
<1>11. CASE ClaimFindsNothing
  BY <1>3, <1>4, <1>11 DEF ClaimFindsNothing
<1>12. ASSUME NEW j \in Jobs, NEW cap \in Caps, ClaimGrants(j, cap)
       PROVE  LeaseShape'
  <2>1. /\ Least(Remaining(Reclaimed), cap) \in Nat
        /\ Least(Remaining(Reclaimed), cap) > 0
    BY <1>12, RemainingType, QuotaAssumption DEF Least, ClaimGrants
  <2>2. RowShape(Granted(Reclaimed[j], Least(Remaining(Reclaimed), cap)), Today)
    BY <1>1, <1>3, <2>1, GrantedShape
  <2>. QED
    BY <1>3, <1>4, <1>12, <2>2, ReclaimedType DEF ClaimGrants
<1>13. ASSUME NEW s \in Submissions, CompleteBatch(s) PROVE LeaseShape'
  <2>1. s.job \in Jobs
    BY DEF Submissions
  <2>2. RowShape(Committed(job[s.job], s, usage'[Today]), Today)
    BY <1>1, <2>1, CommittedShape
  <2>. QED
    BY <1>1, <1>2, <1>4, <1>13, <2>1, <2>2 DEF CompleteBatch
<1>14. ASSUME NEW j \in Jobs, NEW tok, Fail(j, tok) PROVE LeaseShape'
  BY <1>1, <1>2, <1>4, <1>14, FailedShape DEF Fail
<1>15. ASSUME NEW j \in Jobs, NEW tok, NEW status \in LeaseStatuses,
              MarkCaptureStatus(j, tok, status)
       PROVE  LeaseShape'
  <2>1. RowShape([job[j] EXCEPT !.capture = status], Today)
    BY <1>2 DEF RowShape, Row
  <2>. QED
    BY <1>1, <1>2, <1>4, <1>15, <2>1 DEF MarkCaptureStatus
<1>16. ASSUME NEW j \in Jobs, NEW tok, NEW status \in LeaseStatuses,
              Renew(j, tok, status)
       PROVE  LeaseShape'
  <2>1. LeaseEnd \in Nat /\ LeaseEnd <= NextReset(Today)
    BY <1>1, LeaseEndAhead
  <2>2. RowShape([job[j] EXCEPT !.capture = status, !.expiresAt = LeaseEnd], Today)
    BY <1>1, <1>2, <1>16, <2>1, SentinelAssumption
       DEF RowShape, Row, Renew, HoldsLease
  <2>. QED
    BY <1>1, <1>2, <1>4, <1>16, <2>2 DEF Renew
<1>17. CASE Tick
  <2>1. Today <= Today' /\ Today' \in Nat
    BY <1>1, <1>17, DayMonotone, DayBounds DEF Tick, Today
  <2>2. \A i \in Jobs : RowShape(job[i], Today')
    BY <1>1, <1>2, <2>1 DEF RowShape, Row
  <2>. QED
    BY <1>17, <2>2 DEF Tick, LeaseShape
<1>18. CASE UNCHANGED vars
  BY <1>2, <1>4, <1>18 DEF vars
<1>. QED
  BY <1>5, <1>6, <1>7, <1>8, <1>9, <1>10, <1>11, <1>12, <1>13, <1>14, <1>15,
     <1>16, <1>17, <1>18 DEF Next, Claim

-----------------------------------------------------------------------------
(* The quota.                                                              *)

(* A table whose reserving rows reserve in another table reserves no more. *)
LEMMA NoMoreReserved ==
    ASSUME NEW tbl1, NEW tbl2, NEW d, NEW t1, NEW t2,
           \A i \in Jobs : Reserving(tbl2[i], d, t2) =>
               /\ Reserving(tbl1[i], d, t1)
               /\ tbl2[i].allowance = tbl1[i].allowance
    PROVE  Reserved(tbl2, d, t2) <= Reserved(tbl1, d, t1)
<1>1. ReservedUnits(tbl2, d, t2) \subseteq ReservedUnits(tbl1, d, t1)
  BY DEF ReservedUnits
<1>. QED
  BY <1>1, FewerUnits

(* Reclaiming a row changes nothing of what it reserves: its lease had expired. *)
LEMMA ReclaimReserves ==
    ASSUME NEW r \in Row, NEW d, Reserving(Reclaim(r), d, now)
    PROVE  Reclaim(r) = r
<1>1. CASE Expired(r)
  <2>. DEFINE u == Unleased(r)
  <2>1. u \in Row
    BY UnleasedType
  <2>. HIDE DEF u
  <2>2. Reclaim(r) =
          [u EXCEPT !.state = IF r.nextRunAt > now THEN "deferred" ELSE "queued",
                    !.capture = "capture_requested"]
    BY <1>1 DEF Reclaim, u
  <2>3. Reclaim(r).state # "leased"
    BY <2>1, <2>2 DEF Row
  <2>. QED
    BY <2>3 DEF Reserving
<1>2. CASE ~Expired(r)
  BY <1>2 DEF Reclaim
<1>. QED
  BY <1>1, <1>2

(* The reclaimed table reserves no more than the stored one. *)
LEMMA ReclaimedReserves ==
    ASSUME TypeOK, NEW d
    PROVE  /\ \A i \in Jobs : Reserving(Reclaimed[i], d, now) =>
                Reclaimed[i] = job[i]
           /\ Reserved(Reclaimed, d, now) <= Reserved(job, d, now)
<1>1. \A i \in Jobs : Reserving(Reclaimed[i], d, now) => Reclaimed[i] = job[i]
  BY ReclaimReserves DEF TypeOK, Reclaimed
<1>. QED
  BY <1>1, NoMoreReserved

(* Before the first claim the whole budget is free. *)
LEMMA QuotaInit == Init => QuotaRespected
<1>. SUFFICES ASSUME Init PROVE QuotaRespected
  OBVIOUS
<1>1. TypeOK
  BY TypeInit
<1>2. ReservedUnits(job, Today, now) = {}
  BY DEF ReservedUnits, Reserving, Init, AbsentRow
<1>3. Reserved(job, Today, now) = 0
  BY <1>2, FS_EmptySet DEF Reserved
<1>. QED
  BY <1>1, <1>3, TodayInDays, QuotaAssumption DEF QuotaRespected, Init, TypeOK

IInv == TypeOK /\ LeaseShape /\ QuotaRespected

(* No lease is charged to a day to come; all that the quota needs to know  *)
(* of the shape of leases.                                                 *)
LeasesStarted ==
    \A j \in Jobs : job[j].leaseDay # Null => job[j].leaseDay <= Today

(* A lease is charged to a day that has begun. *)
LEMMA ShapeStarts == LeaseShape => LeasesStarted
BY DEF LeaseShape, RowShape, LeasesStarted

(* No operation promises more of a day than its limit. *)
LEMMA QuotaStep ==
    TypeOK /\ LeasesStarted /\ QuotaRespected /\ [Next]_vars => QuotaRespected'
<1>. SUFFICES ASSUME TypeOK, LeasesStarted, QuotaRespected, [Next]_vars
              PROVE  QuotaRespected'
  OBVIOUS
<1>1. /\ TypeOK /\ LeasesStarted /\ QuotaRespected /\ TypeOK'
      /\ now \in Nat /\ Today \in Days /\ Today \in Nat
      /\ usage[Today] \in Nat
      /\ job \in [Jobs -> Row]
  BY TypeStep, TodayInDays, DayBounds, TimeAssumption DEF TypeOK, Today
<1>2. ASSUME now' = now, usage' = usage,
             Reserved(job', Today, now) <= Reserved(job, Today, now)
      PROVE  QuotaRespected'
  <2>1. Today' = Today /\ Reserved(job, Today, now)' = Reserved(job', Today, now)
    BY <1>2 DEF Today, Reserved, ReservedUnits
  <2>2. Reserved(job, Today, now) \in Nat /\ Reserved(job', Today, now) \in Nat
    BY UnitsFinite
  <2>. QED
    BY <1>1, <1>2, <2>1, <2>2, QuotaAssumption DEF QuotaRespected
<1>3. ASSUME now' = now, usage' = usage,
             \A i \in Jobs : Reserving(job'[i], Today, now) =>
                 /\ Reserving(job[i], Today, now)
                 /\ job'[i].allowance = job[i].allowance
      PROVE  QuotaRespected'
  BY <1>2, <1>3, NoMoreReserved
<1>4. ASSUME NEW j \in Jobs, Enqueue(j) PROVE QuotaRespected'
  <2>1. job'[j].state # "leased"
    BY <1>1, <1>4 DEF Enqueue, AbsentRow
  <2>. QED
    BY <1>1, <1>3, <1>4, <2>1 DEF Enqueue, Reserving
<1>5. ASSUME NEW j \in Jobs, RetryFailed(j) PROVE QuotaRespected'
  <2>1. job'[j].state # "leased"
    BY <1>1, <1>5 DEF RetryFailed, Row
  <2>. QED
    BY <1>1, <1>3, <1>5, <2>1 DEF RetryFailed, Reserving
<1>6. ASSUME NEW j \in Jobs, VerifyComplete(j) PROVE QuotaRespected'
  <2>1. job'[j].state # "leased"
    BY <1>1, <1>6 DEF VerifyComplete, Row
  <2>. QED
    BY <1>1, <1>3, <1>6, <2>1 DEF VerifyComplete, Reserving
<1>7. ASSUME NEW j \in Jobs, QueueFallback(j) PROVE QuotaRespected'
  <2>. DEFINE u == Unleased(job[j])
  <2>1. u \in Row
    BY <1>1, UnleasedType
  <2>2. job'[j] = [u EXCEPT !.state = "queued", !.capture = "capture_requested",
                     !.cursor = NoCursor, !.nextRunAt = now]
    BY <1>1, <1>7 DEF QueueFallback
  <2>. HIDE DEF u
  <2>3. job'[j].state # "leased"
    BY <2>1, <2>2 DEF Row
  <2>. QED
    BY <1>1, <1>3, <1>7, <2>3 DEF QueueFallback, Reserving
<1>8. ASSUME NEW j \in Jobs, SetPaused(j) PROVE QuotaRespected'
  BY <1>3, <1>8 DEF SetPaused
<1>9. CASE ClaimDefers
  <2>1. ASSUME NEW i \in Jobs, Reserving(job'[i], Today, now)
        PROVE  job'[i] = Reclaimed[i]
    <3>. DEFINE u == Reclaimed[i]
    <3>1. u \in Row
      BY <1>1, ReclaimedType
    <3>. HIDE DEF u
    <3>2. [u EXCEPT !.state = "deferred", !.nextRunAt = NextReset(Today)].state
            = "deferred"
      BY <3>1 DEF Row
    <3>. QED
      BY <1>9, <2>1, <3>2 DEF ClaimDefers, Reserving, u
  <2>. QED
    BY <1>1, <1>3, <1>9, <2>1, ReclaimedReserves DEF ClaimDefers
<1>10. CASE ClaimFindsNothing
  BY <1>1, <1>2, <1>10, ReclaimedReserves DEF ClaimFindsNothing
<1>11. ASSUME NEW j \in Jobs, NEW cap \in Caps, ClaimGrants(j, cap)
       PROVE  QuotaRespected'
  <2>. DEFINE a == Least(Remaining(Reclaimed), cap)
  <2>1. /\ Remaining(Reclaimed) > 0 /\ Remaining(Reclaimed) \in Nat
        /\ usage[Today] + Reserved(Reclaimed, Today, now) + Remaining(Reclaimed)
             = DailyLimit
    BY <1>1, <1>11, RemainingType DEF ClaimGrants
  <2>2. a \in Nat /\ a <= Remaining(Reclaimed)
    BY <2>1, QuotaAssumption DEF Least
  <2>3. /\ job' = [Reclaimed EXCEPT ![j] = Granted(Reclaimed[j], a)]
        /\ Reclaimed \in [Jobs -> Row] /\ now' = now /\ usage' = usage
    BY <1>1, <1>11, ReclaimedType DEF ClaimGrants
  <2>4. Granted(Reclaimed[j], a).allowance = a
    BY <2>3 DEF Granted, Row
  <2>. HIDE DEF a
  <2>5. ReservedUnits(job', Today, now) \subseteq
            ReservedUnits(Reclaimed, Today, now) \cup Block(j, a)
    <3>. SUFFICES ASSUME NEW i \in Jobs, NEW k \in 1..DailyLimit,
                         Reserving(job'[i], Today, now), k <= job'[i].allowance
                  PROVE  <<i, k>> \in ReservedUnits(Reclaimed, Today, now)
                                        \cup Block(j, a)
      BY DEF ReservedUnits
    <3>1. CASE i = j
      BY <2>2, <2>3, <2>4, <3>1 DEF Block
    <3>2. CASE i # j
      BY <2>3, <3>2 DEF ReservedUnits
    <3>. QED
      BY <3>1, <3>2
  <2>6. Reserved(job', Today, now) <= Reserved(Reclaimed, Today, now) + a
    BY <2>2, <2>5, UnitsAdded
  <2>7. /\ Today' = Today
        /\ Reserved(job, Today, now)' = Reserved(job', Today, now)
        /\ Reserved(job', Today, now) \in Nat
        /\ Reserved(Reclaimed, Today, now) \in Nat
    <3>1. Today' = Today
      BY <2>3 DEF Today
    <3>2. Reserved(job, Today, now)' = Reserved(job', Today, now)
      BY <2>3, <3>1 DEF Reserved, ReservedUnits
    <3>. QED
      BY <3>1, <3>2, UnitsFinite
  <2>. QED
    BY <1>1, <2>1, <2>2, <2>3, <2>6, <2>7, QuotaAssumption DEF QuotaRespected
<1>12. ASSUME NEW s \in Submissions, CompleteBatch(s) PROVE QuotaRespected'
  <2>. DEFINE r == job[s.job]
              a == r.allowance
  <2>1. s.job \in Jobs /\ r \in Row /\ s.count \in Nat /\ a \in 0..DailyLimit
    BY <1>1, QuotaAssumption DEF Submissions, Row
  <2>2. Reserving(r, Today, now) /\ s.count <= a
    BY <1>12, <2>1 DEF CompleteBatch, BatchOutcome, HoldsLease, Reserving
  <2>3. Block(s.job, a) \subseteq ReservedUnits(job, Today, now)
    BY <2>1, <2>2, QuotaAssumption DEF Block, ReservedUnits
  <2>4. /\ now' = now
        /\ usage' = [usage EXCEPT ![Today] = usage[Today] + s.count]
        /\ \A i \in Jobs : i # s.job => job'[i] = job[i]
        /\ job'[s.job].state # "leased"
    BY <1>1, <1>12, <2>1, CommittedShape DEF CompleteBatch
  <2>5. ReservedUnits(job', Today, now) \subseteq
            ReservedUnits(job, Today, now) \ Block(s.job, a)
    <3>. SUFFICES ASSUME NEW i \in Jobs, NEW k \in 1..DailyLimit,
                         Reserving(job'[i], Today, now), k <= job'[i].allowance
                  PROVE  <<i, k>> \in ReservedUnits(job, Today, now)
                                        \ Block(s.job, a)
      BY DEF ReservedUnits
    <3>1. i # s.job
      BY <2>4 DEF Reserving
    <3>. QED
      BY <2>4, <3>1 DEF ReservedUnits, Block
  <2>6. Reserved(job', Today, now) <= Reserved(job, Today, now) - a
    BY <2>1, <2>3, <2>5, UnitsRemoved
  <2>7. /\ Today' = Today
        /\ Reserved(job, Today, now)' = Reserved(job', Today, now)
        /\ Reserved(job', Today, now) \in Nat
        /\ Reserved(job, Today, now) \in Nat
    <3>1. Today' = Today
      BY <2>4 DEF Today
    <3>2. Reserved(job, Today, now)' = Reserved(job', Today, now)
      BY <2>4, <3>1 DEF Reserved, ReservedUnits
    <3>. QED
      BY <3>1, <3>2, UnitsFinite
  <2>8. /\ usage' \in [Days -> Nat]
        /\ usage'[Today] = usage[Today] + s.count
        /\ \A d \in Days : d # Today => usage'[d] = usage[d]
    BY <1>1, <2>1, <2>4 DEF TypeOK
  <2>9. usage[Today] + Reserved(job, Today, now) <= DailyLimit
    BY <1>1 DEF QuotaRespected
  <2>10. usage'[Today] + Reserved(job', Today, now) <= DailyLimit
    BY <1>1, <2>1, <2>2, <2>6, <2>7, <2>8, <2>9, QuotaAssumption
  <2>11. \A d \in Days : usage'[d] <= DailyLimit /\ (d > Today => usage'[d] = 0)
    BY <1>1, <2>7, <2>8, <2>10, QuotaAssumption DEF QuotaRespected, Days
  <2>. QED
    BY <2>7, <2>10, <2>11 DEF QuotaRespected
<1>13. ASSUME NEW j \in Jobs, NEW tok, Fail(j, tok) PROVE QuotaRespected'
  <2>1. job'[j].state # "leased"
    BY <1>1, <1>13, FailedShape DEF Fail
  <2>. QED
    BY <1>1, <1>3, <1>13, <2>1 DEF Fail, Reserving
<1>14. ASSUME NEW j \in Jobs, NEW tok, NEW status \in LeaseStatuses,
              MarkCaptureStatus(j, tok, status)
       PROVE  QuotaRespected'
  BY <1>1, <1>3, <1>14 DEF MarkCaptureStatus, Reserving, Row
<1>15. ASSUME NEW j \in Jobs, NEW tok, NEW status \in LeaseStatuses,
              Renew(j, tok, status)
       PROVE  QuotaRespected'
  BY <1>1, <1>3, <1>15 DEF Renew, HoldsLease, Reserving, Row
<1>16. CASE Tick
  <2>1. now' = now + 1 /\ job' = job /\ usage' = usage
    BY <1>16 DEF Tick
  <2>2. Today' \in Days /\ Today <= Today' /\ Today' = UsageDay(now + 1)
    <3>1. now + 1 \in 0..Horizon /\ now + 1 \in Nat
      BY <1>1, <2>1 DEF TypeOK
    <3>2. Today' = UsageDay(now + 1)
      BY <2>1 DEF Today, UsageDay
    <3>3. UsageDay(now + 1) \in Days
      BY <3>1, DayInDays
    <3>4. UsageDay(now) <= UsageDay(now + 1)
      BY <1>1, <3>1, DayMonotone
    <3>. QED
      BY <3>2, <3>3, <3>4 DEF Today
  <2>3. \A d \in Days : usage[d] <= DailyLimit /\ (d > Today' => usage[d] = 0)
    BY <1>1, <2>2 DEF QuotaRespected, Days
  <2>4. Reserved(job, Today, now)' = Reserved(job, Today', now')
    BY <2>1 DEF Reserved, ReservedUnits
  <2>5. CASE Today' = Today
    <3>1. \A i \in Jobs : Reserving(job[i], Today, now') =>
                             Reserving(job[i], Today, now)
      BY <1>1, <2>1 DEF Reserving, Row
    <3>2. Reserved(job, Today, now') <= Reserved(job, Today, now)
      BY <3>1, NoMoreReserved
    <3>3. Reserved(job, Today, now') \in Nat /\ Reserved(job, Today, now) \in Nat
      BY UnitsFinite
    <3>. QED
      BY <1>1, <2>1, <2>3, <2>4, <2>5, <3>2, <3>3, QuotaAssumption
         DEF QuotaRespected
  <2>6. CASE Today' # Today
    <3>1. Today < Today'
      BY <1>1, <2>2, <2>6 DEF Days
    <3>2. \A i \in Jobs : ~Reserving(job[i], Today', now')
      BY <1>1, <2>2, <3>1, SentinelAssumption DEF Reserving, LeasesStarted, Row, Days
    <3>3. ReservedUnits(job, Today', now') = {}
      BY <3>2 DEF ReservedUnits
    <3>4. Reserved(job, Today', now') = 0
      BY <3>3, FS_EmptySet DEF Reserved
    <3>5. usage[Today'] = 0
      BY <1>1, <2>2, <3>1 DEF QuotaRespected
    <3>. QED
      BY <2>1, <2>3, <2>4, <3>4, <3>5, QuotaAssumption DEF QuotaRespected
  <2>. QED
    BY <2>5, <2>6
<1>17. CASE UNCHANGED vars
  BY <1>3, <1>17 DEF vars
<1>. QED
  BY <1>4, <1>5, <1>6, <1>7, <1>8, <1>9, <1>10, <1>11, <1>12, <1>13, <1>14,
     <1>15, <1>16, <1>17 DEF Next, Claim

-----------------------------------------------------------------------------

(* The three parts of the inductive invariant hold together. *)
LEMMA InvariantHolds == Spec => []IInv
<1>1. Init => IInv
  BY TypeInit, ShapeInit, QuotaInit DEF IInv
<1>2. IInv /\ [Next]_vars => IInv'
  BY TypeStep, ShapeStep, ShapeStarts, QuotaStep DEF IInv
<1>. QED
  BY <1>1, <1>2, PTL DEF Spec

(* Lease columns are set exactly on leased rows, and no lease outlives the *)
(* usage day it reserves, for any lengths of lease and day.                *)
THEOREM LeaseShapeHolds == Spec => []LeaseShape
<1>1. IInv => LeaseShape
  BY DEF IInv
<1>. QED
  BY <1>1, InvariantHolds, PTL

(* For any number of jobs, any daily limit and any requested caps, what is *)
(* downloaded and reserved on a usage day never exceeds the daily limit.   *)
THEOREM QuotaHolds == Spec => []QuotaRespected
<1>1. IInv => QuotaRespected
  BY DEF IInv
<1>. QED
  BY <1>1, InvariantHolds, PTL

-----------------------------------------------------------------------------
(* Steps that record no batch.                                             *)

(* How a row changes when no batch is recorded: counts and cursor do not   *)
(* advance, only a completed row stays completed, and a leased row keeps   *)
(* its token and what was granted with it, or has a token that was never   *)
(* granted before.  A lease is charged to the day it is granted on.        *)
Continues(r, q) ==
    /\ q.downloaded = r.downloaded
    /\ r.attempts <= q.attempts
    /\ q.cursor = r.cursor \/ q.cursor = NoCursor
    /\ q.state = "completed" => r.state = "completed" /\ q.cursor = r.cursor
    /\ q.state = "leased" =>
         \/ /\ r.state = "leased" /\ q.token = r.token
            /\ q.cursor = r.cursor /\ q.allowance = r.allowance
         \/ r.attempts < q.token
    /\ q.leaseDay \in {r.leaseDay, Null, Today}
    /\ q.state = "absent" => q = r

(* A job that was never enqueued has no history. *)
AbsentRows == \A j \in Jobs : job[j].state = "absent" => job[j] = AbsentRow

Quiet ==
    /\ receipts' = receipts
    /\ usage' = usage
    /\ \A j \in Jobs : Continues(job[j], job'[j])

(* Reclaiming an expired lease records nothing. *)
LEMMA ReclaimContinues ==
    ASSUME NEW r \in Row
    PROVE  Continues(r, Reclaim(r)) /\ Reclaim(r).attempts = r.attempts
BY DEF Continues, Reclaim, Unleased, Row

(* One changed row is enough for a quiet step. *)
LEMMA OneRowContinues ==
    ASSUME TypeOK, NEW j \in Jobs, NEW q,
           job' = [job EXCEPT ![j] = q],
           Continues(job[j], q),
           UNCHANGED <<receipts, usage>>
    PROVE  Quiet
<1>1. ASSUME NEW i \in Jobs PROVE Continues(job[i], job[i])
  BY DEF Continues, TypeOK, Row
<1>. QED
  BY <1>1 DEF Quiet, TypeOK

(* Every step of the queue records one batch or continues every row. *)
LEMMA QuietOrBatch ==
    TypeOK /\ AbsentRows /\ [Next]_vars =>
        Quiet \/ \E s \in Submissions : CompleteBatch(s)
<1>. SUFFICES ASSUME TypeOK, AbsentRows, [Next]_vars,
                     ~\E s \in Submissions : CompleteBatch(s)
              PROVE  Quiet
  OBVIOUS
<1>1. \A j \in Jobs : job[j] \in Row
  BY DEF TypeOK
<1>2. ASSUME NEW j \in Jobs, Enqueue(j) PROVE Quiet
  <2>. DEFINE q == [AbsentRow EXCEPT !.state = "queued", !.nextRunAt = now]
  <2>1. job[j] = AbsentRow
    BY <1>2 DEF Enqueue, AbsentRows
  <2>2. Continues(job[j], q)
    BY <2>1, SentinelAssumption DEF Continues, AbsentRow
  <2>3. job' = [job EXCEPT ![j] = q] /\ UNCHANGED <<receipts, usage>>
    BY <1>2 DEF Enqueue
  <2>. HIDE DEF q
  <2>. QED
    BY <2>2, <2>3, OneRowContinues
<1>3. ASSUME NEW j \in Jobs, RetryFailed(j) PROVE Quiet
  <2>. DEFINE q == [job[j] EXCEPT !.state = "queued",
                    !.capture = "capture_requested", !.nextRunAt = now]
  <2>1. Continues(job[j], q)
    BY <1>1 DEF Continues, Row
  <2>2. job' = [job EXCEPT ![j] = q] /\ UNCHANGED <<receipts, usage>>
    BY <1>3 DEF RetryFailed
  <2>. HIDE DEF q
  <2>. QED
    BY <2>1, <2>2, OneRowContinues
<1>4. ASSUME NEW j \in Jobs, VerifyComplete(j) PROVE Quiet
  <2>. DEFINE q == [job[j] EXCEPT !.capture = "verified_complete"]
  <2>1. job[j].state = "completed"
    BY <1>4 DEF VerifyComplete
  <2>2. Continues(job[j], q)
    BY <1>1, <2>1 DEF Continues, Row
  <2>3. job' = [job EXCEPT ![j] = q] /\ UNCHANGED <<receipts, usage>>
    BY <1>4 DEF VerifyComplete
  <2>. HIDE DEF q
  <2>. QED
    BY <2>2, <2>3, OneRowContinues
<1>5. ASSUME NEW j \in Jobs, QueueFallback(j) PROVE Quiet
  <2>. DEFINE q == [Unleased(job[j]) EXCEPT !.state = "queued",
                    !.capture = "capture_requested", !.cursor = NoCursor,
                    !.nextRunAt = now]
  <2>1. Continues(job[j], q)
    BY <1>1 DEF Continues, Unleased, Row
  <2>2. job' = [job EXCEPT ![j] = q] /\ UNCHANGED <<receipts, usage>>
    BY <1>5 DEF QueueFallback
  <2>. HIDE DEF q
  <2>. QED
    BY <2>1, <2>2, OneRowContinues
<1>6. ASSUME NEW j \in Jobs, SetPaused(j) PROVE Quiet
  BY <1>1, <1>6 DEF SetPaused, Quiet, Continues, Row
<1>7. CASE ClaimDefers
  <2>1. ASSUME NEW j \in Jobs PROVE Continues(job[j], job'[j])
    <3>. DEFINE r == Reclaim(job[j])
    <3>1. job[j] \in Row /\ r \in Row /\ Continues(job[j], r)
      BY <1>1, ReclaimContinues, ReclaimedType DEF Reclaimed
    <3>2. \/ job'[j] = r
          \/ /\ r.state \in {"queued", "deferred"}
             /\ job'[j] = [r EXCEPT !.state = "deferred",
                                   !.nextRunAt = NextReset(Today)]
      BY <1>7 DEF ClaimDefers, Reclaimed, Waiting
    <3>. HIDE DEF r
    <3>. QED
      BY <3>1, <3>2 DEF Continues, Row
  <2>. QED
    BY <1>7, <2>1 DEF ClaimDefers, Quiet
<1>8. CASE ClaimFindsNothing
  BY <1>1, <1>8, ReclaimContinues DEF ClaimFindsNothing, Quiet, Reclaimed
<1>9. ASSUME NEW j \in Jobs, NEW cap \in Caps, ClaimGrants(j, cap)
      PROVE  Quiet
  <2>. DEFINE q == Granted(Reclaim(job[j]), Least(Remaining(Reclaimed), cap))
  <2>1. Continues(job[j], q)
    BY <1>1, ReclaimContinues, ReclaimType DEF Continues, Granted, Row
  <2>2. job'[j] = q /\ \A i \in Jobs \ {j} : job'[i] = Reclaim(job[i])
    BY <1>9 DEF ClaimGrants, Reclaimed
  <2>. QED
    BY <1>1, <1>9, <2>1, <2>2, ReclaimContinues DEF ClaimGrants, Quiet
<1>10. ASSUME NEW j \in Jobs, NEW tok, Fail(j, tok) PROVE Quiet
  <2>. DEFINE q == Failed(job[j])
  <2>1. Continues(job[j], q)
    BY <1>1 DEF Continues, Failed, Unleased, Row
  <2>2. job' = [job EXCEPT ![j] = q] /\ UNCHANGED <<receipts, usage>>
    BY <1>10 DEF Fail
  <2>. HIDE DEF q
  <2>. QED
    BY <2>1, <2>2, OneRowContinues
<1>11. ASSUME NEW j \in Jobs, NEW tok, NEW status,
              MarkCaptureStatus(j, tok, status)
       PROVE  Quiet
  <2>. DEFINE q == [job[j] EXCEPT !.capture = status]
  <2>1. job[j].state = "leased"
    BY <1>11 DEF MarkCaptureStatus, HoldsLease
  <2>2. Continues(job[j], q)
    BY <1>1, <2>1 DEF Continues, Row
  <2>3. job' = [job EXCEPT ![j] = q] /\ UNCHANGED <<receipts, usage>>
    BY <1>11 DEF MarkCaptureStatus
  <2>. HIDE DEF q
  <2>. QED
    BY <2>2, <2>3, OneRowContinues
<1>12. ASSUME NEW j \in Jobs, NEW tok, NEW status, Renew(j, tok, status)
       PROVE  Quiet
  <2>. DEFINE q == [job[j] EXCEPT !.capture = status, !.expiresAt = LeaseEnd]
  <2>1. job[j].state = "leased"
    BY <1>12 DEF Renew, HoldsLease
  <2>2. Continues(job[j], q)
    BY <1>1, <2>1 DEF Continues, Row
  <2>3. job' = [job EXCEPT ![j] = q] /\ UNCHANGED <<receipts, usage>>
    BY <1>12 DEF Renew
  <2>. HIDE DEF q
  <2>. QED
    BY <2>2, <2>3, OneRowContinues
<1>13. CASE Tick
  BY <1>1, <1>13 DEF Tick, Quiet, Continues, Row
<1>14. CASE UNCHANGED vars
  BY <1>1, <1>14 DEF vars, Quiet, Continues, Row
<1>. QED
  BY <1>2, <1>3, <1>4, <1>5, <1>6, <1>7, <1>8, <1>9, <1>10, <1>11, <1>12,
     <1>13, <1>14 DEF Next, Claim

-----------------------------------------------------------------------------
(* The step that records a batch.                                          *)

(* What a batch leaves behind in its row. *)
LEMMA CommittedFacts ==
    ASSUME NEW r \in Row, NEW s \in Submissions, NEW used
    PROVE  LET q == Committed(r, s, used)
           IN  /\ q.state \in {"completed", "deferred", "queued"}
               /\ q.state = "completed" => s.done
               /\ q.cursor = s.cursor
               /\ q.attempts = r.attempts
               /\ q.downloaded = r.downloaded + s.count
               /\ q.leaseDay = Null
BY DEF Committed, Unleased, Row

NewReceipt(s) ==
    [batch |-> s.batch, job |-> s.job, token |-> s.token, day |-> Today,
     count |-> s.count, cursor |-> s.cursor, done |-> s.done]

(* An accepted batch is new, comes from the live lease of its job, and     *)
(* changes its own row, today's usage and the receipts only.               *)
LEMMA BatchEffect ==
    ASSUME TypeOK, NEW s \in Submissions, CompleteBatch(s)
    PROVE  /\ s.job \in Jobs /\ s.count \in Nat /\ s.token \in Nat
           /\ \A r \in receipts : r.batch # s.batch
           /\ job[s.job].state = "leased"
           /\ s.token = job[s.job].token
           /\ receipts' = receipts \cup {NewReceipt(s)}
           /\ usage' = [usage EXCEPT ![Today] = @ + s.count]
           /\ \A j \in Jobs \ {s.job} : job'[j] = job[j]
           /\ job'[s.job].state \in {"completed", "deferred", "queued"}
           /\ job'[s.job].state = "completed" => s.done
           /\ job'[s.job].cursor = s.cursor
           /\ job'[s.job].attempts = job[s.job].attempts
           /\ job'[s.job].downloaded = job[s.job].downloaded + s.count
           /\ job'[s.job].leaseDay = Null
<1>1. s.job \in Jobs /\ s.count \in Nat /\ s.token \in Nat
  BY QuotaAssumption, BoundAssumption DEF Submissions
<1>2. job[s.job] \in Row
  BY <1>1 DEF TypeOK
<1>3. ~Seen(s.batch) /\ HoldsLease(job[s.job], s.token)
  BY DEF CompleteBatch, BatchOutcome
<1>4. job' = [job EXCEPT ![s.job] = Committed(job[s.job], s, usage'[Today])]
  BY DEF CompleteBatch
<1>5. job'[s.job] = Committed(job[s.job], s, usage'[Today])
      /\ \A j \in Jobs \ {s.job} : job'[j] = job[j]
  BY <1>1, <1>4 DEF TypeOK
<1>6. /\ job'[s.job].state \in {"completed", "deferred", "queued"}
      /\ job'[s.job].state = "completed" => s.done
      /\ job'[s.job].cursor = s.cursor
      /\ job'[s.job].attempts = job[s.job].attempts
      /\ job'[s.job].downloaded = job[s.job].downloaded + s.count
      /\ job'[s.job].leaseDay = Null
  BY <1>2, <1>5, CommittedFacts
<1>7. /\ receipts' = receipts \cup {NewReceipt(s)}
      /\ usage' = [usage EXCEPT ![Today] = @ + s.count]
  BY DEF CompleteBatch, NewReceipt
<1>. QED
  BY <1>1, <1>3, <1>5, <1>6, <1>7 DEF Seen, HoldsLease

(* Its lease was the last one granted. *)
LEMMA BatchFromLast ==
    ASSUME TypeOK, LeaseShape, NEW s \in Submissions, CompleteBatch(s)
    PROVE  s.token = job[s.job].attempts
BY BatchEffect DEF LeaseShape, RowShape

-----------------------------------------------------------------------------
(* Progress and leases.                                                    *)

(* Receipts name tokens that were granted, and none the live one.          *)
ReceiptTokens ==
    \A r \in receipts :
        /\ r.token <= job[r.job].attempts
        /\ job[r.job].state = "leased" => r.token # job[r.job].token

(* The inductive invariant of the receipts.                                *)
RInv == IInv /\ AbsentRows /\ ReceiptTokens

(* Initially nothing was enqueued and nothing recorded. *)
LEMMA ReceiptInit ==
    Init => AbsentRows /\ ReceiptTokens /\ OneBatchPerLease /\ ProgressIsRecorded
BY DEF Init, AbsentRows, ReceiptTokens, OneBatchPerLease, ProgressIsRecorded,
       AbsentRow

(* No step returns a row to its absent state. *)
LEMMA AbsentStep == TypeOK /\ AbsentRows /\ [Next]_vars => AbsentRows'
<1>. SUFFICES ASSUME TypeOK, AbsentRows, [Next]_vars PROVE AbsentRows'
  OBVIOUS
<1>1. CASE Quiet
  BY <1>1 DEF Quiet, Continues, AbsentRows, AbsentRow
<1>2. ASSUME NEW s \in Submissions, CompleteBatch(s) PROVE AbsentRows'
  <2>1. ASSUME NEW j \in Jobs, job'[j].state = "absent"
        PROVE  job'[j] = AbsentRow
    <3>1. j # s.job /\ job'[j] = job[j]
      BY <1>2, <2>1, BatchEffect
    <3>. QED
      BY <2>1, <3>1 DEF AbsentRows
  <2>. QED
    BY <2>1 DEF AbsentRows, AbsentRow
<1>. QED
  BY <1>1, <1>2, QuietOrBatch

(* A claim grants a token above every receipt's, a batch gives it up. *)
LEMMA TokenStep == RInv /\ [Next]_vars => ReceiptTokens'
<1>. SUFFICES ASSUME RInv, [Next]_vars PROVE ReceiptTokens'
  OBVIOUS
<1>. USE DEF RInv, IInv
<1>1. TypeOK' /\ \A r \in receipts : r \in Receipt
  BY TypeStep DEF TypeOK
<1>2. CASE Quiet
  <2>1. ASSUME NEW r \in receipts
        PROVE  /\ r.token <= job'[r.job].attempts
               /\ job'[r.job].state = "leased" => r.token # job'[r.job].token
    <3>. DEFINE old == job[r.job]
                new == job'[r.job]
    <3>1. r.job \in Jobs /\ r.token \in Nat
      BY <1>1 DEF Receipt
    <3>2. /\ old.attempts \in Nat /\ new.attempts \in Nat
          /\ new.token \in Nat \cup {Null}
      BY <1>1, <3>1 DEF TypeOK, Row
    <3>3. Continues(old, new)
      BY <1>2, <3>1 DEF Quiet
    <3>4. /\ r.token <= old.attempts
          /\ old.state = "leased" => r.token # old.token
      BY DEF ReceiptTokens
    <3>5. new.state = "leased" => new.token # Null
      BY <3>1, ShapeStep DEF LeaseShape, RowShape
    <3>. HIDE DEF old, new
    <3>6. r.token <= new.attempts
      BY <3>1, <3>2, <3>3, <3>4 DEF Continues
    <3>7. ASSUME new.state = "leased", r.token = new.token PROVE FALSE
      <4>1. old.attempts < new.token
        BY <3>3, <3>4, <3>7 DEF Continues
      <4>. QED
        BY <3>1, <3>2, <3>4, <3>7, <4>1
    <3>. QED
      BY <3>6, <3>7 DEF new
  <2>. QED
    BY <1>2, <2>1 DEF ReceiptTokens, Quiet
<1>3. ASSUME NEW s \in Submissions, CompleteBatch(s) PROVE ReceiptTokens'
  <2>1. ASSUME NEW r \in receipts'
        PROVE  /\ r.token <= job'[r.job].attempts
               /\ job'[r.job].state = "leased" => r.token # job'[r.job].token
    <3>1. CASE r = NewReceipt(s)
      <4>1. r.job = s.job /\ r.token = s.token
        BY <3>1 DEF NewReceipt
      <4>. QED
        BY <1>3, <4>1, BatchEffect, BatchFromLast
    <3>2. CASE r \in receipts
      <4>1. r.job \in Jobs
        BY <1>1, <3>2 DEF Receipt
      <4>. QED
        BY <1>3, <3>2, <4>1, BatchEffect DEF ReceiptTokens
    <3>. QED
      BY <1>3, <2>1, <3>1, <3>2, BatchEffect
  <2>. QED
    BY <2>1 DEF ReceiptTokens
<1>. QED
  BY <1>2, <1>3, QuietOrBatch

(* The receipts' invariant holds. *)
LEMMA ReceiptInvariant == Spec => []RInv
<1>1. Init => RInv
  BY TypeInit, ShapeInit, QuotaInit, ReceiptInit DEF RInv, IInv
<1>2. RInv /\ [Next]_vars => RInv'
  BY TypeStep, ShapeStep, ShapeStarts, QuotaStep, AbsentStep, TokenStep DEF RInv, IInv
<1>. QED
  BY <1>1, <1>2, PTL DEF Spec

(* A batch recorded under the live token is the first one. *)
LEMMA OneBatchStep ==
    RInv /\ OneBatchPerLease /\ [Next]_vars => OneBatchPerLease'
<1>. SUFFICES ASSUME RInv, OneBatchPerLease, [Next]_vars
              PROVE  OneBatchPerLease'
  OBVIOUS
<1>. USE DEF RInv, IInv
<1>1. CASE Quiet
  BY <1>1 DEF Quiet, OneBatchPerLease
<1>2. ASSUME NEW s \in Submissions, CompleteBatch(s) PROVE OneBatchPerLease'
  <2>1. receipts' = receipts \cup {NewReceipt(s)}
    BY <1>2, BatchEffect
  <2>2. ASSUME NEW r \in receipts, r.job = s.job, r.token = s.token
        PROVE  FALSE
    BY <1>2, <2>2, BatchEffect DEF ReceiptTokens
  <2>3. NewReceipt(s).job = s.job /\ NewReceipt(s).token = s.token
    BY DEF NewReceipt
  <2>. QED
    BY <2>1, <2>2, <2>3 DEF OneBatchPerLease
<1>. QED
  BY <1>1, <1>2, QuietOrBatch

(* One lease, one batch: for any interleaving of any number of jobs, two   *)
(* receipts of a job never carry the same token.                           *)
THEOREM OneBatchHolds == Spec => []OneBatchPerLease
<1>1. Init => OneBatchPerLease
  BY ReceiptInit
<1>. QED
  BY <1>1, OneBatchStep, ReceiptInvariant, PTL DEF Spec

(* Cursors are moved by recorded batches or back to the start. *)
LEMMA ProgressStep ==
    TypeOK /\ AbsentRows /\ ProgressIsRecorded /\ [Next]_vars => ProgressIsRecorded'
<1>. SUFFICES ASSUME TypeOK, AbsentRows, ProgressIsRecorded, [Next]_vars
              PROVE  ProgressIsRecorded'
  OBVIOUS
<1>1. CASE Quiet
  BY <1>1 DEF Quiet, Continues, ProgressIsRecorded
<1>2. ASSUME NEW s \in Submissions, CompleteBatch(s), NEW j \in Jobs
      PROVE  /\ job'[j].cursor # NoCursor =>
                  \E r \in receipts' : r.job = j /\ r.cursor = job'[j].cursor
             /\ job'[j].state = "completed" =>
                  \E r \in receipts' :
                      r.job = j /\ r.cursor = job'[j].cursor /\ r.done
  <2>1. CASE j = s.job
    <3>1. /\ NewReceipt(s).job = j
          /\ NewReceipt(s).cursor = s.cursor
          /\ NewReceipt(s).done = s.done
      BY <2>1 DEF NewReceipt
    <3>2. /\ NewReceipt(s) \in receipts'
          /\ job'[j].cursor = s.cursor
          /\ job'[j].state = "completed" => s.done
      BY <1>2, <2>1, BatchEffect
    <3>. QED
      BY <3>1, <3>2
  <2>2. CASE j # s.job
    <3>1. job'[j] = job[j] /\ receipts \subseteq receipts'
      BY <1>2, <2>2, BatchEffect
    <3>. QED
      BY <3>1 DEF ProgressIsRecorded
  <2>. QED
    BY <2>1, <2>2
<1>. QED
  BY <1>1, <1>2, QuietOrBatch DEF ProgressIsRecorded

(* A job stands where a recorded batch left it, and is completed only by a *)
(* recorded last batch, for any interleaving of any number of jobs.        *)
THEOREM ProgressHolds == Spec => []ProgressIsRecorded
<1>1. Init => ProgressIsRecorded
  BY ReceiptInit
<1>2. RInv /\ ProgressIsRecorded /\ [Next]_vars => ProgressIsRecorded'
  BY ProgressStep DEF RInv, IInv
<1>. QED
  BY <1>1, <1>2, ReceiptInvariant, PTL DEF Spec

-----------------------------------------------------------------------------
(* Counting the records of receipts.                                       *)

(* A new receipt adds its own records, apart from all the others. *)
LEMMA RecordsAdded ==
    ASSUME NEW S, NEW r, r.count \in Nat,
           IsFiniteSet(RecordsOf(S)), \A q \in S : q.batch # r.batch
    PROVE  /\ IsFiniteSet(RecordsOf(S \cup {r}))
           /\ Cardinality(RecordsOf(S \cup {r})) =
                Cardinality(RecordsOf(S)) + r.count
<1>1. RecordsOf(S \cup {r}) = RecordsOf(S) \cup Block(r.batch, r.count)
  BY DEF RecordsOf, Block
<1>2. RecordsOf(S) \cap Block(r.batch, r.count) = {}
  BY DEF RecordsOf, Block
<1>3. /\ IsFiniteSet(Block(r.batch, r.count))
      /\ Cardinality(Block(r.batch, r.count)) = r.count
  BY BlockSize
<1>4. Cardinality({}) = 0 /\ Cardinality(RecordsOf(S)) \in Nat
  BY FS_EmptySet, FS_CardinalityType
<1>5. /\ IsFiniteSet(RecordsOf(S) \cup Block(r.batch, r.count))
      /\ Cardinality(RecordsOf(S) \cup Block(r.batch, r.count)) =
           Cardinality(RecordsOf(S)) + Cardinality(Block(r.batch, r.count))
             - Cardinality(RecordsOf(S) \cap Block(r.batch, r.count))
  BY <1>3, FS_Union
<1>6. Cardinality(RecordsOf(S) \cap Block(r.batch, r.count)) = 0
  BY <1>2, <1>4
<1>7. Cardinality(RecordsOf(S) \cup Block(r.batch, r.count)) =
        Cardinality(RecordsOf(S)) + r.count
  BY <1>3, <1>4, <1>5, <1>6
<1>. QED
  BY <1>1, <1>5, <1>7

(* The records of some receipts are finitely many if those of all are. *)
LEMMA SomeRecordsFinite ==
    ASSUME NEW S, NEW T, T \subseteq S, IsFiniteSet(RecordsOf(S))
    PROVE  IsFiniteSet(RecordsOf(T))
<1>1. RecordsOf(T) \subseteq RecordsOf(S)
  BY DEF RecordsOf
<1>. QED
  BY <1>1, FS_Subset

RecordsFinite == IsFiniteSet(RecordsOf(receipts))

DayReceipts(d) == {r \in receipts : r.day = d}
JobReceipts(j) == {r \in receipts : r.job = j}

(* A batch adds its records to its day and its job and to no other. *)
LEMMA ChargedStep ==
    TypeOK /\ AbsentRows /\ RecordsFinite /\ ChargedOnce /\ [Next]_vars
        => RecordsFinite' /\ ChargedOnce'
<1>. SUFFICES ASSUME TypeOK, AbsentRows, RecordsFinite, ChargedOnce, [Next]_vars
              PROVE  RecordsFinite' /\ ChargedOnce'
  OBVIOUS
<1>1. CASE Quiet
  <2>1. RecordsFinite'
    BY <1>1 DEF Quiet, RecordsFinite
  <2>2. ASSUME NEW d \in Days
        PROVE  usage'[d] = Cardinality(RecordsOf(DayReceipts(d)'))
    BY <1>1 DEF Quiet, ChargedOnce, DayReceipts
  <2>3. ASSUME NEW j \in Jobs
        PROVE  job'[j].downloaded = Cardinality(RecordsOf(JobReceipts(j)'))
    BY <1>1 DEF Quiet, Continues, ChargedOnce, JobReceipts
  <2>. QED
    BY <2>1, <2>2, <2>3 DEF ChargedOnce, DayReceipts, JobReceipts
<1>2. ASSUME NEW s \in Submissions, CompleteBatch(s)
      PROVE  RecordsFinite' /\ ChargedOnce'
  <2>. DEFINE n == NewReceipt(s)
  <2>1. /\ n.batch = s.batch /\ n.job = s.job /\ n.day = Today
        /\ n.count = s.count
    BY DEF NewReceipt
  <2>2. /\ receipts' = receipts \cup {n}
        /\ n.count \in Nat
        /\ \A r \in receipts : r.batch # n.batch
    BY <1>2, <2>1, BatchEffect
  <2>3. RecordsFinite'
    BY <2>2, RecordsAdded DEF RecordsFinite
  <2>4. ASSUME NEW d \in Days
        PROVE  usage'[d] = Cardinality(RecordsOf(DayReceipts(d)'))
    <3>1. usage[d] = Cardinality(RecordsOf(DayReceipts(d)))
      BY DEF ChargedOnce, DayReceipts
    <3>2. IsFiniteSet(RecordsOf(DayReceipts(d)))
      BY SomeRecordsFinite DEF RecordsFinite, DayReceipts
    <3>3. \A q \in DayReceipts(d) : q.batch # n.batch
      BY <2>2 DEF DayReceipts
    <3>4. CASE d = Today
      <4>1. DayReceipts(d)' = DayReceipts(d) \cup {n}
        BY <2>1, <2>2, <3>4 DEF DayReceipts
      <4>2. usage'[d] = usage[d] + n.count
        BY <1>2, <2>1, <3>4, BatchEffect DEF TypeOK
      <4>. HIDE DEF n
      <4>. QED
        BY <2>2, <3>1, <3>2, <3>3, <4>1, <4>2, RecordsAdded
    <3>5. CASE d # Today
      <4>1. DayReceipts(d)' = DayReceipts(d)
        BY <2>1, <2>2, <3>5 DEF DayReceipts
      <4>2. usage'[d] = usage[d]
        BY <1>2, <3>5, BatchEffect DEF TypeOK
      <4>. QED
        BY <3>1, <4>1, <4>2
    <3>. QED
      BY <3>4, <3>5
  <2>5. ASSUME NEW j \in Jobs
        PROVE  job'[j].downloaded = Cardinality(RecordsOf(JobReceipts(j)'))
    <3>1. job[j].downloaded = Cardinality(RecordsOf(JobReceipts(j)))
      BY DEF ChargedOnce, JobReceipts
    <3>2. IsFiniteSet(RecordsOf(JobReceipts(j)))
      BY SomeRecordsFinite DEF RecordsFinite, JobReceipts
    <3>3. \A q \in JobReceipts(j) : q.batch # n.batch
      BY <2>2 DEF JobReceipts
    <3>4. CASE j = s.job
      <4>1. JobReceipts(j)' = JobReceipts(j) \cup {n}
        BY <2>1, <2>2, <3>4 DEF JobReceipts
      <4>2. job'[j].downloaded = job[j].downloaded + n.count
        BY <1>2, <2>1, <3>4, BatchEffect
      <4>. HIDE DEF n
      <4>. QED
        BY <2>2, <3>1, <3>2, <3>3, <4>1, <4>2, RecordsAdded
    <3>5. CASE j # s.job
      <4>1. JobReceipts(j)' = JobReceipts(j)
        BY <2>1, <2>2, <3>5 DEF JobReceipts
      <4>2. job'[j] = job[j]
        BY <1>2, <3>5, BatchEffect
      <4>. QED
        BY <3>1, <4>1, <4>2
    <3>. QED
      BY <3>4, <3>5
  <2>. QED
    BY <2>3, <2>4, <2>5 DEF ChargedOnce, DayReceipts, JobReceipts
<1>. QED
  BY <1>1, <1>2, QuietOrBatch

(* Nothing is recorded and nothing charged initially. *)
LEMMA ChargedInit == Init => RecordsFinite /\ ChargedOnce
<1>. SUFFICES ASSUME Init PROVE RecordsFinite /\ ChargedOnce
  OBVIOUS
<1>1. \A S \in SUBSET receipts : RecordsOf(S) = {}
  BY DEF Init, RecordsOf
<1>2. IsFiniteSet({}) /\ Cardinality({}) = 0
  BY FS_EmptySet
<1>3. RecordsFinite
  BY <1>1, <1>2 DEF RecordsFinite
<1>4. ChargedOnce
  BY <1>1, <1>2 DEF ChargedOnce, Init, AbsentRow
<1>. QED
  BY <1>3, <1>4

(* Every record is charged once, to the day and the job of its receipt,    *)
(* for any interleaving of submissions, replays and late batches.          *)
THEOREM ChargedOnceHolds == Spec => []ChargedOnce
<1>1. Init => RecordsFinite /\ ChargedOnce
  BY ChargedInit
<1>2. RInv /\ RecordsFinite /\ ChargedOnce /\ [Next]_vars
        => RecordsFinite' /\ ChargedOnce'
  BY ChargedStep DEF RInv, IInv
<1>. QED
  BY <1>1, <1>2, ReceiptInvariant, PTL DEF Spec

(* The counts, the cursors and the completions of all jobs are what the    *)
(* receipts say, whatever interleaves.                                     *)
THEOREM RecordsHold == Spec => []RecordsAgree
<1>1. ChargedOnce /\ ProgressIsRecorded => RecordsAgree
  BY DEF RecordsAgree
<1>. QED
  BY <1>1, ChargedOnceHolds, ProgressHolds, PTL

-----------------------------------------------------------------------------
(* TwillotQueue implements TwillotLease: every step of the queue is a step *)
(* of the lease service or leaves it as it is.                             *)

(* What the lease service sees of a row. *)
Holder(r) == IF Expired(r) THEN Null ELSE r.token

ViewUnchanged(j) ==
    /\ Phase(job[j])' = Phase(job[j])
    /\ Holder(job[j])' = Holder(job[j])
    /\ job'[j].attempts = job[j].attempts
    /\ job'[j].cursor = job[j].cursor

-----------------------------------------------------------------------------
(* The service does not see a step that changes no view and no receipt. *)
LEMMA UnseenStep ==
    ASSUME \A j \in Jobs : ViewUnchanged(j), receipts' = receipts
    PROVE  UNCHANGED Lease!leaseVars
BY DEF ViewUnchanged, Holder, Lease!leaseVars

(* Reclaiming a lease changes only what the row says: it had lapsed. *)
LEMMA ReclaimUnseen ==
    ASSUME NEW r \in Row
    PROVE  /\ Phase(Reclaim(r)) = Phase(r)
           /\ Holder(Reclaim(r)) = Holder(r)
           /\ Reclaim(r).attempts = r.attempts
           /\ Reclaim(r).cursor = r.cursor
           /\ ~Expired(Reclaim(r))
BY DEF Reclaim, Unleased, Phase, Holder, Expired, Row

(* The queue starts as the service does. *)
LEMMA LeaseInitially == Init => Lease!LeaseInit
BY SentinelAssumption
   DEF Init, AbsentRow, Phase, Expired, Lease!LeaseInit

-----------------------------------------------------------------------------
(* Steps the service does not see.                                         *)

(* A job that is not leased shows no holder; a live lease shows its token. *)
LEMMA HolderOf ==
    ASSUME TypeOK, LeaseShape, NEW j \in Jobs
    PROVE  /\ job[j].state # "leased" =>
                ~Expired(job[j]) /\ Holder(job[j]) = Null
           /\ Phase(job[j]) = "leased" <=>
                job[j].state = "leased" /\ ~Expired(job[j])
           /\ Phase(job[j]) = "leased" => Holder(job[j]) = job[j].token
BY DEF LeaseShape, RowShape, Expired, Holder, Phase

(* A change of one row by its live holder that leaves state, token, cursor *)
(* and attempts alone is not seen.                                         *)
LEMMA HolderUnseen ==
    ASSUME TypeOK, NEW j \in Jobs, NEW q,
           job[j].state = "leased", ~Expired(job[j]),
           q.state = "leased", q.token = job[j].token,
           q.attempts = job[j].attempts, q.cursor = job[j].cursor,
           ~(q.expiresAt # Null /\ q.expiresAt <= now),
           job' = [job EXCEPT ![j] = q], now' = now, receipts' = receipts
    PROVE  UNCHANGED Lease!leaseVars
<1>1. job'[j] = q /\ \A i \in Jobs \ {j} : job'[i] = job[i]
  BY DEF TypeOK
<1>2. ViewUnchanged(j)
  BY <1>1 DEF ViewUnchanged, Phase, Holder, Expired
<1>3. ASSUME NEW i \in Jobs \ {j} PROVE ViewUnchanged(i)
  BY <1>1 DEF ViewUnchanged, Phase, Holder, Expired
<1>. QED
  BY <1>2, <1>3, UnseenStep

(* Claims that grant nothing. *)
LEMMA FruitlessClaim ==
    ASSUME TypeOK, LeaseShape, ClaimDefers \/ ClaimFindsNothing
    PROVE  UNCHANGED Lease!leaseVars
<1>1. receipts' = receipts /\ now' = now
  BY DEF ClaimDefers, ClaimFindsNothing
<1>2. ASSUME NEW j \in Jobs PROVE ViewUnchanged(j)
  <2>. DEFINE r == Reclaim(job[j])
  <2>1. job[j] \in Row /\ r \in Row
    BY ReclaimType DEF TypeOK
  <2>2. /\ Phase(r) = Phase(job[j]) /\ Holder(r) = Holder(job[j])
        /\ r.attempts = job[j].attempts /\ r.cursor = job[j].cursor
    BY <2>1, ReclaimUnseen
  <2>3. \/ job'[j] = r
        \/ /\ r.state \in {"queued", "deferred"}
           /\ job'[j] = [r EXCEPT !.state = "deferred",
                                 !.nextRunAt = NextReset(Today)]
    BY DEF ClaimDefers, ClaimFindsNothing, Reclaimed, Waiting
  <2>. HIDE DEF r
  <2>4. CASE job'[j] = r
    BY <1>1, <2>2, <2>4 DEF ViewUnchanged, Phase, Holder, Expired
  <2>5. CASE /\ r.state \in {"queued", "deferred"}
             /\ job'[j] = [r EXCEPT !.state = "deferred",
                                   !.nextRunAt = NextReset(Today)]
    <3>1. /\ job'[j].state = "deferred" /\ job'[j].token = r.token
          /\ job'[j].attempts = r.attempts /\ job'[j].cursor = r.cursor
      BY <2>1, <2>5 DEF Row
    <3>2. Phase(r) = "open" /\ Holder(r) = r.token
      BY <2>5 DEF Phase, Holder, Expired
    <3>3. Phase(job[j])' = "open" /\ Holder(job[j])' = job'[j].token
      BY <3>1 DEF Phase, Holder, Expired
    <3>. QED
      BY <2>2, <3>1, <3>2, <3>3 DEF ViewUnchanged
  <2>. QED
    BY <2>3, <2>4, <2>5
<1>. QED
  BY <1>1, <1>2, UnseenStep

-----------------------------------------------------------------------------
(* Steps the service sees.                                                 *)

(* A claim grants one lease, even if it reclaims others on the way. *)
LEMMA GrantSeen ==
    ASSUME TypeOK, LeaseShape, NEW j \in Jobs, NEW cap \in Caps,
           ClaimGrants(j, cap)
    PROVE  Lease!Grant(j)
<1>. DEFINE q == Granted(Reclaim(job[j]), Least(Remaining(Reclaimed), cap))
<1>1. /\ job'[j] = q
      /\ \A i \in Jobs \ {j} : job'[i] = Reclaim(job[i])
      /\ now' = now /\ receipts' = receipts
  BY DEF ClaimGrants, Reclaimed
<1>2. \A i \in Jobs : job[i] \in Row /\ Reclaim(job[i]) \in Row
  BY ReclaimType DEF TypeOK
<1>3. Phase(job[j]) = "open"
  <2>1. Reclaim(job[j]).state \in {"queued", "deferred"}
    BY DEF ClaimGrants, NextInLine, Eligible, Waiting, Reclaimed
  <2>2. Phase(Reclaim(job[j])) = "open"
    BY <2>1 DEF Phase
  <2>. QED
    BY <1>2, <2>2, ReclaimUnseen
<1>4. /\ q.state = "leased" /\ q.token = job[j].attempts + 1
      /\ q.attempts = job[j].attempts + 1 /\ q.cursor = job[j].cursor
      /\ q.expiresAt = LeaseEnd
  BY <1>2, ReclaimUnseen DEF Granted, Row
<1>5. now \in Nat /\ LeaseEnd \in Nat /\ now < LeaseEnd
  BY LeaseEndAhead, TimeAssumption DEF TypeOK
<1>6. Phase(job[j])' = "leased" /\ Holder(job[j])' = job[j].attempts + 1
  BY <1>1, <1>4, <1>5 DEF Phase, Holder, Expired
<1>7. ASSUME NEW i \in Jobs \ {j} PROVE ViewUnchanged(i)
  <2>1. /\ Phase(Reclaim(job[i])) = Phase(job[i])
        /\ Holder(Reclaim(job[i])) = Holder(job[i])
        /\ Reclaim(job[i]).attempts = job[i].attempts
        /\ Reclaim(job[i]).cursor = job[i].cursor
    BY <1>2, ReclaimUnseen
  <2>2. Phase(job[i])' = Phase(Reclaim(job[i]))
        /\ Holder(job[i])' = Holder(Reclaim(job[i]))
    BY <1>1 DEF Phase, Holder, Expired
  <2>. QED
    BY <1>1, <2>1, <2>2 DEF ViewUnchanged
<1>. HIDE DEF q
<1>. QED
  BY <1>1, <1>3, <1>4, <1>6, <1>7 DEF Lease!Grant, ViewUnchanged, Holder

(* The rows beside the one that changes look as before. *)
LEMMA OthersUnseen ==
    ASSUME TypeOK, NEW j \in Jobs, NEW q,
           job' = [job EXCEPT ![j] = q], now' = now
    PROVE  job'[j] = q /\ \A i \in Jobs \ {j} : ViewUnchanged(i)
<1>1. job'[j] = q /\ \A i \in Jobs \ {j} : job'[i] = job[i]
  BY DEF TypeOK
<1>. QED
  BY <1>1 DEF ViewUnchanged, Phase, Holder, Expired

(* An accepted batch is applied by the holder, who gives the lease up. *)
LEMMA BatchSeen ==
    ASSUME TypeOK, LeaseShape, NEW s \in Submissions, CompleteBatch(s)
    PROVE  Lease!Apply(s.job, s.batch, s.cursor, s.done)
<1>. DEFINE j == s.job
            q == Committed(job[j], s, usage'[Today])
            n == NewReceipt(s)
<1>1. /\ j \in Jobs /\ job[j] \in Row
      /\ job[j].state = "leased" /\ s.token = job[j].token
      /\ \A r \in receipts : r.batch # s.batch
      /\ receipts' = receipts \cup {n}
  BY BatchEffect DEF TypeOK
<1>2. now' = now /\ job' = [job EXCEPT ![j] = q]
  BY DEF CompleteBatch
<1>3. job'[j] = q /\ \A i \in Jobs \ {j} : ViewUnchanged(i)
  BY <1>1, <1>2, OthersUnseen
<1>4. /\ q.state \in {"completed", "deferred", "queued"}
      /\ q.state = "completed" <=> s.done
      /\ q.token = Null /\ q.cursor = s.cursor
      /\ q.attempts = job[j].attempts
  BY <1>1 DEF Committed, Unleased, Row
<1>5. Phase(job[j]) = "leased" /\ Holder(job[j]) = s.token
  <2>1. HoldsLease(job[j], s.token)
    BY DEF CompleteBatch, BatchOutcome
  <2>2. now \in Nat /\ job[j].expiresAt \in Nat \cup {Null}
    BY <1>1, TimeAssumption DEF TypeOK, Row
  <2>. QED
    BY <2>1, <2>2 DEF HoldsLease, Phase, Holder, Expired
<1>6. Phase(job[j])' = (IF s.done THEN "completed" ELSE "open")
  BY <1>3, <1>4 DEF Phase, Expired
<1>7. Holder(job[j])' = Null
  BY <1>3, <1>4 DEF Holder, Expired
<1>8. /\ n.batch = s.batch /\ n.job = j /\ n.token = s.token
      /\ n.cursor = s.cursor /\ n.done = s.done
  BY DEF NewReceipt
<1>. DEFINE Told(R) == {[batch |-> r.batch, job |-> r.job, token |-> r.token,
                         cursor |-> r.cursor, done |-> r.done] : r \in R}
<1>9. Told(receipts') = Told(receipts) \cup
        {[batch |-> s.batch, job |-> j, token |-> s.token,
          cursor |-> s.cursor, done |-> s.done]}
  BY <1>1, <1>8
<1>10. \A r \in Told(receipts) : r.batch # s.batch
  BY <1>1
<1>. HIDE DEF q, n
<1>. QED
  BY <1>1, <1>3, <1>4, <1>5, <1>6, <1>7, <1>9, <1>10
     DEF Lease!Apply, ViewUnchanged, Holder

(* The holder gives up. *)
LEMMA FailSeen ==
    ASSUME TypeOK, NEW j \in Jobs, NEW tok, Fail(j, tok)
    PROVE  Lease!GiveUp(j)
<1>1. job' = [job EXCEPT ![j] = Failed(job[j])] /\ now' = now
  BY DEF Fail
<1>2. job'[j] = Failed(job[j]) /\ \A i \in Jobs \ {j} : ViewUnchanged(i)
  BY <1>1, OthersUnseen
<1>3. /\ Failed(job[j]).state = "failed" /\ Failed(job[j]).token = Null
      /\ Failed(job[j]).attempts = job[j].attempts
      /\ Failed(job[j]).cursor = job[j].cursor
  BY DEF Failed, Unleased, TypeOK, Row
<1>4. Phase(job[j]) = "leased"
  <2>1. now \in Nat /\ job[j].expiresAt \in Nat \cup {Null}
    BY TimeAssumption DEF TypeOK, Row
  <2>. QED
    BY <2>1 DEF Fail, HoldsLease, Phase, Expired
<1>5. Phase(job[j])' = "failed" /\ Holder(job[j])' = Null
  BY <1>2, <1>3 DEF Phase, Holder, Expired
<1>6. receipts' = receipts
  BY DEF Fail
<1>. QED
  BY <1>2, <1>3, <1>4, <1>5, <1>6 DEF Lease!GiveUp, ViewUnchanged, Holder

(* The clock lets the leases lapse whose end it reaches. *)
LEMMA TickSeen ==
    ASSUME TypeOK, LeaseShape, Tick
    PROVE  \E S \in SUBSET Jobs : Lease!Lapse(S)
<1>. DEFINE S == {j \in Jobs : /\ job[j].state = "leased" /\ ~Expired(job[j])
                               /\ job[j].expiresAt # Null
                               /\ job[j].expiresAt <= now + 1}
<1>1. now' = now + 1 /\ job' = job /\ receipts' = receipts /\ now \in Nat
  BY TimeAssumption DEF Tick, TypeOK
<1>2. \A j \in Jobs : job[j].expiresAt \in Nat \cup {Null}
  BY DEF TypeOK, Row
<1>3. ASSUME NEW j \in S
      PROVE  /\ Phase(job[j]) = "leased"
             /\ Phase(job[j])' = "open" /\ Holder(job[j])' = Null
  BY <1>1 DEF Phase, Holder, Expired
<1>4. ASSUME NEW j \in Jobs \ S PROVE ViewUnchanged(j)
  <2>1. Expired(job[j])' = Expired(job[j])
    BY <1>1, <1>2 DEF Expired
  <2>. QED
    BY <1>1, <2>1 DEF ViewUnchanged, Phase, Holder
<1>5. \A j \in Jobs : job'[j].attempts = job[j].attempts
                     /\ job'[j].cursor = job[j].cursor
  BY <1>1
<1>6. S \in SUBSET Jobs
  OBVIOUS
<1>. HIDE DEF S
<1>7. SUFFICES Lease!Lapse(S)
  BY <1>6 DEF Lease!Lapse
<1>. QED
  BY <1>1, <1>3, <1>4, <1>5, <1>6 DEF Lease!Lapse, ViewUnchanged, Holder

-----------------------------------------------------------------------------
(* Every step of the queue is a step of the lease service or unseen. *)
LEMMA StepSeen ==
    TypeOK /\ LeaseShape /\ AbsentRows /\ [Next]_vars
        => [Lease!LeaseNext]_(Lease!leaseVars)
<1>. SUFFICES ASSUME TypeOK, LeaseShape, AbsentRows, [Next]_vars
              PROVE  Lease!LeaseNext \/ UNCHANGED Lease!leaseVars
  OBVIOUS
<1>0. \A j \in Jobs : job[j] \in Row
  BY DEF TypeOK
<1>1. ASSUME NEW j \in Jobs, Enqueue(j) PROVE Lease!Open(j)
  <2>. DEFINE q == [AbsentRow EXCEPT !.state = "queued", !.nextRunAt = now]
  <2>1. /\ job[j] = AbsentRow /\ job' = [job EXCEPT ![j] = q]
        /\ now' = now /\ receipts' = receipts
    BY <1>1 DEF Enqueue, AbsentRows
  <2>2. job'[j] = q /\ \A i \in Jobs \ {j} : ViewUnchanged(i)
    BY <2>1, OthersUnseen
  <2>3. /\ job[j].state = "absent" /\ job[j].token = Null
        /\ q.state = "queued" /\ q.token = Null
        /\ q.attempts = job[j].attempts /\ q.cursor = job[j].cursor
    BY <2>1 DEF AbsentRow
  <2>. HIDE DEF q
  <2>4. /\ Phase(job[j]) = "absent" /\ Holder(job[j]) = Null
        /\ Phase(job[j])' = "open" /\ Holder(job[j])' = Null
    BY <2>2, <2>3 DEF Phase, Holder, Expired
  <2>5. /\ receipts' = receipts /\ Holder(job[j])' = Holder(job[j])
        /\ job'[j].attempts = job[j].attempts
        /\ job'[j].cursor = job[j].cursor
    BY <2>1, <2>2, <2>3, <2>4
  <2>. QED
    BY <2>2, <2>4, <2>5 DEF Lease!Open, ViewUnchanged, Holder
<1>2. ASSUME NEW j \in Jobs, RetryFailed(j) PROVE Lease!Reopen(j)
  <2>. DEFINE q == [job[j] EXCEPT !.state = "queued",
                      !.capture = "capture_requested", !.nextRunAt = now]
  <2>1. /\ job[j].state = "failed" /\ job' = [job EXCEPT ![j] = q]
        /\ now' = now /\ receipts' = receipts
    BY <1>2 DEF RetryFailed
  <2>2. job'[j] = q /\ \A i \in Jobs \ {j} : ViewUnchanged(i)
    BY <2>1, OthersUnseen
  <2>3. /\ q.state = "queued" /\ q.token = job[j].token
        /\ q.attempts = job[j].attempts /\ q.cursor = job[j].cursor
    BY <1>0 DEF Row
  <2>. HIDE DEF q
  <2>4. /\ Phase(job[j]) = "failed" /\ Phase(job[j])' = "open"
        /\ Holder(job[j])' = Holder(job[j])
    BY <2>1, <2>2, <2>3 DEF Phase, Holder, Expired
  <2>5. /\ receipts' = receipts
        /\ job'[j].attempts = job[j].attempts
        /\ job'[j].cursor = job[j].cursor
    BY <2>1, <2>2, <2>3
  <2>. QED
    BY <2>2, <2>4, <2>5 DEF Lease!Reopen, ViewUnchanged, Holder
<1>3. ASSUME NEW j \in Jobs, VerifyComplete(j)
      PROVE  UNCHANGED Lease!leaseVars
  <2>. DEFINE q == [job[j] EXCEPT !.capture = "verified_complete"]
  <2>1. /\ job[j].state = "completed" /\ job' = [job EXCEPT ![j] = q]
        /\ now' = now /\ receipts' = receipts
    BY <1>3 DEF VerifyComplete
  <2>2. job'[j] = q /\ \A i \in Jobs \ {j} : ViewUnchanged(i)
    BY <2>1, OthersUnseen
  <2>3. /\ q.state = job[j].state /\ q.token = job[j].token
        /\ q.attempts = job[j].attempts /\ q.cursor = job[j].cursor
    BY <1>0 DEF Row
  <2>. HIDE DEF q
  <2>4. ViewUnchanged(j)
    BY <2>1, <2>2, <2>3 DEF ViewUnchanged, Phase, Holder, Expired
  <2>. QED
    BY <2>1, <2>2, <2>4, UnseenStep
<1>4. ASSUME NEW j \in Jobs, QueueFallback(j) PROVE Lease!Restart(j)
  <2>. DEFINE q == [Unleased(job[j]) EXCEPT !.state = "queued",
                      !.capture = "capture_requested", !.cursor = NoCursor,
                      !.nextRunAt = now]
  <2>1. /\ job[j].state \in {"completed", "failed"}
        /\ job' = [job EXCEPT ![j] = q] /\ now' = now /\ receipts' = receipts
    BY <1>4 DEF QueueFallback
  <2>2. job'[j] = q /\ \A i \in Jobs \ {j} : ViewUnchanged(i)
    BY <2>1, OthersUnseen
  <2>3. /\ q.state = "queued" /\ q.token = Null
        /\ q.attempts = job[j].attempts /\ q.cursor = NoCursor
    BY <1>0 DEF Unleased, Row
  <2>. HIDE DEF q
  <2>4. /\ Phase(job[j]) \in {"completed", "failed"}
        /\ Phase(job[j])' = "open" /\ Holder(job[j])' = Null
    BY <2>1, <2>2, <2>3 DEF Phase, Holder, Expired
  <2>5. Holder(job[j]) = Null
    BY <2>1, HolderOf
  <2>6. /\ receipts' = receipts /\ Holder(job[j])' = Holder(job[j])
        /\ job'[j].attempts = job[j].attempts
        /\ job'[j].cursor = NoCursor
    BY <2>1, <2>2, <2>3, <2>4, <2>5
  <2>. QED
    BY <2>2, <2>4, <2>6 DEF Lease!Restart, ViewUnchanged, Holder
<1>5. ASSUME NEW j \in Jobs, SetPaused(j) PROVE UNCHANGED Lease!leaseVars
  <2>1. ASSUME NEW i \in Jobs PROVE ViewUnchanged(i)
    BY <1>5 DEF SetPaused, ViewUnchanged, Phase, Holder, Expired
  <2>. QED
    BY <1>5, <2>1, UnseenStep DEF SetPaused
<1>6. ASSUME NEW j \in Jobs, NEW tok, NEW status,
             MarkCaptureStatus(j, tok, status) \/ Renew(j, tok, status)
      PROVE  UNCHANGED Lease!leaseVars
  <2>1. /\ job[j].state = "leased" /\ job[j].expiresAt # Null
        /\ now < job[j].expiresAt /\ now' = now /\ receipts' = receipts
    BY <1>6 DEF MarkCaptureStatus, Renew, HoldsLease
  <2>2. /\ now \in Nat /\ job[j].expiresAt \in Nat
        /\ LeaseEnd \in Nat /\ now < LeaseEnd
    BY <1>0, <2>1, LeaseEndAhead, TimeAssumption DEF TypeOK, Row
  <2>3. ~Expired(job[j])
    BY <2>1, <2>2 DEF Expired
  <2>4. CASE MarkCaptureStatus(j, tok, status)
    <3>. DEFINE q == [job[j] EXCEPT !.capture = status]
    <3>1. job' = [job EXCEPT ![j] = q]
      BY <2>4 DEF MarkCaptureStatus
    <3>2. /\ q.state = job[j].state /\ q.token = job[j].token
          /\ q.attempts = job[j].attempts /\ q.cursor = job[j].cursor
          /\ q.expiresAt = job[j].expiresAt
      BY <1>0 DEF Row
    <3>. HIDE DEF q
    <3>3. ~(q.expiresAt # Null /\ q.expiresAt <= now)
      BY <2>1, <2>2, <3>2
    <3>4. q.state = "leased"
      BY <2>1, <3>2
    <3>. QED
      BY <2>1, <2>3, <3>1, <3>2, <3>3, <3>4, HolderUnseen
  <2>5. CASE Renew(j, tok, status)
    <3>. DEFINE q == [job[j] EXCEPT !.capture = status, !.expiresAt = LeaseEnd]
    <3>1. job' = [job EXCEPT ![j] = q]
      BY <2>5 DEF Renew
    <3>2. /\ q.state = job[j].state /\ q.token = job[j].token
          /\ q.attempts = job[j].attempts /\ q.cursor = job[j].cursor
          /\ q.expiresAt = LeaseEnd
      BY <1>0 DEF Row
    <3>. HIDE DEF q
    <3>3. ~(q.expiresAt # Null /\ q.expiresAt <= now)
      BY <2>1, <2>2, <3>2
    <3>4. q.state = "leased"
      BY <2>1, <3>2
    <3>. QED
      BY <2>1, <2>3, <3>1, <3>2, <3>3, <3>4, HolderUnseen
  <2>. QED
    BY <1>6, <2>4, <2>5
<1>7. ASSUME NEW s \in Submissions, CompleteBatch(s) PROVE Lease!LeaseNext
  <2>1. /\ s.job \in Jobs /\ s.batch \in Batches
        /\ s.cursor \in Cursors \cup {NoCursor} /\ s.done \in BOOLEAN
    BY DEF Submissions
  <2>. QED
    BY <1>7, <2>1, BatchSeen DEF Lease!LeaseNext
<1>8. CASE UNCHANGED vars
  <2>1. ASSUME NEW i \in Jobs PROVE ViewUnchanged(i)
    BY <1>8 DEF vars, ViewUnchanged, Phase, Holder, Expired
  <2>. QED
    BY <1>8, <2>1, UnseenStep DEF vars
<1>9. CASE Claim
  BY <1>9, FruitlessClaim, GrantSeen DEF Claim, Lease!LeaseNext
<1>10. ASSUME NEW j \in Jobs, NEW tok, Fail(j, tok) PROVE Lease!LeaseNext
  BY <1>10, FailSeen DEF Lease!LeaseNext
<1>11. CASE Tick
  BY <1>11, TickSeen DEF Lease!LeaseNext
<1>12. ASSUME NEW j \in Jobs,
              Enqueue(j) \/ RetryFailed(j) \/ QueueFallback(j)
       PROVE  Lease!LeaseNext
  BY <1>1, <1>2, <1>4, <1>12 DEF Lease!LeaseNext
<1>. QED
  BY <1>3, <1>5, <1>6, <1>7, <1>8, <1>9, <1>10, <1>11, <1>12 DEF Next

(* The queue implements the lease service, for every value of its          *)
(* constants: no interleaving of claims, renewals, batches, lapses and     *)
(* restarts shows a companion anything but a lease that one holder has     *)
(* and that moves the cursor once.                                         *)
THEOREM LeaseImplemented == Spec => ImplementsLease
<1>1. RInv => TypeOK /\ LeaseShape /\ AbsentRows
  BY DEF RInv, IInv
<1>. QED
  BY <1>1, LeaseInitially, StepSeen, ReceiptInvariant, PTL
     DEF Spec, ImplementsLease, Lease!LeaseSpec
=============================================================================
