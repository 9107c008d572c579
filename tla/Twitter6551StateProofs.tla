----------------------- MODULE Twitter6551StateProofs -----------------------
(***************************************************************************)
(* Proofs about Twitter6551State for every number of clients and accounts, *)
(* every budget, threshold, interval and cooldown.                         *)
(***************************************************************************)
EXTENDS Twitter6551State, FiniteSetTheorems, TLAPS

-----------------------------------------------------------------------------
(* What the operations make of rows.                                       *)

(* The clock stands on a known day. *)
LEMMA TodayKnown == ASSUME NEW t \in Time PROVE DayOf(t) \in Days
BY DEF Days

(* A day's count is a number, and a known row may be written back. *)
LEMMA UsageTyped ==
    ASSUME TypeOK, NEW d \in Days
    PROVE  /\ Attempts(d) \in Nat
           /\ UsageKnown(d) => PromotedUsage(d) \in [Days -> Nat \cup {NoRow}]
<1>1. StoredUsage(d) \in Nat \cup {NoRow, Corrupt}
  BY DEF TypeOK, StoredUsage
<1>2. NoRow # Corrupt /\ NoRow \notin Int /\ Corrupt \notin Int
  BY StateAssumption
<1>. QED
  BY <1>1, <1>2 DEF Attempts, UsageKnown, PromotedUsage, TypeOK

(* The stored row, its promotion and the state under a scope have their types. *)
LEMMA FallbackTyped ==
    ASSUME TypeOK, NEW a \in Accounts, NEW s \in Scopes
    PROVE  /\ StoredFallback(a) \in FallbackRow \cup {NoRow, Corrupt}
           /\ Promoted(a) \in [Accounts -> FallbackRow \cup {NoRow}]
           /\ CurrentState(a, s) \in FallbackRow
<1>1. StoredFallback(a) \in FallbackRow \cup {NoRow, Corrupt}
  BY DEF TypeOK, StoredFallback
<1>2. NoRow # Corrupt /\ NoRow \notin FallbackRow /\ Corrupt \notin FallbackRow
  BY StateAssumption
<1>3. Promoted(a) \in [Accounts -> FallbackRow \cup {NoRow}]
  BY <1>1, <1>2 DEF Promoted, FallbackKnown, TypeOK
<1>4. CurrentState(a, s) \in FallbackRow
  <2>1. CASE StoredFallback(a) \in {NoRow, Corrupt}
    BY <2>1 DEF CurrentState, FallbackRow
  <2>2. CASE StoredFallback(a) \in FallbackRow
    BY <2>2, <1>2 DEF CurrentState, FallbackRow
  <2>. QED
    BY <1>1, <2>1, <2>2
<1>. QED
  BY <1>1, <1>3, <1>4

(* What the three writes make of a state. *)
LEMMA WritesTyped ==
    ASSUME NEW r \in FallbackRow, NEW t \in Time
    PROVE  /\ AfterFailure(r, t) \in FallbackRow
           /\ AfterSuccess(r) \in FallbackRow
           /\ AfterClaim(r, t) \in FallbackRow
<1>1. r.fails \in Nat /\ r.fails + 1 \in Nat
  BY DEF FallbackRow
<1>2. AfterFailure(r, t) \in FallbackRow
  <2>1. CASE Counts(r, t)
    BY <1>1, <2>1 DEF AfterFailure, FallbackRow
  <2>2. CASE ~Counts(r, t)
    BY <2>2 DEF AfterFailure
  <2>. QED
    BY <2>1, <2>2
<1>3. AfterSuccess(r) \in FallbackRow
  BY DEF AfterSuccess, FallbackRow
<1>4. AfterClaim(r, t) \in FallbackRow
  BY DEF AfterClaim, FallbackRow
<1>. QED
  BY <1>2, <1>3, <1>4

-----------------------------------------------------------------------------
(* Every step leaves an account's row alone, or records a success, or      *)
(* records a failure at a time that is not in the future, or claims.       *)

Kept(a) ==
    StoredFallback(a)' = StoredFallback(a) /\ since'[a] = since[a]

Succeeded(a) ==
    \E s \in Scopes :
        StoredFallback(a)' = AfterSuccess(CurrentState(a, s)) /\ since'[a] = NoTime

Failed(a) ==
    \E t \in Time :
        /\ t <= now
        /\ StoredFallback(a)' = AfterFailure(CurrentState(a, scope[a]), t)
        /\ since'[a] = OutageStart(a, t)

Claimed(a) ==
    \E t \in Time :
        /\ MayClaim(CurrentState(a, scope[a]), t)
        /\ StoredFallback(a)' = AfterClaim(CurrentState(a, scope[a]), t)
        /\ since'[a] = NoTime

(* A row that is written is read back; the others stay. *)
LEMMA RowWritten ==
    ASSUME TypeOK, NEW a \in Accounts, NEW b \in Accounts, NEW row,
           row \in FallbackRow, fallback' = [fallback EXCEPT ![a] = row],
           UNCHANGED legacyFallback
    PROVE  StoredFallback(b)' = IF b = a THEN row ELSE StoredFallback(b)
BY StateAssumption DEF TypeOK, StoredFallback

(* Promotion changes no row that is read. *)
LEMMA PromotionReads ==
    ASSUME TypeOK, NEW a \in Accounts, NEW b \in Accounts,
           fallback' = Promoted(a), UNCHANGED legacyFallback
    PROVE  StoredFallback(b)' = StoredFallback(b)
BY StateAssumption DEF TypeOK, StoredFallback, Promoted, FallbackKnown

(* The rounds' captured times are never in the future. *)
CapturedBefore == \A w \in Workers : at[w] <= now

(* A recorded failure is one of its account, or changes nothing. *)
LEMMA FailureStep ==
    ASSUME TypeOK, NEW w \in Workers, NEW t \in Time, t <= now, NEW next \in PCs,
           RecordFailure(w, t, next), NEW b \in Accounts
    PROVE  Kept(b) \/ Failed(b)
<1> DEFINE a == acc[w]
<1>1. a \in Accounts /\ scope[a] \in Scopes
  BY DEF TypeOK
<1>2. CASE FallbackKnown(a)
  <2> DEFINE row == AfterFailure(CurrentState(a, scope[a]), t)
  <2>1. /\ row \in FallbackRow /\ UNCHANGED legacyFallback
        /\ fallback' = [fallback EXCEPT ![a] = row]
        /\ since' = [since EXCEPT ![a] = OutageStart(a, t)]
    BY <1>1, <1>2, FallbackTyped, WritesTyped DEF RecordFailure
  <2>2. StoredFallback(b)' = IF b = a THEN row ELSE StoredFallback(b)
    BY <1>1, <2>1, RowWritten
  <2>3. since'[b] = IF b = a THEN OutageStart(a, t) ELSE since[b]
    BY <1>1, <2>1 DEF TypeOK
  <2>. QED
    BY <2>2, <2>3 DEF Kept, Failed
<1>3. CASE ~FallbackKnown(a)
  BY <1>3 DEF RecordFailure, Kept, StoredFallback
<1>. QED
  BY <1>2, <1>3

(* A claim of the paid fallback is its account's, or changes nothing. *)
LEMMA ClaimStep ==
    ASSUME TypeOK, NEW w \in Workers, NEW t \in Time, NEW next \in PCs,
           ClaimFallback(w, t, next), NEW b \in Accounts
    PROVE  Kept(b) \/ Claimed(b)
<1> DEFINE a == acc[w]
           state == CurrentState(a, scope[a])
<1>1. a \in Accounts /\ scope[a] \in Scopes
  BY DEF TypeOK
<1>2. CASE FallbackKnown(a) /\ MayClaim(state, t)
  <2> DEFINE row == AfterClaim(state, t)
  <2>1. /\ row \in FallbackRow /\ UNCHANGED legacyFallback
        /\ fallback' = [fallback EXCEPT ![a] = row]
        /\ since' = [since EXCEPT ![a] = NoTime]
    BY <1>1, <1>2, FallbackTyped, WritesTyped DEF ClaimFallback
  <2>2. StoredFallback(b)' = IF b = a THEN row ELSE StoredFallback(b)
    BY <1>1, <2>1, RowWritten
  <2>3. since'[b] = IF b = a THEN NoTime ELSE since[b]
    BY <1>1, <2>1 DEF TypeOK
  <2>. QED
    BY <1>2, <2>2, <2>3 DEF Kept, Claimed
<1>3. CASE ~(FallbackKnown(a) /\ MayClaim(state, t))
  <2>1. fallback' = Promoted(a) /\ UNCHANGED <<legacyFallback, since>>
    BY <1>3 DEF ClaimFallback
  <2>. QED
    BY <1>1, <2>1, PromotionReads DEF Kept
<1>. QED
  BY <1>2, <1>3

(* A success recorded for an account, by a round or by a heartbeat. *)
LEMMA SuccessStep ==
    ASSUME TypeOK, NEW a \in Accounts, NEW s \in Scopes, NEW b \in Accounts,
           UNCHANGED legacyFallback,
           IF FallbackKnown(a)
           THEN /\ fallback' = [fallback EXCEPT ![a] = AfterSuccess(CurrentState(a, s))]
                /\ since' = [since EXCEPT ![a] = NoTime]
           ELSE UNCHANGED <<fallback, since>>
    PROVE  Kept(b) \/ Succeeded(b)
<1>1. CASE FallbackKnown(a)
  <2> DEFINE row == AfterSuccess(CurrentState(a, s))
  <2>1. row \in FallbackRow
    <3>1. 0 \in Time
      BY StateAssumption DEF Time
    <3>. QED
      BY <3>1, FallbackTyped, WritesTyped
  <2>2. StoredFallback(b)' = IF b = a THEN row ELSE StoredFallback(b)
    BY <1>1, <2>1, RowWritten
  <2>3. since'[b] = IF b = a THEN NoTime ELSE since[b]
    BY <1>1 DEF TypeOK
  <2>. QED
    BY <2>2, <2>3 DEF Kept, Succeeded
<1>2. CASE ~FallbackKnown(a)
  BY <1>2 DEF Kept, StoredFallback
<1>. QED
  BY <1>1, <1>2

(* A step succeeds, fails or claims for an account, or leaves it alone. *)
LEMMA FallbackSteps ==
    ASSUME TypeOK, CapturedBefore, [Next]_vars, NEW b \in Accounts
    PROVE  Kept(b) \/ Succeeded(b) \/ Failed(b) \/ Claimed(b)
<1> DEFINE Same == UNCHANGED <<fallback, legacyFallback, since>>
<1>0. Same => Kept(b)
  BY DEF Kept, StoredFallback
<1>t. now \in Time /\ \A w \in Workers : at[w] \in Time /\ at[w] <= now
  BY DEF TypeOK, CapturedBefore
<1>n. /\ "idle" \in PCs /\ "precheck" \in PCs /\ "claim" \in PCs /\ "batch" \in PCs
      /\ now <= now
  BY StateAssumption, <1>t DEF PCs, Time
<1>1. CASE Tick \/ Heartbeat \/ BridgeLost
  BY <1>0, <1>1 DEF Tick, Heartbeat, BridgeLost, rows, history
<1>2. ASSUME NEW a \in Accounts, NEW s \in Scopes,
             ChangeWatchlist(a, s) \/ HeartbeatReset(a, s)
      PROVE  Kept(b) \/ Succeeded(b)
  <2>1. CASE ChangeWatchlist(a, s)
    BY <1>0, <2>1 DEF ChangeWatchlist, rows, history
  <2>2. CASE HeartbeatReset(a, s)
    BY <2>2, SuccessStep DEF HeartbeatReset
  <2>. QED
    BY <1>2, <2>1, <2>2
<1>3. ASSUME NEW w \in Workers, NEW a \in Accounts, StartRound(w, a)
      PROVE  Kept(b)
  BY <1>0, <1>3 DEF StartRound, rows, history
<1>4. ASSUME NEW w \in Workers, RecordSuccess(w)
      PROVE  Kept(b) \/ Succeeded(b)
  <2>1. acc[w] \in Accounts /\ scope[acc[w]] \in Scopes
    BY DEF TypeOK
  <2>. QED
    BY <1>4, <2>1, SuccessStep DEF RecordSuccess
<1>5. ASSUME NEW w \in Workers, AccountFailed(w) \/ HandleFailed(w)
      PROVE  Kept(b) \/ Failed(b)
  <2>1. CASE AccountFailed(w)
    BY <2>1, <1>t, <1>n, FailureStep DEF AccountFailed
  <2>2. CASE HandleFailed(w)
    BY <2>2, <1>t, <1>n, FailureStep DEF HandleFailed
  <2>. QED
    BY <1>5, <2>1, <2>2
<1>6. ASSUME NEW w \in Workers, AccountFailedManually(w)
      PROVE  Kept(b)
  <2>1. acc[w] \in Accounts
    BY DEF TypeOK
  <2>. QED
    BY <1>6, <2>1, PromotionReads DEF AccountFailedManually, Kept, history
<1>7. ASSUME NEW w \in Workers, PaidFallback(w) \/ PaidFallbackForHandle(w)
      PROVE  Kept(b) \/ Claimed(b)
  <2>1. ASSUME NEW next, CheckBudget(w, next) PROVE Kept(b)
    BY <1>0, <2>1 DEF CheckBudget, history
  <2>2. CASE fresh /\ pc[w] = "precheck" /\ Go(w, "idle") /\ UNCHANGED <<rows, history>>
    BY <1>0, <2>2 DEF rows, history
  <2>3. CASE ClaimFallback(w, now, "batch")
    BY <2>3, <1>t, <1>n, ClaimStep
  <2>4. CASE ClaimFallback(w, at[w], "precheck")
    BY <2>4, <1>t, <1>n, ClaimStep
  <2>. QED
    BY <1>7, <2>1, <2>2, <2>3, <2>4 DEF PaidFallback, PaidFallbackForHandle
<1>8. ASSUME NEW c \in Clients, ToolStart(c) \/ Gate(c) \/ Reserve(c) \/ Send(c) \/ Abandon(c)
      PROVE  Kept(b)
  BY <1>0, <1>8 DEF ToolStart, Gate, Reserve, Send, Abandon, rows, history
<1>9. CASE UNCHANGED vars
  BY <1>0, <1>9 DEF vars, rows, history
<1>. QED
  BY <1>1, <1>2, <1>3, <1>4, <1>5, <1>6, <1>7, <1>8, <1>9 DEF Next

-----------------------------------------------------------------------------
(* Types.                                                                  *)

(* The rows a step writes have their types. *)
LEMMA FallbackStaysTyped ==
    ASSUME TypeOK, NEW w \in Workers, NEW t \in Time, NEW next \in PCs,
           RecordFailure(w, t, next) \/ ClaimFallback(w, t, next)
    PROVE  TypeOK'
<1> DEFINE a == acc[w]
<1>1. a \in Accounts /\ scope[a] \in Scopes /\ w \in Clients
  BY DEF TypeOK, Clients
<1>2. /\ AfterFailure(CurrentState(a, scope[a]), t) \in FallbackRow
      /\ AfterClaim(CurrentState(a, scope[a]), t) \in FallbackRow
      /\ Promoted(a) \in [Accounts -> FallbackRow \cup {NoRow}]
  BY <1>1, FallbackTyped, WritesTyped
<1>3. OutageStart(a, t) \in Time \cup {NoTime}
  BY <1>1 DEF TypeOK, OutageStart
<1>4. "idle" \in PCs
  BY DEF PCs
<1>5. CASE RecordFailure(w, t, next)
  <2>1. fallback' \in [Accounts -> FallbackRow \cup {NoRow}]
    BY <1>1, <1>2, <1>5 DEF RecordFailure, TypeOK
  <2>2. since' \in [Accounts -> Time \cup {NoTime}]
    BY <1>1, <1>3, <1>5 DEF RecordFailure, TypeOK
  <2>3. pc' \in [Clients -> PCs]
    BY <1>1, <1>4, <1>5 DEF RecordFailure, Go, TypeOK
  <2>. QED
    BY <1>5, <2>1, <2>2, <2>3 DEF RecordFailure, TypeOK
<1>6. CASE ClaimFallback(w, t, next)
  <2>1. fallback' \in [Accounts -> FallbackRow \cup {NoRow}]
    BY <1>1, <1>2, <1>6 DEF ClaimFallback, TypeOK
  <2>2. since' \in [Accounts -> Time \cup {NoTime}]
    BY <1>1, <1>6 DEF ClaimFallback, TypeOK
  <2>3. pc' \in [Clients -> PCs]
    BY <1>1, <1>4, <1>6 DEF ClaimFallback, Go, TypeOK
  <2>. QED
    BY <1>6, <2>1, <2>2, <2>3 DEF ClaimFallback, TypeOK
<1>. QED
  BY <1>5, <1>6

(* A success stores a well typed row. *)
LEMMA SuccessStaysTyped ==
    ASSUME TypeOK, NEW a \in Accounts, NEW s \in Scopes,
           IF FallbackKnown(a)
           THEN /\ fallback' = [fallback EXCEPT ![a] = AfterSuccess(CurrentState(a, s))]
                /\ since' = [since EXCEPT ![a] = NoTime]
           ELSE UNCHANGED <<fallback, since>>
    PROVE  /\ fallback' \in [Accounts -> FallbackRow \cup {NoRow}]
           /\ since' \in [Accounts -> Time \cup {NoTime}]
<1>1. 0 \in Time
  BY StateAssumption DEF Time
<1>2. AfterSuccess(CurrentState(a, s)) \in FallbackRow
  BY <1>1, FallbackTyped, WritesTyped
<1>. QED
  BY <1>2 DEF TypeOK

(* A round's look at the budget keeps the types. *)
LEMMA BudgetStaysTyped ==
    ASSUME TypeOK, NEW w \in Workers, NEW next \in PCs, CheckBudget(w, next)
    PROVE  TypeOK'
<1>1. DayOf(now) \in Days /\ w \in Clients /\ "idle" \in PCs
  BY TodayKnown DEF TypeOK, Clients, PCs
<1>2. usage' \in [Days -> Nat \cup {NoRow}]
  BY <1>1, UsageTyped DEF CheckBudget, TypeOK
<1>3. pc' \in [Clients -> PCs]
  BY <1>1 DEF CheckBudget, Go, TypeOK
<1>. QED
  BY <1>2, <1>3 DEF CheckBudget, TypeOK, history

(* The initial rows are well typed. *)
LEMMA InitTyped == Init => TypeOK
<1>1. ASSUME Init PROVE TypeOK
  <2>1. 0 \in Time /\ 0 \in Days
    <3>1. 0 \in Time /\ DayOf(0) = 0
      BY StateAssumption DEF Time, DayOf
    <3>. QED
      BY <3>1, TodayKnown
  <2>2. legacyFallback \in [Accounts -> FallbackRow \cup {NoRow, Corrupt}]
    BY <1>1, StateAssumption DEF Init
  <2>3. legacyUsage \in [Days -> Nat \cup {NoRow, Corrupt}]
    BY <1>1, StateAssumption DEF Init
  <2>4. since \in [Accounts -> Time \cup {NoTime}]
    BY <1>1, <2>1 DEF Init
  <2>. QED
    BY <1>1, <2>1, <2>2, <2>3, <2>4 DEF Init, TypeOK, PCs
<1>. QED
  BY <1>1

(* Every step keeps the types. *)
LEMMA StepTyped == TypeOK /\ [Next]_vars => TypeOK'
<1> SUFFICES ASSUME TypeOK, [Next]_vars PROVE TypeOK'
  OBVIOUS
<1>n. /\ PCs = {"idle", "fetched", "precheck", "claim", "batch", "gated", "sending"}
      /\ now \in Time /\ \A w \in Workers : at[w] \in Time /\ w \in Clients
  BY DEF PCs, TypeOK, Clients
<1>1. CASE Tick
  BY <1>1, StateAssumption DEF Tick, TypeOK, Time, rows, history
<1>2. CASE Heartbeat \/ BridgeLost
  <2>1. fresh' \in BOOLEAN /\ resetDue' \in BOOLEAN
    BY <1>2 DEF Heartbeat, BridgeLost, TypeOK
  <2>2. after' \in [Workers -> Nat]
    BY <1>2 DEF Heartbeat, BridgeLost, TypeOK, history
  <2>3. /\ UNCHANGED <<now, scope, pc, acc, at, resDay, sent, since>>
        /\ UNCHANGED <<usage, legacyUsage, fallback, legacyFallback>>
    BY <1>2 DEF Heartbeat, BridgeLost, rows, history
  <2>. QED
    BY <2>1, <2>2, <2>3 DEF TypeOK
<1>3. ASSUME NEW a \in Accounts, NEW s \in Scopes, ChangeWatchlist(a, s)
      PROVE  TypeOK'
  BY <1>3 DEF ChangeWatchlist, TypeOK, rows, history
<1>4. ASSUME NEW a \in Accounts, NEW s \in Scopes, HeartbeatReset(a, s)
      PROVE  TypeOK'
  <2>1. /\ fallback' \in [Accounts -> FallbackRow \cup {NoRow}]
        /\ since' \in [Accounts -> Time \cup {NoTime}]
    BY <1>4, SuccessStaysTyped DEF HeartbeatReset
  <2>. QED
    BY <1>4, <2>1 DEF HeartbeatReset, TypeOK
<1>5. ASSUME NEW w \in Workers, NEW a \in Accounts, StartRound(w, a)
      PROVE  TypeOK'
  <2>1. pc' \in [Clients -> PCs] /\ acc' \in [Workers -> Accounts] /\ at' \in [Workers -> Time]
    BY <1>5, <1>n DEF StartRound, Go, TypeOK
  <2>. QED
    BY <1>5, <2>1 DEF StartRound, TypeOK, rows, history
<1>6. ASSUME NEW w \in Workers, RecordSuccess(w)
      PROVE  TypeOK'
  <2>1. acc[w] \in Accounts /\ scope[acc[w]] \in Scopes
    BY DEF TypeOK
  <2>2. /\ fallback' \in [Accounts -> FallbackRow \cup {NoRow}]
        /\ since' \in [Accounts -> Time \cup {NoTime}]
    BY <1>6, <2>1, SuccessStaysTyped DEF RecordSuccess
  <2>3. pc' \in [Clients -> PCs]
    BY <1>6, <1>n DEF RecordSuccess, Go, TypeOK
  <2>. QED
    BY <1>6, <2>2, <2>3 DEF RecordSuccess, TypeOK
<1>7. ASSUME NEW w \in Workers, AccountFailed(w) \/ HandleFailed(w)
      PROVE  TypeOK'
  <2>1. CASE AccountFailed(w)
    BY <2>1, <1>n, FallbackStaysTyped DEF AccountFailed
  <2>2. CASE HandleFailed(w)
    BY <2>2, <1>n, FallbackStaysTyped DEF HandleFailed
  <2>. QED
    BY <1>7, <2>1, <2>2
<1>8. ASSUME NEW w \in Workers, AccountFailedManually(w)
      PROVE  TypeOK'
  <2>1. Promoted(acc[w]) \in [Accounts -> FallbackRow \cup {NoRow}]
    BY FallbackTyped DEF TypeOK
  <2>2. pc' \in [Clients -> PCs]
    BY <1>8, <1>n DEF AccountFailedManually, Go, TypeOK
  <2>. QED
    BY <1>8, <2>1, <2>2 DEF AccountFailedManually, TypeOK, history
<1>9. ASSUME NEW w \in Workers, PaidFallback(w) \/ PaidFallbackForHandle(w)
      PROVE  TypeOK'
  <2>1. CASE fresh /\ pc[w] = "precheck" /\ Go(w, "idle")
             /\ UNCHANGED <<now, fresh, resetDue, scope, rows, acc, at, resDay, history>>
    BY <2>1, <1>n DEF Go, TypeOK, rows, history
  <2>2. CASE CheckBudget(w, "claim") \/ CheckBudget(w, "batch")
    BY <2>2, <1>n, BudgetStaysTyped
  <2>3. CASE ClaimFallback(w, now, "batch") \/ ClaimFallback(w, at[w], "precheck")
    BY <2>3, <1>n, FallbackStaysTyped
  <2>. QED
    BY <1>9, <2>1, <2>2, <2>3 DEF PaidFallback, PaidFallbackForHandle
<1>10. ASSUME NEW c \in Clients, ToolStart(c) \/ Gate(c) \/ Abandon(c)
       PROVE  TypeOK'
  <2>1. pc' \in [Clients -> PCs]
    BY <1>10, <1>n DEF ToolStart, Gate, Abandon, Go, TypeOK
  <2>. QED
    BY <1>10, <2>1 DEF ToolStart, Gate, Abandon, TypeOK, rows, history
<1>11. ASSUME NEW c \in Clients, Reserve(c)
       PROVE  TypeOK'
  <2>1. DayOf(now) \in Days /\ Attempts(DayOf(now)) + 1 \in Nat
    BY <1>n, TodayKnown, UsageTyped
  <2>2. pc' \in [Clients -> PCs] /\ resDay' \in [Clients -> Days]
    BY <1>11, <1>n, <2>1 DEF Reserve, Go, TypeOK
  <2>3. usage' \in [Days -> Nat \cup {NoRow}]
    BY <1>11, <2>1 DEF Reserve, TypeOK
  <2>. QED
    BY <1>11, <2>2, <2>3 DEF Reserve, TypeOK, history
<1>12. ASSUME NEW c \in Clients, Send(c)
       PROVE  TypeOK'
  <2>1. pc' \in [Clients -> PCs]
    BY <1>12, <1>n DEF Send, Go, TypeOK
  <2>2. sent' \in [Days -> Nat]
    BY <1>12 DEF Send, TypeOK
  <2>3. after' \in [Workers -> Nat]
    BY <1>12 DEF Send, TypeOK
  <2>. QED
    BY <1>12, <2>1, <2>2, <2>3 DEF Send, TypeOK, rows
<1>13. CASE UNCHANGED vars
  BY <1>13 DEF vars, rows, history, TypeOK
<1>. QED
  BY <1>1, <1>2, <1>3, <1>4, <1>5, <1>6, <1>7, <1>8, <1>9, <1>10, <1>11, <1>12, <1>13
     DEF Next

(* Every variable keeps its type: rows their columns, counters their       *)
(* numbers, for any number of clients and accounts.                        *)
THEOREM StateTypes == Spec => []TypeOK
BY InitTyped, StepTyped, PTL DEF Spec

-----------------------------------------------------------------------------
(* The hard limit.                                                         *)

LEMMA SendingFinite == \A d \in Days : IsFiniteSet(Sending(d)) /\ Cardinality(Sending(d)) \in Nat
<1> TAKE d \in Days
<1>1. Sending(d) \subseteq Clients
  BY DEF Sending
<1>. QED
  BY <1>1, StateAssumption, FS_Subset, FS_CardinalityType

(* A step that neither reserves nor sends keeps the limit. *)
LEMMA QuietStep ==
    ASSUME TypeOK, HardLimit, UNCHANGED <<legacyUsage, sent, resDay>>,
           \A d \in Days : Attempts(d)' = Attempts(d),
           \A c \in Clients : pc'[c] = "sending" => pc[c] = "sending"
    PROVE  HardLimit'
<1>1. SUFFICES ASSUME NEW d \in Days
               PROVE  /\ SpentBefore(d) + sent[d] + Cardinality(Sending(d)') <= Attempts(d)
                      /\ Attempts(d) <= IF SpentBefore(d) > Budget THEN SpentBefore(d) ELSE Budget
  <2>1. \A d \in Days : SpentBefore(d)' = SpentBefore(d) /\ sent'[d] = sent[d]
    BY DEF SpentBefore
  <2>. QED
    BY <2>1 DEF HardLimit
<1>2. Sending(d)' \subseteq Sending(d)
  BY DEF Sending
<1>3. Cardinality(Sending(d)') <= Cardinality(Sending(d)) /\ Cardinality(Sending(d)') \in Nat
  BY <1>2, SendingFinite, FS_Subset, FS_CardinalityType
<1>4. SpentBefore(d) \in Nat /\ sent[d] \in Nat /\ Attempts(d) \in Nat
  BY UsageTyped DEF TypeOK, SpentBefore
<1>. QED
  BY <1>3, <1>4, SendingFinite DEF HardLimit

(* What was not touched is read as before. *)
LEMMA UsageKept ==
    ASSUME UNCHANGED <<usage, legacyUsage>>
    PROVE  \A d \in Days : Attempts(d)' = Attempts(d)
BY DEF Attempts, StoredUsage

(* A reservation within the budget respects the hard limit. *)
LEMMA ReserveStep ==
    ASSUME TypeOK, HardLimit, NEW c \in Clients, Reserve(c), BudgetLeft(DayOf(now))
    PROVE  HardLimit'
<1> DEFINE d == DayOf(now)
<1>1. d \in Days
  BY TodayKnown DEF TypeOK
<1>2. /\ UNCHANGED <<legacyUsage, sent>> /\ pc[c] = "gated"
      /\ usage' = [usage EXCEPT ![d] = Attempts(d) + 1]
      /\ resDay' = [resDay EXCEPT ![c] = d]
      /\ pc' = [pc EXCEPT ![c] = "sending"]
      /\ Attempts(d) < Budget
  BY DEF Reserve, BudgetLeft, Go, history
<1>3. SUFFICES ASSUME NEW e \in Days
               PROVE  /\ SpentBefore(e) + sent[e] + Cardinality(Sending(e)') <= Attempts(e)'
                      /\ Attempts(e)' <= IF SpentBefore(e) > Budget THEN SpentBefore(e) ELSE Budget
  <2>1. \A e \in Days : SpentBefore(e)' = SpentBefore(e) /\ sent'[e] = sent[e]
    BY <1>2 DEF SpentBefore
  <2>. QED
    BY <2>1, <1>3 DEF HardLimit
<1>4. /\ SpentBefore(e) \in Nat /\ sent[e] \in Nat /\ Attempts(e) \in Nat
      /\ Budget \in Nat /\ Cardinality(Sending(e)) \in Nat
  BY UsageTyped, SendingFinite, StateAssumption DEF TypeOK, SpentBefore
<1>5. CASE e = d
  <2>1. Attempts(e)' = Attempts(e) + 1
    <3>1. usage'[e] = Attempts(e) + 1 /\ usage'[e] \in Int
      BY <1>1, <1>2, <1>4, <1>5 DEF TypeOK
    <3>2. StoredUsage(e)' = Attempts(e) + 1
      BY <3>1, StateAssumption DEF StoredUsage
    <3>. QED
      BY <3>1, <3>2, StateAssumption DEF Attempts
  <2>2. Sending(e)' = Sending(e) \cup {c} /\ c \notin Sending(e)
    BY <1>2, <1>5 DEF Sending, TypeOK
  <2>3. Cardinality(Sending(e)') = Cardinality(Sending(e)) + 1
    BY <2>2, SendingFinite, FS_AddElement
  <2>. QED
    BY <1>2, <1>4, <1>5, <2>1, <2>3 DEF HardLimit
<1>6. CASE e # d
  <2>1. Attempts(e)' = Attempts(e)
    BY <1>2, <1>6 DEF TypeOK, Attempts, StoredUsage
  <2>2. Sending(e)' = Sending(e)
    BY <1>2, <1>6 DEF Sending, TypeOK
  <2>. QED
    BY <2>1, <2>2 DEF HardLimit
<1>. QED
  BY <1>5, <1>6

(* A request is sent within the hard limit. *)
LEMMA SendStep ==
    ASSUME TypeOK, HardLimit, NEW c \in Clients, Send(c)
    PROVE  HardLimit'
<1> DEFINE d == resDay[c]
<1>1. /\ d \in Days /\ pc[c] = "sending" /\ pc'[c] # "sending"
      /\ UNCHANGED <<usage, legacyUsage, resDay>>
      /\ sent' = [sent EXCEPT ![d] = @ + 1]
      /\ \A x \in Clients \ {c} : pc'[x] = pc[x]
  BY DEF Send, Go, TypeOK, rows
<1>2. SUFFICES ASSUME NEW e \in Days
               PROVE  /\ SpentBefore(e) + sent'[e] + Cardinality(Sending(e)') <= Attempts(e)
                      /\ Attempts(e) <= IF SpentBefore(e) > Budget THEN SpentBefore(e) ELSE Budget
  <2>1. \A e \in Days : SpentBefore(e)' = SpentBefore(e) /\ Attempts(e)' = Attempts(e)
    BY <1>1, UsageKept DEF SpentBefore
  <2>. QED
    BY <2>1, <1>2 DEF HardLimit
<1>3. /\ SpentBefore(e) \in Nat /\ sent[e] \in Nat /\ Attempts(e) \in Nat
      /\ Cardinality(Sending(e)) \in Nat
  BY UsageTyped, SendingFinite DEF TypeOK, SpentBefore
<1>4. CASE e = d
  <2>1. Sending(e)' = Sending(e) \ {c} /\ c \in Sending(e)
    BY <1>1, <1>4 DEF Sending
  <2>2. Cardinality(Sending(e)') = Cardinality(Sending(e)) - 1
    BY <2>1, SendingFinite, FS_RemoveElement
  <2>3. sent'[e] = sent[e] + 1
    BY <1>1, <1>4 DEF TypeOK
  <2>. QED
    BY <1>3, <2>2, <2>3 DEF HardLimit
<1>5. CASE e # d
  <2>1. Sending(e)' = Sending(e) /\ sent'[e] = sent[e]
    BY <1>1, <1>5 DEF Sending, TypeOK
  <2>. QED
    BY <2>1 DEF HardLimit
<1>. QED
  BY <1>4, <1>5

(* Reading a known day promotes its row and leaves its count. *)
LEMMA BudgetReads ==
    ASSUME TypeOK, NEW w, NEW next, next # "sending", CheckBudget(w, next)
    PROVE  /\ \A d \in Days : Attempts(d)' = Attempts(d)
           /\ \A c \in Clients : pc'[c] = "sending" => pc[c] = "sending"
           /\ UNCHANGED <<legacyUsage, sent, resDay>>
<1>1. UNCHANGED <<legacyUsage, sent, resDay>>
  BY DEF CheckBudget, history
<1>2. \A c \in Clients : pc'[c] = "sending" => pc[c] = "sending"
  BY DEF CheckBudget, Go, TypeOK
<1>3. DayOf(now) \in Days
  BY TodayKnown DEF TypeOK
<1>4. \A d \in Days : StoredUsage(d)' = StoredUsage(d)
  BY <1>1, <1>3 DEF CheckBudget, PromotedUsage, StoredUsage, TypeOK
<1>. QED
  BY <1>1, <1>2, <1>4 DEF Attempts

(* Every step respects the hard limit. *)
LEMMA LimitStep == TypeOK /\ HardLimit /\ [Next]_vars => HardLimit'
<1> SUFFICES ASSUME TypeOK, HardLimit, [Next]_vars PROVE HardLimit'
  OBVIOUS
<1> DEFINE Calm == /\ UNCHANGED <<usage, legacyUsage, sent, resDay>>
                   /\ \A c \in Clients : pc'[c] = "sending" => pc[c] = "sending"
<1>0. Calm => HardLimit'
  BY QuietStep, UsageKept
<1>1. CASE Tick \/ Heartbeat \/ BridgeLost
  BY <1>0, <1>1 DEF Tick, Heartbeat, BridgeLost, rows, history
<1>2. ASSUME NEW a \in Accounts, NEW s \in Scopes,
             ChangeWatchlist(a, s) \/ HeartbeatReset(a, s)
      PROVE  HardLimit'
  BY <1>0, <1>2 DEF ChangeWatchlist, HeartbeatReset, rows, history
<1>3. ASSUME NEW w \in Workers, NEW a \in Accounts, StartRound(w, a)
      PROVE  HardLimit'
  BY <1>0, <1>3 DEF StartRound, Go, TypeOK, rows, history
<1>4. ASSUME NEW w \in Workers, RecordSuccess(w) \/ AccountFailedManually(w)
      PROVE  HardLimit'
  BY <1>0, <1>4 DEF RecordSuccess, AccountFailedManually, Go, TypeOK, history
<1>5. ASSUME NEW w \in Workers, NEW t, NEW next, next # "sending",
             RecordFailure(w, t, next) \/ ClaimFallback(w, t, next)
      PROVE  HardLimit'
  <2>1. \A c \in Clients : pc'[c] = "sending" => pc[c] = "sending"
    BY <1>5 DEF RecordFailure, ClaimFallback, Go, TypeOK
  <2>. QED
    BY <1>0, <1>5, <2>1 DEF RecordFailure, ClaimFallback
<1>6. ASSUME NEW w \in Workers, AccountFailed(w) \/ HandleFailed(w)
      PROVE  HardLimit'
  BY <1>5, <1>6 DEF AccountFailed, HandleFailed
<1>7. ASSUME NEW w \in Workers, PaidFallback(w) \/ PaidFallbackForHandle(w)
      PROVE  HardLimit'
  <2>1. CASE fresh /\ pc[w] = "precheck" /\ Go(w, "idle")
             /\ UNCHANGED <<now, fresh, resetDue, scope, rows, acc, at, resDay, history>>
    BY <1>0, <2>1 DEF Go, TypeOK, rows, history
  <2>2. ASSUME NEW next, next # "sending", CheckBudget(w, next) PROVE HardLimit'
    BY <2>2, BudgetReads, QuietStep
  <2>. QED
    BY <1>5, <1>7, <2>1, <2>2 DEF PaidFallback, PaidFallbackForHandle
<1>8. ASSUME NEW c \in Clients, ToolStart(c) \/ Gate(c) \/ Abandon(c)
      PROVE  HardLimit'
  BY <1>0, <1>8 DEF ToolStart, Gate, Abandon, Go, TypeOK, rows, history
<1>9. ASSUME NEW c \in Clients, Reserve(c)
      PROVE  HardLimit'
  <2>1. CASE ~BudgetLeft(DayOf(now))
    BY <1>0, <1>9, <2>1 DEF Reserve, Go, TypeOK, history
  <2>. QED
    BY <1>9, <2>1, ReserveStep
<1>10. ASSUME NEW c \in Clients, Send(c)
       PROVE  HardLimit'
  BY <1>10, SendStep
<1>11. CASE UNCHANGED vars
  BY <1>0, <1>11 DEF vars, rows, history
<1>. QED
  BY <1>1, <1>2, <1>3, <1>4, <1>6, <1>7, <1>8, <1>9, <1>10, <1>11 DEF Next

(* At the start nothing is stored; what the old table counted is promoted. *)
LEMMA LimitInit == Init => HardLimit
<1> SUFFICES ASSUME Init, NEW d \in Days
             PROVE  /\ SpentBefore(d) + sent[d] + Cardinality(Sending(d)) <= Attempts(d)
                    /\ Attempts(d) <= IF SpentBefore(d) > Budget THEN SpentBefore(d) ELSE Budget
  BY DEF HardLimit
<1>1. Sending(d) = {}
  BY DEF Init, Sending
<1>2. Cardinality(Sending(d)) = 0
  BY <1>1, FS_EmptySet
<1>3. sent[d] = 0 /\ StoredUsage(d) = legacyUsage[d]
  BY DEF Init, StoredUsage
<1>4. legacyUsage[d] \in Nat \cup {NoRow, Corrupt}
  BY InitTyped DEF TypeOK
<1>5. Attempts(d) = SpentBefore(d) /\ SpentBefore(d) \in Nat
  BY <1>3, <1>4, StateAssumption DEF Attempts, SpentBefore
<1>. QED
  BY <1>2, <1>3, <1>5, StateAssumption

(* The hard limit holds for every number of racing clients, every budget   *)
(* and every count the upgrade finds.                                      *)
THEOREM HardLimitHolds == Spec => []HardLimit
BY InitTyped, StepTyped, LimitInit, LimitStep, PTL DEF Spec

-----------------------------------------------------------------------------
(* Corrupt rows.                                                           *)

CorruptUnread == \A d \in Days : legacyUsage[d] = Corrupt => usage[d] = NoRow

(* A day whose old usage cannot be read never gets a row. *)
LEMMA CorruptStep == TypeOK /\ CorruptUnread /\ [Next]_vars => CorruptUnread'
<1> SUFFICES ASSUME TypeOK, CorruptUnread, [Next]_vars PROVE CorruptUnread'
  OBVIOUS
<1>1. UNCHANGED legacyUsage
  BY DEF Next, vars, rows, history, Tick, Heartbeat, BridgeLost, ChangeWatchlist,
         HeartbeatReset, StartRound, RecordSuccess, AccountFailed, AccountFailedManually,
         HandleFailed, RecordFailure, PaidFallback, PaidFallbackForHandle, CheckBudget,
         ClaimFallback, ToolStart, Gate, Reserve, Send, Abandon
<1>2. CASE UNCHANGED usage
  BY <1>1, <1>2 DEF CorruptUnread
<1>3. ASSUME NEW w, NEW next, CheckBudget(w, next)
      PROVE  CorruptUnread'
  BY <1>1, <1>3, TodayKnown DEF CheckBudget, PromotedUsage, UsageKnown, StoredUsage,
         CorruptUnread, TypeOK
<1>4. ASSUME NEW c \in Clients, Reserve(c)
      PROVE  CorruptUnread'
  BY <1>1, <1>4, TodayKnown, StateAssumption
     DEF Reserve, BudgetLeft, UsageKnown, StoredUsage, CorruptUnread, TypeOK
<1>5. \/ UNCHANGED usage
      \/ \E w \in Workers : PaidFallback(w) \/ PaidFallbackForHandle(w)
      \/ \E c \in Clients : Reserve(c)
  BY DEF Next, vars, rows, history, Tick, Heartbeat, BridgeLost, ChangeWatchlist,
         HeartbeatReset, StartRound, RecordSuccess, AccountFailed, AccountFailedManually,
         HandleFailed, RecordFailure, ToolStart, Gate, Send, Abandon
<1>6. ASSUME NEW w \in Workers, PaidFallback(w) \/ PaidFallbackForHandle(w)
      PROVE  CorruptUnread'
  BY <1>2, <1>3, <1>6 DEF PaidFallback, PaidFallbackForHandle, ClaimFallback, rows
<1>. QED
  BY <1>2, <1>4, <1>5, <1>6

(* A day whose legacy row does not validate is never paid for: its row     *)
(* stays unwritten, so its count stays zero, and the hard limit says that  *)
(* no more than the count was sent.                                        *)
THEOREM CorruptBlocksHolds == Spec => []CorruptBlocks
<1>1. Init => CorruptUnread
  BY DEF Init, CorruptUnread
<1>2. TypeOK /\ HardLimit /\ CorruptUnread => CorruptBlocks
  <2> SUFFICES ASSUME TypeOK, HardLimit, CorruptUnread, NEW d \in Days, legacyUsage[d] = Corrupt
               PROVE  sent[d] = 0 /\ usage[d] = NoRow
    BY DEF CorruptBlocks
  <2>1. usage[d] = NoRow /\ Attempts(d) = 0
    BY DEF CorruptUnread, Attempts, StoredUsage
  <2>2. SpentBefore(d) \in Nat /\ sent[d] \in Nat /\ Cardinality(Sending(d)) \in Nat
    BY SendingFinite DEF TypeOK, SpentBefore
  <2>. QED
    BY <2>1, <2>2 DEF HardLimit
<1>. QED
  BY <1>1, <1>2, CorruptStep, InitTyped, StepTyped, HardLimitHolds, PTL DEF Spec

(* No day is overspent, whatever races and whatever the upgrade finds.     *)
THEOREM BudgetHolds == Spec => []BudgetKept
<1>1. HardLimit /\ CorruptBlocks => BudgetKept
  BY DEF BudgetKept
<1>. QED
  BY <1>1, HardLimitHolds, CorruptBlocksHolds, PTL

-----------------------------------------------------------------------------
(* A returning bridge.                                                     *)

OneMore ==
    \A w \in Workers :
        /\ after[w] <= 1
        /\ fresh /\ after[w] = 1 => pc[w] \notin {"gated", "sending"}

(* After the bridge is back a worker sends one more request at most. *)
LEMMA OneMoreStep == TypeOK /\ OneMore /\ [Next]_vars => OneMore'
<1> SUFFICES ASSUME TypeOK, OneMore, [Next]_vars, NEW w \in Workers
             PROVE  after'[w] <= 1 /\ (fresh' /\ after'[w] = 1 => pc'[w] \notin {"gated", "sending"})
  BY DEF OneMore
<1>i. /\ after[w] \in Nat /\ after[w] <= 1 /\ w \in Clients
      /\ fresh /\ after[w] = 1 => pc[w] \notin {"gated", "sending"}
  BY DEF TypeOK, OneMore, Clients
<1> DEFINE Calm == /\ UNCHANGED <<fresh, after>>
                   /\ pc'[w] \in {"gated", "sending"} => pc[w] \in {"gated", "sending"}
<1>0. Calm => after'[w] <= 1 /\ (fresh' /\ after'[w] = 1 => pc'[w] \notin {"gated", "sending"})
  BY <1>i
<1>1. CASE Tick
  BY <1>0, <1>1 DEF Tick, history
<1>2. CASE Heartbeat
  BY <1>2 DEF Heartbeat
<1>3. CASE BridgeLost
  BY <1>3, <1>i DEF BridgeLost, history
<1>4. ASSUME NEW a \in Accounts, NEW s \in Scopes, ChangeWatchlist(a, s) \/ HeartbeatReset(a, s)
      PROVE  Calm
  BY <1>4 DEF ChangeWatchlist, HeartbeatReset, history
<1>5. ASSUME NEW v \in Workers, NEW a \in Accounts, StartRound(v, a)
      PROVE  Calm
  BY <1>5, <1>i DEF StartRound, Go, TypeOK, history
<1>6. ASSUME NEW v \in Workers, RecordSuccess(v) \/ AccountFailedManually(v)
      PROVE  Calm
  BY <1>6, <1>i DEF RecordSuccess, AccountFailedManually, Go, TypeOK, history
<1>7. ASSUME NEW v \in Workers, NEW t, NEW next, next \notin {"gated", "sending"},
             RecordFailure(v, t, next) \/ ClaimFallback(v, t, next) \/ CheckBudget(v, next)
      PROVE  Calm
  <2>1. pc'[w] \in {"gated", "sending"} => pc[w] \in {"gated", "sending"}
    BY <1>7, <1>i DEF RecordFailure, ClaimFallback, CheckBudget, Go, TypeOK
  <2>. QED
    BY <1>7, <2>1 DEF RecordFailure, ClaimFallback, CheckBudget, history
<1>8. ASSUME NEW v \in Workers, AccountFailed(v) \/ HandleFailed(v)
      PROVE  Calm
  BY <1>7, <1>8 DEF AccountFailed, HandleFailed
<1>9. ASSUME NEW v \in Workers, PaidFallback(v) \/ PaidFallbackForHandle(v)
      PROVE  Calm
  <2>1. CASE fresh /\ pc[v] = "precheck" /\ Go(v, "idle")
             /\ UNCHANGED <<now, fresh, resetDue, scope, rows, acc, at, resDay, history>>
    BY <1>i, <2>1 DEF Go, TypeOK, history
  <2>2. CASE \/ CheckBudget(v, "claim") \/ CheckBudget(v, "batch")
             \/ ClaimFallback(v, now, "batch") \/ ClaimFallback(v, at[v], "precheck")
    <3> HIDE DEF Calm
    <3>1. ASSUME NEW next \in {"claim", "batch"}, CheckBudget(v, next) PROVE Calm
      BY <1>7, <3>1
    <3>2. ASSUME NEW next \in {"batch", "precheck"}, NEW t, ClaimFallback(v, t, next) PROVE Calm
      BY <1>7, <3>2
    <3>. QED
      BY <2>2, <3>1, <3>2
  <2>. QED
    BY <1>9, <2>1, <2>2 DEF PaidFallback, PaidFallbackForHandle
<1>10. ASSUME NEW c \in Clients, ToolStart(c) \/ Abandon(c) \/ Reserve(c)
       PROVE  Calm
  BY <1>10, <1>i DEF ToolStart, Abandon, Reserve, Go, TypeOK, history
<1>11. ASSUME NEW c \in Clients, Gate(c)
       PROVE  after'[w] <= 1 /\ (fresh' /\ after'[w] = 1 => pc'[w] \notin {"gated", "sending"})
  BY <1>11, <1>i DEF Gate, Suppressed, Go, TypeOK, history
<1>12. ASSUME NEW c \in Clients, Send(c)
       PROVE  after'[w] <= 1 /\ (fresh' /\ after'[w] = 1 => pc'[w] \notin {"gated", "sending"})
  <2>1. CASE c = w
    <3>1. pc[w] = "sending" /\ pc'[w] \in {"batch", "idle"} /\ fresh' = fresh
      BY <1>12, <1>i, <2>1 DEF Send, Go, TypeOK
    <3>2. after'[w] = IF fresh THEN after[w] + 1 ELSE after[w]
      BY <1>12, <2>1 DEF Send, TypeOK
    <3>. QED
      BY <1>i, <3>1, <3>2
  <2>2. CASE c # w
    <3>1. pc'[w] = pc[w] /\ fresh' = fresh /\ after'[w] = after[w]
      BY <1>12, <1>i, <2>2 DEF Send, Go, TypeOK
    <3>. QED
      BY <1>i, <3>1
  <2>. QED
    BY <2>1, <2>2
<1>13. CASE UNCHANGED vars
  BY <1>0, <1>13 DEF vars, history
<1>. QED
  BY <1>0, <1>1, <1>2, <1>3, <1>4, <1>5, <1>6, <1>8, <1>9, <1>10, <1>11, <1>12, <1>13 DEF Next

(* After the bridge is back a worker sends at most the one attempt that    *)
(* had passed the gate: once it was sent, the gate lets none through.      *)
THEOREM OneAttemptHolds == Spec => []OneAttemptAfterReturn
<1>1. Init => OneMore
  BY DEF Init, OneMore
<1>2. OneMore => OneAttemptAfterReturn
  BY DEF OneMore, OneAttemptAfterReturn
<1>. QED
  BY <1>1, <1>2, OneMoreStep, InitTyped, StepTyped, PTL DEF Spec

-----------------------------------------------------------------------------
(* The cooldown.                                                           *)

(* No scope forgets when the account last paid. *)
LEMMA PaidRemembered ==
    ASSUME TypeOK, NEW a \in Accounts, NEW s \in Scopes
    PROVE  CurrentState(a, s).paidAt = PaidAt(a)
<1>1. StoredFallback(a) \in FallbackRow \cup {NoRow, Corrupt}
  BY DEF TypeOK, StoredFallback
<1>2. NoRow \notin FallbackRow /\ Corrupt \notin FallbackRow
  BY StateAssumption
<1>. QED
  BY <1>1, <1>2 DEF CurrentState, PaidAt

(* No worker's captured time gets ahead of the clock. *)
LEMMA CapturedStep == TypeOK /\ CapturedBefore /\ [Next]_vars => CapturedBefore'
<1> SUFFICES ASSUME TypeOK, CapturedBefore, [Next]_vars, NEW w \in Workers
             PROVE  at'[w] <= now'
  BY DEF CapturedBefore
<1>1. at[w] \in Int /\ now \in Int /\ at[w] <= now
  BY StateAssumption DEF TypeOK, CapturedBefore, Time
<1>2. CASE Tick
  BY <1>1, <1>2 DEF Tick
<1>3. ASSUME NEW v \in Workers, NEW a \in Accounts, StartRound(v, a)
      PROVE  at'[w] <= now'
  BY <1>1, <1>3 DEF StartRound, TypeOK
<1>4. CASE UNCHANGED <<now, at>>
  BY <1>1, <1>4
<1>5. \/ Tick \/ UNCHANGED <<now, at>>
      \/ \E v \in Workers, a \in Accounts : StartRound(v, a)
  BY DEF Next, vars, rows, history, Heartbeat, BridgeLost, ChangeWatchlist,
         HeartbeatReset, RecordSuccess, AccountFailed, AccountFailedManually,
         HandleFailed, RecordFailure, PaidFallback, PaidFallbackForHandle, CheckBudget,
         ClaimFallback, ToolStart, Gate, Reserve, Send, Abandon
<1>. QED
  BY <1>2, <1>3, <1>4, <1>5

(* An account's paid time changes by a claim, a cooldown later. *)
LEMMA CooldownStep ==
    ASSUME TypeOK, CapturedBefore, [Next]_vars, NEW a \in Accounts, PaidAt(a)' # PaidAt(a)
    PROVE  /\ Claimed(a)
           /\ PaidAt(a)' # NoTime
           /\ PaidAt(a) # NoTime => PaidAt(a)' - PaidAt(a) >= Cooldown
<1>1. TypeOK'
  BY StepTyped
<1>2. StoredFallback(a)' = StoredFallback(a) => PaidAt(a)' = PaidAt(a)
  BY DEF PaidAt
<1>3. ~Kept(a)
  BY <1>2 DEF Kept
<1>4. 0 \in Time /\ \A s \in Scopes : CurrentState(a, s) \in FallbackRow
  BY FallbackTyped, StateAssumption DEF Time
<1>5. ~Succeeded(a)
  <2> SUFFICES ASSUME NEW s \in Scopes, StoredFallback(a)' = AfterSuccess(CurrentState(a, s))
               PROVE  FALSE
    BY DEF Succeeded
  <2>1. AfterSuccess(CurrentState(a, s)) \in FallbackRow
    BY <1>4, WritesTyped
  <2>2. AfterSuccess(CurrentState(a, s)).paidAt = CurrentState(a, s).paidAt
    BY <1>4 DEF AfterSuccess, FallbackRow
  <2>. QED
    BY <2>1, <2>2, PaidRemembered DEF PaidAt
<1>6. scope[a] \in Scopes
  BY DEF TypeOK
<1>7. ~Failed(a)
  <2> SUFFICES ASSUME NEW t \in Time,
                      StoredFallback(a)' = AfterFailure(CurrentState(a, scope[a]), t)
               PROVE  FALSE
    BY DEF Failed
  <2>1. AfterFailure(CurrentState(a, scope[a]), t) \in FallbackRow
    BY <1>4, <1>6, WritesTyped
  <2>2. AfterFailure(CurrentState(a, scope[a]), t).paidAt = CurrentState(a, scope[a]).paidAt
    BY <1>4, <1>6 DEF AfterFailure, FallbackRow
  <2>. QED
    BY <1>6, <2>1, <2>2, PaidRemembered DEF PaidAt
<1>8. Claimed(a)
  BY <1>3, <1>5, <1>7, FallbackSteps
<1>9. PICK t \in Time : /\ MayClaim(CurrentState(a, scope[a]), t)
                        /\ StoredFallback(a)' = AfterClaim(CurrentState(a, scope[a]), t)
  BY <1>8 DEF Claimed
<1>10. AfterClaim(CurrentState(a, scope[a]), t) \in FallbackRow
  BY <1>4, <1>6, WritesTyped
<1>11. AfterClaim(CurrentState(a, scope[a]), t).paidAt = t
  BY <1>4, <1>6 DEF AfterClaim, FallbackRow
<1>12. PaidAt(a)' = t
  BY <1>9, <1>10, <1>11 DEF PaidAt
<1>13. t \in Int /\ t # NoTime /\ Cooldown \in Int
  BY StateAssumption DEF Time
<1>14. PaidAt(a) \in Time \cup {NoTime}
  BY <1>4, <1>6, PaidRemembered DEF FallbackRow
<1>15. PaidAt(a) # NoTime => t - PaidAt(a) >= Cooldown
  BY <1>6, <1>9, <1>13, <1>14, PaidRemembered DEF MayClaim, CoolingDown, Time
<1>. QED
  BY <1>8, <1>12, <1>13, <1>15

(* Paid fallbacks of an account are a cooldown apart whatever else is      *)
(* written in between: no other write touches the time of the last one.    *)
THEOREM CooldownHolds == Spec => CooldownKept
<1>1. Init => CapturedBefore
  BY StateAssumption DEF Init, CapturedBefore
<1>2. TypeOK /\ CapturedBefore /\ [Next]_vars =>
          [\A a \in Accounts :
              PaidAt(a)' # PaidAt(a) =>
                  /\ PaidAt(a)' # NoTime
                  /\ PaidAt(a) # NoTime => PaidAt(a)' - PaidAt(a) >= Cooldown]_vars
  BY CooldownStep
<1>. QED
  BY <1>1, <1>2, CapturedStep, InitTyped, StepTyped, PTL DEF Spec, CooldownKept

-----------------------------------------------------------------------------
(* The outage before a paid fallback.                                      *)

(* A streak of n counted failures spans n - 1 intervals. *)
Streak(row, start) ==
    IF row \in FallbackRow /\ row.fails > 0
    THEN /\ row.countedAt \in Time /\ start \in Time
         /\ row.countedAt <= now
         /\ row.countedAt - start >= (row.fails - 1) * Interval
    ELSE start = NoTime /\ (row \in FallbackRow => row.countedAt = NoTime)

Streaks == \A a \in Accounts : Streak(StoredFallback(a), since[a])

(* Multiples of the interval are ordered, and grow by one interval. *)
LEMMA IntervalSums ==
    ASSUME NEW n \in Nat, NEW m \in Nat, m <= n
    PROVE  /\ Interval \in Nat
           /\ m * Interval <= n * Interval
           /\ (n + 1) * Interval = n * Interval + Interval
           /\ n * Interval \in Nat /\ m * Interval \in Nat
<1>1. Interval \in Nat
  BY StateAssumption
<1>2. PICK k \in Nat : n = m + k
  BY n - m \in Nat /\ n = m + (n - m)
<1>3. n * Interval = m * Interval + k * Interval /\ k * Interval \in Nat
      /\ m * Interval \in Nat /\ n * Interval \in Nat
  BY <1>1, <1>2
<1>. QED
  BY <1>1, <1>3

(* A failure lengthens a streak by an interval at least, or starts it. *)
LEMMA FailedStreak ==
    ASSUME TypeOK, Streaks, TypeOK', now' >= now, NEW a \in Accounts, Failed(a)
    PROVE  Streak(StoredFallback(a), since[a])'
<1> DEFINE row == StoredFallback(a)
           state == CurrentState(a, scope[a])
<1>1. /\ state \in FallbackRow /\ scope[a] \in Scopes
      /\ row \in FallbackRow \cup {NoRow, Corrupt}
  BY FallbackTyped DEF TypeOK
<1>2. /\ NoRow \notin FallbackRow /\ Corrupt \notin FallbackRow /\ Interval \in Nat
      /\ Time \subseteq Int /\ NoTime \notin Int /\ now \in Int /\ now' \in Int
  BY StateAssumption DEF TypeOK, Time
<1>3. PICK t \in Time : /\ t <= now
                        /\ StoredFallback(a)' = AfterFailure(state, t)
                        /\ since'[a] = OutageStart(a, t)
  BY DEF Failed
<1>4. AfterFailure(state, t) \in FallbackRow
  BY <1>1, WritesTyped
<1>5. CASE row \in FallbackRow /\ row.scope = scope[a] /\ row.fails > 0
  <2>1. state = row /\ row.fails \in Nat
    BY <1>2, <1>5 DEF CurrentState, FallbackRow
  <2>2. /\ row.countedAt \in Time /\ since[a] \in Time
        /\ row.countedAt <= now /\ row.countedAt - since[a] >= (row.fails - 1) * Interval
    BY <1>5 DEF Streaks, Streak
  <2>i. row.countedAt \in Int /\ since[a] \in Int /\ t \in Int
    BY <1>2, <2>2
  <2>3. since'[a] = since[a]
    BY <1>2, <1>3, <1>5, <2>2 DEF OutageStart
  <2>4. CASE Counts(state, t)
    <3>1. /\ AfterFailure(state, t).fails = row.fails + 1
          /\ AfterFailure(state, t).countedAt = t
      BY <1>1, <2>1, <2>4 DEF AfterFailure, FallbackRow
    <3>2. t - row.countedAt >= Interval
      BY <1>2, <2>1, <2>2, <2>4 DEF Counts
    <3>3. row.fails * Interval = (row.fails - 1) * Interval + Interval
          /\ (row.fails - 1) * Interval \in Nat
      <4>1. row.fails - 1 \in Nat /\ row.fails = (row.fails - 1) + 1
        BY <1>5, <2>1
      <4>. QED
        BY <4>1, IntervalSums
    <3>4. t - since[a] >= row.fails * Interval
      <4> DEFINE c == row.countedAt
                 s == since[a]
                 x == (row.fails - 1) * Interval
                 y == row.fails * Interval
      <4>1. /\ c \in Int /\ s \in Int /\ x \in Int /\ y = x + Interval /\ Interval \in Int
            /\ t - c >= Interval /\ c - s >= x
        BY <1>2, <2>i, <2>2, <3>2, <3>3
      <4> HIDE DEF c, s, x, y
      <4>2. t - s >= y
        BY <4>1, <2>i
      <4>. QED
        BY <4>2 DEF s, y
    <3>5. t <= now'
      BY <1>2, <1>3
    <3>6. AfterFailure(state, t).fails > 0 /\ AfterFailure(state, t).fails - 1 = row.fails
      BY <2>1, <3>1
    <3>. QED
      BY <1>3, <1>4, <2>2, <2>3, <3>1, <3>4, <3>5, <3>6 DEF Streak
  <2>5. CASE ~Counts(state, t)
    <3>1. StoredFallback(a)' = row
      BY <1>3, <2>1, <2>5 DEF AfterFailure
    <3>2. row.countedAt <= now'
      BY <1>2, <2>i, <2>2
    <3>. QED
      BY <1>5, <2>2, <2>3, <3>1, <3>2 DEF Streak
  <2>. QED
    BY <2>4, <2>5
<1>6. CASE ~(row \in FallbackRow /\ row.scope = scope[a] /\ row.fails > 0)
  <2>1. state.fails = 0 /\ state.countedAt = NoTime
    <3>1. CASE row \in FallbackRow /\ row.scope = scope[a]
      <4>1. state = row /\ row.fails = 0
        BY <1>2, <1>6, <3>1 DEF CurrentState, FallbackRow
      <4>2. row.countedAt = NoTime
        BY <3>1, <4>1 DEF Streaks, Streak
      <4>. QED
        BY <4>1, <4>2
    <3>2. CASE ~(row \in FallbackRow /\ row.scope = scope[a])
      BY <1>1, <3>2 DEF CurrentState
    <3>. QED
      BY <3>1, <3>2
  <2>2. /\ AfterFailure(state, t).fails = 1
        /\ AfterFailure(state, t).countedAt = t
    BY <1>1, <2>1 DEF AfterFailure, Counts, FallbackRow
  <2>3. since'[a] = t
    <3>1. CASE row \in FallbackRow /\ row.scope = scope[a]
      BY <1>3, <1>6, <3>1 DEF OutageStart, Streaks, Streak
    <3>2. CASE ~(row \in FallbackRow /\ row.scope = scope[a])
      BY <1>1, <1>3, <3>2 DEF OutageStart
    <3>. QED
      BY <3>1, <3>2
  <2>4. t <= now' /\ t - t >= (1 - 1) * Interval
    BY <1>2, <1>3
  <2>. QED
    BY <1>3, <1>4, <2>2, <2>3, <2>4 DEF Streak
<1>. QED
  BY <1>5, <1>6

(* Every streak is as long as its failures took. *)
LEMMA StreakStep == TypeOK /\ CapturedBefore /\ Streaks /\ [Next]_vars => Streaks'
<1> SUFFICES ASSUME TypeOK, CapturedBefore, Streaks, [Next]_vars, NEW a \in Accounts
             PROVE  Streak(StoredFallback(a), since[a])'
  BY DEF Streaks
<1>1. TypeOK'
  BY StepTyped
<1>2. now' >= now
  <2>1. now \in Int
    BY StateAssumption DEF TypeOK, Time
  <2>2. now' = now \/ now' = now + 1
    BY DEF Next, vars, rows, history, Tick, Heartbeat, BridgeLost, ChangeWatchlist,
           HeartbeatReset, StartRound, RecordSuccess, AccountFailed, AccountFailedManually,
           HandleFailed, RecordFailure, PaidFallback, PaidFallbackForHandle, CheckBudget,
           ClaimFallback, ToolStart, Gate, Reserve, Send, Abandon
  <2>. QED
    BY <2>1, <2>2
<1>3. now \in Int /\ now' \in Int /\ Time \subseteq Int
  BY <1>1, StateAssumption DEF TypeOK, Time
<1>4. CASE Kept(a)
  <2> DEFINE row == StoredFallback(a)
  <2>1. Streak(row, since[a]) /\ StoredFallback(a)' = row /\ since'[a] = since[a]
    BY <1>4 DEF Kept, Streaks
  <2>2. CASE row \in FallbackRow /\ row.fails > 0
    <3>1. row.countedAt \in Time /\ row.countedAt \in Int /\ row.countedAt <= now
      BY <1>3, <2>1, <2>2 DEF Streak
    <3>2. row.countedAt <= now'
      BY <1>2, <1>3, <3>1
    <3>. QED
      BY <2>1, <2>2, <3>2 DEF Streak
  <2>3. CASE ~(row \in FallbackRow /\ row.fails > 0)
    BY <2>1, <2>3 DEF Streak
  <2>. QED
    BY <2>2, <2>3
<1>5. 0 \in Time /\ \A s \in Scopes : CurrentState(a, s) \in FallbackRow
  BY FallbackTyped, StateAssumption DEF Time
<1>6. CASE Succeeded(a)
  <2>1. PICK s \in Scopes : StoredFallback(a)' = AfterSuccess(CurrentState(a, s))
    BY <1>6 DEF Succeeded
  <2>2. /\ AfterSuccess(CurrentState(a, s)).fails = 0
        /\ AfterSuccess(CurrentState(a, s)).countedAt = NoTime
    BY <1>5 DEF AfterSuccess, FallbackRow
  <2>. QED
    BY <1>6, <2>1, <2>2 DEF Succeeded, Streak
<1>7. CASE Claimed(a)
  <2>1. PICK t \in Time : StoredFallback(a)' = AfterClaim(CurrentState(a, scope[a]), t)
    BY <1>7 DEF Claimed
  <2>2. /\ AfterClaim(CurrentState(a, scope[a]), t).fails = 0
        /\ AfterClaim(CurrentState(a, scope[a]), t).countedAt = NoTime
    BY <1>5 DEF AfterClaim, FallbackRow, TypeOK
  <2>. QED
    BY <1>7, <2>1, <2>2 DEF Claimed, Streak
<1>8. CASE Failed(a)
  BY <1>1, <1>2, <1>8, FailedStreak
<1>. QED
  BY <1>4, <1>6, <1>7, <1>8, FallbackSteps

(* There is no streak in the beginning, or a short one. *)
LEMMA StreakInit == Init => Streaks
<1> SUFFICES ASSUME Init, NEW a \in Accounts PROVE Streak(StoredFallback(a), since[a])
  BY DEF Streaks
<1>1. 0 \in Time /\ NoRow \notin FallbackRow /\ Interval \in Nat
  BY StateAssumption DEF Time
<1>2. StoredFallback(a) = legacyFallback[a] /\ legacyFallback[a] \in LegacyRows
  BY DEF Init, StoredFallback
<1>3. CASE legacyFallback[a] \in FallbackRow
  <2>1. \/ legacyFallback[a].fails = 0 /\ legacyFallback[a].countedAt = NoTime
        \/ legacyFallback[a].fails = 1 /\ legacyFallback[a].countedAt = 0
    BY <1>2, <1>3, StateAssumption
  <2>2. 0 - 0 >= (1 - 1) * Interval /\ 0 <= 0
    BY <1>1
  <2>. QED
    BY <1>1, <1>2, <1>3, <2>1, <2>2 DEF Init, Streak
<1>4. CASE legacyFallback[a] \notin FallbackRow
  BY <1>2, <1>4 DEF Init, Streak
<1>. QED
  BY <1>3, <1>4

(* A paid fallback ends an outage of Threshold - 1 intervals: the streak   *)
(* it spends was counted once per interval since the outage began.         *)
THEOREM OutageHolds == Spec => PaidAfterOutage
<1>1. Init => CapturedBefore
  BY StateAssumption DEF Init, CapturedBefore
<1>2. ASSUME TypeOK, CapturedBefore, Streaks, [Next]_vars,
             NEW a \in Accounts, PaidAt(a)' # PaidAt(a)
      PROVE  since[a] # NoTime /\ now - since[a] >= (Threshold - 1) * Interval
  <2> DEFINE row == StoredFallback(a)
             state == CurrentState(a, scope[a])
  <2>1. state.fails >= Threshold
    BY <1>2, CooldownStep DEF Claimed, MayClaim
  <2>2. /\ state \in FallbackRow /\ row \in FallbackRow \cup {NoRow, Corrupt}
        /\ Threshold \in Nat \ {0} /\ NoTime \notin Int /\ Time \subseteq Int /\ now \in Int
    BY <1>2, FallbackTyped, StateAssumption DEF TypeOK, Time
  <2>3. row \in FallbackRow /\ state = row
    BY <2>1, <2>2 DEF CurrentState
  <2>4. row.fails \in Nat /\ row.fails > 0
    BY <2>1, <2>2, <2>3 DEF FallbackRow
  <2>5. /\ row.countedAt \in Time /\ since[a] \in Time /\ row.countedAt <= now
        /\ row.countedAt - since[a] >= (row.fails - 1) * Interval
    BY <1>2, <2>3, <2>4 DEF Streaks, Streak
  <2>6. /\ (Threshold - 1) * Interval <= (row.fails - 1) * Interval
        /\ (Threshold - 1) * Interval \in Nat /\ (row.fails - 1) * Interval \in Nat
    <3>1. Threshold - 1 \in Nat /\ row.fails - 1 \in Nat /\ Threshold - 1 <= row.fails - 1
      BY <2>1, <2>2, <2>3, <2>4
    <3>. QED
      BY <3>1, IntervalSums
  <2> DEFINE c == row.countedAt
             s == since[a]
             x == (Threshold - 1) * Interval
             y == (row.fails - 1) * Interval
  <2>7. c \in Int /\ s \in Int /\ now \in Int
    BY <2>2, <2>5
  <2>a. c <= now /\ c - s >= y /\ x <= y /\ x \in Nat /\ y \in Nat
    <3> HIDE DEF row
    <3>. QED
      BY <2>5, <2>6
  <2>8. since[a] # NoTime
    BY <2>2, <2>5
  <2> HIDE DEF c, s, x, y
  <2>9. now - s >= x
    BY <2>7, <2>a
  <2>. QED
    BY <2>8, <2>9 DEF s, x
<1>3. TypeOK /\ CapturedBefore /\ Streaks /\ [Next]_vars =>
          [\A a \in Accounts :
              PaidAt(a)' # PaidAt(a) =>
                  /\ since[a] # NoTime
                  /\ now - since[a] >= (Threshold - 1) * Interval]_vars
  BY <1>2
<1>. QED
  BY <1>1, <1>3, CapturedStep, StreakInit, StreakStep, InitTyped, StepTyped, PTL
     DEF Spec, PaidAfterOutage
=============================================================================
