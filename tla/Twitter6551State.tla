-------------------------- MODULE Twitter6551State --------------------------
(***************************************************************************)
(* The guards of the paid 6551 reserve (src/lib/twitter-6551-state.ts) and *)
(* the callers that spend it (src/lib/twitter-6551.ts): the attempts of a  *)
(* UTC day, and for every account of the cloud collector the streak of     *)
(* total FxTwitter failures and the cooldown of the last paid fallback.    *)
(*                                                                         *)
(* Both live in reserved rows of twitter6551_events. Every operation is    *)
(* one immediate transaction, but a paid round takes several of them, with *)
(* the write queue and the network between: the round's time is captured   *)
(* first, the failure is recorded, the budget is looked at, the fallback   *)
(* is claimed, and then every request is gated, reserved and sent.         *)
(***************************************************************************)
EXTENDS Integers, FiniteSets

CONSTANTS
    Accounts,       \* accounts with a fallback row
    Handles,        \* those of them that are single watched handles
    Scopes,         \* what a worker watches, as the row remembers it
    Workers,        \* recovery workers: an old one may outlive its successor
    Tools,          \* budgeted clients without a bridge gate (profile analysis)
    Budget,         \* BIRDCLAW_6551_PAID_DAILY_REQUEST_BUDGET
    Threshold,      \* total failures before a paid fallback
    Interval,       \* recovery interval: failures closer than that count once
    Cooldown,       \* between two paid fallbacks of an account
    DayLength,      \* a UTC day
    MaxTime,        \* bound on the clock
    LegacyUses,     \* what the v0.8.90 table may hold for the first day
    LegacyRows,     \* what it may hold for an account
    NoRow,          \* no stored or legacy row
    Corrupt,        \* a legacy row that does not validate
    NoTime          \* a null timestamp

Time == 0 .. MaxTime
DayOf(t) == t \div DayLength
Days == {DayOf(t) : t \in Time}
Clients == Workers \cup Tools

FallbackRow == [scope : Scopes, fails : Nat, countedAt : Time \cup {NoTime},
                paidAt : Time \cup {NoTime}]

ASSUME StateAssumption ==
    /\ Handles \subseteq Accounts
    /\ IsFiniteSet(Clients)
    /\ Workers \cap Tools = {}
    /\ Budget \in Nat /\ Threshold \in Nat \ {0} /\ Interval \in Nat
    /\ Cooldown \in Nat /\ DayLength \in Nat \ {0} /\ MaxTime \in Nat
    /\ NoTime \notin Int
    /\ NoRow \notin FallbackRow \cup Int
    /\ Corrupt \notin FallbackRow \cup Int
    /\ NoRow # Corrupt
    /\ LegacyUses \subseteq Nat \cup {NoRow, Corrupt}
    /\ LegacyRows \subseteq FallbackRow \cup {NoRow, Corrupt}
    /\ \A row \in LegacyRows \cap FallbackRow :
           \/ row.fails = 0 /\ row.countedAt = NoTime
           \/ row.fails = 1 /\ row.countedAt = 0

VARIABLES
    now,            \* the clock
    fresh,          \* the local bridge sent a healthy heartbeat lately
    resetDue,       \* the heartbeat's reset waits in the write queue
    scope,          \* scope[a]: what is watched for the account now
    usage,          \* usage[d]: reserved attempts of day d, or NoRow
    legacyUsage,    \* the day's row of the v0.8.90 table
    fallback,       \* fallback[a]: the stored row, or NoRow
    legacyFallback, \* the account's row of the v0.8.90 table
    pc,             \* where each client stands
    acc,            \* the account of a worker's round
    at,             \* the time a worker's round captured
    resDay,         \* the day a client's reservation was charged to
    sent,           \* sent[d]: requests sent on a reservation of day d
    since,          \* first total failure of the account's present outage
    after           \* requests a worker sent since the bridge came back

rows == <<usage, legacyUsage, fallback, legacyFallback>>
history == <<sent, since, after>>
vars == <<now, fresh, resetDue, scope, rows, pc, acc, at, resDay, history>>

PCs == {"idle", "fetched", "precheck", "claim", "batch", "gated", "sending"}

TypeOK ==
    /\ now \in Time /\ fresh \in BOOLEAN /\ resetDue \in BOOLEAN
    /\ scope \in [Accounts -> Scopes]
    /\ usage \in [Days -> Nat \cup {NoRow}]
    /\ legacyUsage \in [Days -> Nat \cup {NoRow, Corrupt}]
    /\ fallback \in [Accounts -> FallbackRow \cup {NoRow}]
    /\ legacyFallback \in [Accounts -> FallbackRow \cup {NoRow, Corrupt}]
    /\ pc \in [Clients -> PCs]
    /\ acc \in [Workers -> Accounts]
    /\ at \in [Workers -> Time]
    /\ resDay \in [Clients -> Days]
    /\ sent \in [Days -> Nat]
    /\ since \in [Accounts -> Time \cup {NoTime}]
    /\ after \in [Workers -> Nat]

-----------------------------------------------------------------------------
(* The daily budget *)

\* What a transaction reads for a day; the legacy row is promoted by the read.
StoredUsage(d) == IF usage[d] = NoRow THEN legacyUsage[d] ELSE usage[d]

UsageKnown(d) == StoredUsage(d) # Corrupt

Attempts(d) == IF StoredUsage(d) \in {NoRow, Corrupt} THEN 0 ELSE StoredUsage(d)

PromotedUsage(d) == [usage EXCEPT ![d] = StoredUsage(d)]

BudgetLeftOneMore(d) == UsageKnown(d) /\ Attempts(d) <= Budget  \* mutant

BudgetLeft(d) == UsageKnown(d) /\ Attempts(d) < Budget

-----------------------------------------------------------------------------
(* The streak of failures and the cooldown *)

StoredFallback(a) == IF fallback[a] = NoRow THEN legacyFallback[a] ELSE fallback[a]

FallbackKnown(a) == StoredFallback(a) # Corrupt

\* Every read promotes a valid legacy row.
Promoted(a) ==
    IF FallbackKnown(a) THEN [fallback EXCEPT ![a] = StoredFallback(a)] ELSE fallback

CurrentStateForgets(a, s) ==  \* mutant: another scope is another account
    LET row == StoredFallback(a)
    IN  IF row \notin {NoRow, Corrupt} /\ row.scope = s THEN row
        ELSE [scope |-> s, fails |-> 0, countedAt |-> NoTime, paidAt |-> NoTime]

\* The state under a scope: another scope starts a new streak, but the time
\* of the last paid fallback stays.
CurrentState(a, s) ==
    LET row == StoredFallback(a)
    IN  IF row \in {NoRow, Corrupt}
        THEN [scope |-> s, fails |-> 0, countedAt |-> NoTime, paidAt |-> NoTime]
        ELSE IF row.scope = s THEN row
        ELSE [scope |-> s, fails |-> 0, countedAt |-> NoTime, paidAt |-> row.paidAt]

CountsAlways(state, t) == TRUE  \* mutant: minimumFailureIntervalMs ignored

\* A total failure counts when the last counted one is an interval back.
Counts(state, t) == state.countedAt = NoTime \/ t - state.countedAt >= Interval

AfterFailure(state, t) ==
    IF Counts(state, t)
    THEN [state EXCEPT !.fails = @ + 1, !.countedAt = t]
    ELSE state

\* FxTwitter answered, in part or in full, or the local bridge did.
AfterSuccess(state) == [state EXCEPT !.fails = 0, !.countedAt = NoTime]

CoolingDown(state, t) == state.paidAt # NoTime /\ t - state.paidAt < Cooldown

AfterClaim(state, t) ==
    [state EXCEPT !.fails = 0, !.countedAt = NoTime, !.paidAt = t]

-----------------------------------------------------------------------------
(* Initial states: a database of this version, or one that still carries   *)
(* the rows of the v0.8.90 tables, valid or not                             *)

Init ==
    /\ now = 0 /\ fresh = FALSE /\ resetDue = FALSE
    /\ scope \in [Accounts -> Scopes]
    /\ usage = [d \in Days |-> NoRow]
    /\ legacyUsage \in {[d \in Days |-> IF d = 0 THEN u ELSE NoRow] :
                            u \in LegacyUses}
    /\ fallback = [a \in Accounts |-> NoRow]
    /\ legacyFallback \in [Accounts -> LegacyRows]
    /\ pc = [c \in Clients |-> "idle"]
    /\ acc \in [Workers -> Accounts]
    /\ at = [w \in Workers |-> 0]
    /\ resDay = [c \in Clients |-> 0]
    /\ sent = [d \in Days |-> 0]
    /\ since = [a \in Accounts |->
                    IF legacyFallback[a] \in FallbackRow /\ legacyFallback[a].fails > 0
                    THEN 0 ELSE NoTime]
    /\ after = [w \in Workers |-> 0]

-----------------------------------------------------------------------------
(* The environment *)

Tick ==
    /\ now < MaxTime
    /\ now' = now + 1
    /\ UNCHANGED <<fresh, resetDue, scope, rows, pc, acc, at, resDay, history>>

\* The watch list is edited; the scope of a single handle never changes.
ChangeWatchlist(a, s) ==
    /\ a \notin Handles
    /\ scope[a] # s
    /\ scope' = [scope EXCEPT ![a] = s]
    /\ UNCHANGED <<now, fresh, resetDue, rows, pc, acc, at, resDay, history>>

\* A healthy heartbeat: the bridge is fresh at once, the streak's reset is queued.
Heartbeat ==
    /\ ~fresh
    /\ fresh' = TRUE /\ resetDue' = TRUE
    /\ after' = [w \in Workers |-> 0]
    /\ UNCHANGED <<now, scope, rows, pc, acc, at, resDay, sent, since>>

\* It records a success of the configured account, under the scope of the
\* configuration, which need not be the scope the worker merges.
HeartbeatReset(a, s) ==
    /\ resetDue /\ a \notin Handles
    /\ resetDue' = FALSE
    /\ IF FallbackKnown(a)
       THEN /\ fallback' = [fallback EXCEPT ![a] = AfterSuccess(CurrentState(a, s))]
            /\ since' = [since EXCEPT ![a] = NoTime]
       ELSE UNCHANGED <<fallback, since>>
    /\ UNCHANGED <<now, fresh, scope, usage, legacyUsage, legacyFallback, pc, acc,
                   at, resDay, sent, after>>

BridgeLost ==
    /\ fresh
    /\ fresh' = FALSE
    /\ UNCHANGED <<now, resetDue, scope, rows, pc, acc, at, resDay, history>>

-----------------------------------------------------------------------------
(* A recovery round of a worker for one account *)

Go(c, next) == pc' = [pc EXCEPT ![c] = next]

\* FxTwitter was asked; handles take the time here and keep it for the round.
StartRound(w, a) ==
    /\ pc[w] = "idle"
    /\ Go(w, "fetched")
    /\ acc' = [acc EXCEPT ![w] = a]
    /\ at' = [at EXCEPT ![w] = IF a \in Handles THEN now ELSE @]
    /\ UNCHANGED <<now, fresh, resetDue, scope, rows, resDay, history>>

\* FxTwitter answered, for everything or for a part.
RecordSuccess(w) ==
    LET a == acc[w]
    IN  /\ pc[w] = "fetched"
        /\ Go(w, "idle")
        /\ IF FallbackKnown(a)
           THEN /\ fallback' = [fallback EXCEPT ![a] = AfterSuccess(CurrentState(a, scope[a]))]
                /\ since' = [since EXCEPT ![a] = NoTime]
           ELSE UNCHANGED <<fallback, since>>
        /\ UNCHANGED <<now, fresh, resetDue, scope, usage, legacyUsage, legacyFallback,
                       acc, at, resDay, sent, after>>

\* The outage of an account starts with its first total failure under a scope.
OutageStart(a, t) ==
    LET row == StoredFallback(a)
    IN  IF since[a] = NoTime \/ row \in {NoRow, Corrupt} \/ row.scope # scope[a]
        THEN t ELSE since[a]

RecordFailure(w, t, next) ==
    LET a == acc[w]
    IN  /\ pc[w] = "fetched"
        /\ IF FallbackKnown(a)
           THEN /\ fallback' = [fallback EXCEPT ![a] = AfterFailure(CurrentState(a, scope[a]), t)]
                /\ since' = [since EXCEPT ![a] = OutageStart(a, t)]
                /\ Go(w, next)
           ELSE Go(w, "idle") /\ UNCHANGED <<fallback, since>>
        /\ UNCHANGED <<now, fresh, resetDue, scope, usage, legacyUsage, legacyFallback,
                       acc, at, resDay, sent, after>>

\* Every target of the configured account failed: below the threshold the
\* round is over.
AccountFailed(w) ==
    /\ acc[w] \notin Handles
    /\ LET state == AfterFailure(CurrentState(acc[w], scope[acc[w]]), now)
       IN  RecordFailure(w, now, IF state.fails < Threshold THEN "idle" ELSE "precheck")

\* A manual run forbids paid requests and does not count the failure.
AccountFailedManually(w) ==
    /\ pc[w] = "fetched" /\ acc[w] \notin Handles
    /\ Go(w, "idle")
    /\ fallback' = Promoted(acc[w])
    /\ UNCHANGED <<now, fresh, resetDue, scope, usage, legacyUsage, legacyFallback, acc, at,
                   resDay, history>>

\* The failure of a single handle is counted by manual runs too. Twillot
\* takes the handle over, a manual run ends here, or the claim comes next.
HandleFailed(w) ==
    /\ acc[w] \in Handles
    /\ \E next \in {"idle", "claim"} : RecordFailure(w, at[w], next)

\* ensurePaidBudgetAvailable; the read promotes the legacy row.
CheckBudget(w, next) ==
    /\ pc[w] = "precheck"
    /\ usage' = IF UsageKnown(DayOf(now)) THEN PromotedUsage(DayOf(now)) ELSE usage
    /\ Go(w, IF BudgetLeft(DayOf(now)) THEN next ELSE "idle")
    /\ UNCHANGED <<now, fresh, resetDue, scope, legacyUsage, fallback, legacyFallback,
                   acc, at, resDay, history>>

MayClaim(state, t) == state.fails >= Threshold /\ ~CoolingDown(state, t)

\* claimTwitter6551PaidFallback
ClaimFallback(w, t, next) ==
    LET a == acc[w]
        state == CurrentState(a, scope[a])
    IN  /\ pc[w] = "claim"
        /\ IF FallbackKnown(a) /\ MayClaim(state, t)
           THEN /\ fallback' = [fallback EXCEPT ![a] = AfterClaim(state, t)]
                /\ since' = [since EXCEPT ![a] = NoTime]
                /\ Go(w, next)
           ELSE /\ fallback' = Promoted(a)
                /\ Go(w, "idle")
                /\ UNCHANGED since
        /\ UNCHANGED <<now, fresh, resetDue, scope, usage, legacyUsage, legacyFallback,
                       acc, at, resDay, sent, after>>

\* runPaidFallback, for the configured account: the bridge and the budget are
\* looked at before the cooldown is claimed.
PaidFallback(w) ==
    /\ acc[w] \notin Handles
    /\ \/ fresh /\ pc[w] = "precheck" /\ Go(w, "idle")
          /\ UNCHANGED <<now, fresh, resetDue, scope, rows, acc, at, resDay, history>>
       \/ ~fresh /\ CheckBudget(w, "claim")
       \/ ClaimFallback(w, now, "batch")

\* runPaidFallbackForHandles: the cooldown is claimed, at the round's time,
\* before the budget is looked at.
PaidFallbackForHandle(w) ==
    /\ acc[w] \in Handles
    /\ ClaimFallback(w, at[w], "precheck") \/ CheckBudget(w, "batch")

-----------------------------------------------------------------------------
(* The requests of a batch, and their retries: each attempt is gated,      *)
(* reserved and sent                                                        *)

ToolStart(c) ==
    /\ c \in Tools /\ pc[c] = "idle"
    /\ Go(c, "batch")
    /\ UNCHANGED <<now, fresh, resetDue, scope, rows, acc, at, resDay, history>>

SuppressedNever(c) == FALSE  \* mutant: only the start of a batch looks at the bridge

\* shouldSuppress, asked before the reservation is queued.
Suppressed(c) == c \in Workers /\ fresh

Gate(c) ==
    /\ pc[c] = "batch"
    /\ Go(c, IF Suppressed(c) THEN "idle" ELSE "gated")
    /\ UNCHANGED <<now, fresh, resetDue, scope, rows, acc, at, resDay, history>>

\* reserveTwitter6551RequestAttempt
Reserve(c) ==
    LET d == DayOf(now)
    IN  /\ pc[c] = "gated"
        /\ IF BudgetLeft(d)
           THEN /\ usage' = [usage EXCEPT ![d] = Attempts(d) + 1]
                /\ resDay' = [resDay EXCEPT ![c] = d]
                /\ Go(c, "sending")
           ELSE /\ Go(c, "idle")
                /\ UNCHANGED <<usage, resDay>>
        /\ UNCHANGED <<now, fresh, resetDue, scope, legacyUsage, fallback, legacyFallback,
                       acc, at, history>>

\* The attempt reaches the network; a retry or the next request follows, or
\* the batch is over.
Send(c) ==
    /\ pc[c] = "sending"
    /\ sent' = [sent EXCEPT ![resDay[c]] = @ + 1]
    /\ after' = IF c \in Workers /\ fresh THEN [after EXCEPT ![c] = @ + 1] ELSE after
    /\ Go(c, "batch") \/ Go(c, "idle")
    /\ UNCHANGED <<now, fresh, resetDue, scope, rows, acc, at, resDay, since>>

\* The process dies or the round fails elsewhere: rows stay, the round is gone.
Abandon(c) ==
    /\ pc[c] # "idle"
    /\ Go(c, "idle")
    /\ UNCHANGED <<now, fresh, resetDue, scope, rows, acc, at, resDay, history>>

-----------------------------------------------------------------------------
Next ==
    \/ Tick
    \/ Heartbeat
    \/ BridgeLost
    \/ \E a \in Accounts, s \in Scopes : ChangeWatchlist(a, s) \/ HeartbeatReset(a, s)
    \/ \E w \in Workers :
           \/ \E a \in Accounts : StartRound(w, a)
           \/ RecordSuccess(w)
           \/ AccountFailed(w) \/ AccountFailedManually(w) \/ HandleFailed(w)
           \/ PaidFallback(w) \/ PaidFallbackForHandle(w)
    \/ \E c \in Clients : ToolStart(c) \/ Gate(c) \/ Reserve(c) \/ Send(c) \/ Abandon(c)

Spec == Init /\ [][Next]_vars

-----------------------------------------------------------------------------
(* The hard limit: what was sent on reservations of a day, and what was    *)
(* spent before the upgrade, stay within the day's budget (or what the     *)
(* upgrade found already spent), however many clients race; an attempt     *)
(* that is still to be sent has been counted.                              *)
SpentBefore(d) == IF legacyUsage[d] \in Nat THEN legacyUsage[d] ELSE 0

Sending(d) == {c \in Clients : pc[c] = "sending" /\ resDay[c] = d}

HardLimit ==
    \A d \in Days :
        /\ SpentBefore(d) + sent[d] + Cardinality(Sending(d)) <= Attempts(d)
        /\ Attempts(d) <= IF SpentBefore(d) > Budget THEN SpentBefore(d) ELSE Budget

(* "corrupt legacy state blocks paid requests": none is sent on a day whose *)
(* legacy row does not validate, and nothing overwrites that row's verdict. *)
CorruptBlocks ==
    \A d \in Days : legacyUsage[d] = Corrupt => sent[d] = 0 /\ usage[d] = NoRow

(* No day is overspent, whatever clients race for it and whatever the      *)
(* upgrade finds in the old table.                                         *)
BudgetKept == HardLimit /\ CorruptBlocks

(* A returning bridge stops a paid batch: at most the one attempt that had *)
(* passed the gate is still sent.                                           *)
OneAttemptAfterReturn == \A w \in Workers : after[w] <= 1

(* Two paid fallbacks of an account are a cooldown apart, over changes of  *)
(* the watch list, recoveries in between, restarts and the upgrade.        *)
PaidAt(a) == IF StoredFallback(a) \in FallbackRow THEN StoredFallback(a).paidAt ELSE NoTime

CooldownKept ==
    [][\A a \in Accounts :
          PaidAt(a)' # PaidAt(a) =>
              /\ PaidAt(a)' # NoTime
              /\ PaidAt(a) # NoTime => PaidAt(a)' - PaidAt(a) >= Cooldown]_vars

(* A paid fallback ends an outage of Threshold - 1 recovery intervals at   *)
(* least, in which FxTwitter never answered and the scope stayed the same: *)
(* neither two workers nor manual runs in between hurry the count.         *)
PaidAfterOutage ==
    [][\A a \in Accounts :
          PaidAt(a)' # PaidAt(a) =>
              /\ since[a] # NoTime
              /\ now - since[a] >= (Threshold - 1) * Interval]_vars
=============================================================================
