------------------------ MODULE TwillotHistoryProofs ------------------------
(***************************************************************************)
(* Proofs about TwillotHistory for every number of jobs, posts, exports,   *)
(* failures and restored backups, and every limit and lease time: storage  *)
(* keeps its types and agrees with the server, every post is read and      *)
(* charged once, and a completed job has imported a fresh export.          *)
(***************************************************************************)
EXTENDS TwillotHistory, TwillotQueueProofs

-----------------------------------------------------------------------------
(* The inductive invariant.                                                *)

Positions == Posts \cup {NoCursor}

(* What a batch says of itself follows from what its identifier digests.   *)
Digested(x) ==
    /\ x.batch.job = x.job /\ x.batch.done = x.done
    /\ x.count = Cardinality(x.batch.records)
    /\ x.cursor = IF x.batch.records = {} THEN x.batch.before
                  ELSE Min(x.batch.records)

(* A row that a restored backup dropped does not come back.                *)
GoneAbsent == \A j \in gone : job[j].state = "absent"

(* What was imported was in the library, whose newest post stays.          *)
ReceiptsRead ==
    \A r \in receipts :
        /\ Digested(r)
        /\ \A p \in r.batch.records : \E q \in library[r.job] : p <= q

(* The cursor has passed what was imported, until the job starts again.    *)
ImportedBehind ==
    \A j \in Jobs \ again : \A q \in Imported(j) :
        job[j].cursor # NoCursor /\ job[j].cursor <= q

(* What the server and its surroundings keep.                              *)
ServerTyped ==
    /\ TypeOK
    /\ library \in [Jobs -> SUBSET Posts] /\ lastSync \in [Jobs -> Nat]
    /\ restores \in 0..Restores
    /\ gone \subseteq Jobs /\ again \subseteq Jobs
    /\ firstSync \in [Jobs -> Nat]
    /\ \A j \in Jobs : firstSync[j] <= lastSync[j]

ServerInv ==
    /\ ServerTyped /\ LeaseShape /\ AbsentRows /\ GoneAbsent
    /\ ReceiptsRead /\ ImportedBehind
    /\ NothingSkipped /\ PostsChargedOnce /\ CompletedFromFreshExport

(* The tokens a job has given out: a restore forgets how many.             *)
TokenGiven(j, token) == j \in gone \/ token <= job[j].attempts

(* What may be kept of a lease: whoever has its token while that is the    *)
(* live one knows where the job stands.                                    *)
KnownLeases ==
    {l \in [job : Jobs, token : 1..MaxAttempts, cursor : Positions,
            allowance : 0..DailyLimit] :
        /\ TokenGiven(l.job, l.token)
        /\ job[l.job].token = l.token =>
             l.cursor = job[l.job].cursor /\ l.allowance = job[l.job].allowance}

(* What may be kept of a batch.  While its token is the live one it was    *)
(* read from where the job stands, within its allowance, and whatever is   *)
(* still in the library between its ends, or below if it is the last, is   *)
(* in it, if not newer than all that was seen.                             *)
ReadHere(b) ==
    LET r == job[b.job]
        records == b.batch.records
    IN  /\ b.batch.before = r.cursor /\ b.count <= r.allowance
        /\ \A p \in library[b.job] :
             /\ r.cursor = NoCursor \/ p < r.cursor
             /\ \E q \in Imported(b.job) \cup records : p <= q
             /\ b.done \/ (b.cursor # NoCursor /\ p >= b.cursor)
             => p \in records

KnownBatches ==
    {b \in Submissions :
        /\ Digested(b) /\ TokenGiven(b.job, b.token)
        /\ \A p \in b.batch.records :
             /\ b.batch.before # NoCursor => p < b.batch.before
             /\ \E q \in library[b.job] : p <= q
        /\ lastSync[b.job] > firstSync[b.job]
        /\ job[b.job].token = b.token => ReadHere(b)}

(* What may be kept of a job's freshness: nothing before its first lease,  *)
(* and no export that ended before it counts.                              *)
KnownCaptures ==
    [j \in Jobs |->
        {c \in Captured :
            /\ TokenGiven(j, 1)
            /\ c.base # Pending => firstSync[j] <= c.base
            /\ c.approved # 0 => firstSync[j] < c.approved}]

StorageInv ==
    /\ active \in KnownLeases \cup {Null}
    /\ outbox \in KnownBatches \cup {Null}
    /\ capture \in [Jobs -> Captured \cup {Null}]
    /\ \A j \in Jobs : capture[j] \in KnownCaptures[j] \cup {Null}

(* The requests.                                                           *)
Kinds == {"claim", "heartbeat", "batch", "error"}

SoundBody(m) ==
    /\ m.kind \in {"heartbeat", "error"} =>
         m.body.job \in Jobs /\ m.body.token \in 1..MaxAttempts
    /\ m.kind = "batch" => m.body \in KnownBatches

(* One request is current, and what it asks for is still awaited; a lease  *)
(* that was answered is still the job's if it is not over.                 *)
Talk ==
    /\ running \in Kinds \cup {"idle", "claimed"}
    /\ failures \in 0..MaxFailures
    /\ \A m \in net :
         /\ m.kind \in Kinds /\ m.number \in 0..failures /\ SoundBody(m)
         /\ m.number = failures => running = m.kind /\ reply = Null
    /\ \A m1, m2 \in net :
         m1.number = failures /\ m2.number = failures => m1 = m2
    /\ running = "idle" => reply = Null
    /\ running = "claimed" => reply # Null /\ reply.answer = "job"
    /\ reply # Null /\ reply.answer = "job" => reply.lease \in KnownLeases

HInv == ServerInv /\ StorageInv /\ Talk

-----------------------------------------------------------------------------
(* Posts.                                                                  *)

(* Posts are finitely many natural numbers. *)
LEMMA PostsAreNumbers ==
    /\ MaxPosts \in Nat /\ Posts \subseteq Nat
    /\ \A S \in SUBSET Posts : IsFiniteSet(S) /\ Cardinality(S) \in Nat
<1>1. MaxPosts \in Nat
  BY HistoryAssumption
<1>2. IsFiniteSet(Posts) /\ Posts \subseteq Nat
  BY <1>1, FS_Interval DEF Posts
<1>3. ASSUME NEW S \in SUBSET Posts
      PROVE  IsFiniteSet(S) /\ Cardinality(S) \in Nat
  BY <1>2, FS_Subset, FS_CardinalityType
<1>. QED
  BY <1>1, <1>2, <1>3

(* No post is taken for the start of the library. *)
LEMMA NoCursorIsNoPost == NoCursor \notin Posts /\ Cursors = Posts /\ Batches = BatchIds
BY HistoryAssumption, SentinelAssumption

(* Some posts have an oldest one. *)
LEMMA OldestPost ==
    ASSUME NEW S \in SUBSET Posts, S # {}
    PROVE  Min(S) \in S /\ \A y \in S : Min(S) <= y
<1>. DEFINE R == OpToRel(<, Nat)
<1>1. IsWellFoundedOn(R, Nat)
  BY NatLessThanWellFounded
<1>2. \A x, y \in Nat : y < x => <<y, x>> \in R
  BY DEF OpToRel
<1>3. S \subseteq Nat
  BY PostsAreNumbers
<1>. HIDE DEF R
<1>4. PICK x \in S : \A y \in S : ~(<<y, x>> \in R)
  BY <1>1, <1>3, WFMin
<1>5. ASSUME NEW y \in S PROVE x <= y
  <2>1. x \in Nat /\ y \in Nat /\ ~(y < x)
    BY <1>2, <1>3, <1>4
  <2>. QED
    BY <2>1
<1>. QED
  BY <1>5 DEF Min

(* The newest posts of a set are as many as were asked for, and none of    *)
(* them is skipped.                                                        *)
LEMMA NewestPosts ==
    ASSUME NEW S \in SUBSET Posts, NEW n \in Nat
    PROVE  /\ Newest(S, n) \subseteq S
           /\ Cardinality(Newest(S, n)) \in 0..n
           /\ \A p \in Newest(S, n), q \in S : p <= q => q \in Newest(S, n)
<1>. DEFINE Newer(p) == {q \in S : q > p}
            N == Newest(S, n)
<1>1. N \subseteq S /\ \A p \in S : p \in N <=> Cardinality(Newer(p)) < n
  BY DEF Newest
<1>2. ASSUME NEW p \in S
      PROVE  /\ IsFiniteSet(Newer(p)) /\ Cardinality(Newer(p)) \in Nat
             /\ p \notin Newer(p)
  <2>1. Newer(p) \in SUBSET Posts
    OBVIOUS
  <2>2. p \in Nat
    BY PostsAreNumbers
  <2>3. p \notin Newer(p)
    BY <2>2
  <2>. QED
    BY <2>1, <2>3, PostsAreNumbers
<1>3. ASSUME NEW p \in N, NEW q \in S, p <= q PROVE q \in N
  <2>1. Newer(q) \subseteq Newer(p)
    <3>1. S \subseteq Nat /\ p \in Nat /\ q \in Nat
      BY <1>1, PostsAreNumbers
    <3>2. ASSUME NEW r \in Newer(q) PROVE r > p
      <4>1. r \in Nat /\ r > q
        BY <3>1
      <4>. QED
        BY <1>3, <3>1, <4>1
    <3>. QED
      BY <3>2
  <2>2. Cardinality(Newer(q)) <= Cardinality(Newer(p))
    BY <1>1, <1>2, <2>1, FS_Subset
  <2>. HIDE DEF Newer
  <2>. QED
    BY <1>1, <1>2, <2>2
<1>4. Cardinality(N) \in 0..n
  <2>1. CASE N = {}
    <3>1. Cardinality(N) = 0
      BY <2>1, FS_EmptySet
    <3>. HIDE DEF N
    <3>. QED
      BY <3>1
  <2>2. CASE N # {}
    <3>. DEFINE m == Min(N)
    <3>1. m \in N /\ \A y \in N : m <= y
      BY <1>1, <2>2, OldestPost
    <3>2. N \subseteq Newer(m) \cup {m}
      <4>1. S \subseteq Nat /\ N \subseteq S
        BY <1>1, PostsAreNumbers
      <4>2. m \in Nat
        BY <3>1, <4>1
      <4>. HIDE DEF N, m
      <4>. QED
        BY <3>1, <4>1, <4>2
    <3>3. /\ IsFiniteSet(Newer(m) \cup {m})
          /\ Cardinality(Newer(m) \cup {m}) = Cardinality(Newer(m)) + 1
      BY <1>1, <1>2, <3>1, FS_AddElement
    <3>4. Cardinality(N) <= Cardinality(Newer(m) \cup {m})
      BY <3>2, <3>3, FS_Subset
    <3>5. Cardinality(N) \in Nat
      BY <1>1, PostsAreNumbers
    <3>6. Cardinality(Newer(m)) < n /\ Cardinality(Newer(m)) \in Nat
      BY <1>1, <1>2, <3>1
    <3>. HIDE DEF N, m, Newer
    <3>. QED
      BY <3>3, <3>4, <3>5, <3>6
  <2>. QED
    BY <2>1, <2>2
<1>. QED
  BY <1>1, <1>3, <1>4

-----------------------------------------------------------------------------
(* What a scan reads from a known lease is a known batch.                  *)

LEMMA ScanReadsKnown ==
    ASSUME ServerTyped, NEW l \in KnownLeases, lastSync[l.job] > firstSync[l.job]
    PROVE  BatchFrom(l) \in KnownBatches
<1>. DEFINE U == Unread(l)
            R == RecordsOfBatch(l)
            b == BatchFrom(l)
<1>1. /\ l.job \in Jobs /\ l.token \in 1..MaxAttempts /\ l.cursor \in Positions
      /\ l.allowance \in 0..DailyLimit /\ TokenGiven(l.job, l.token)
  BY DEF KnownLeases
<1>2. library[l.job] \in SUBSET Posts
  BY <1>1 DEF ServerTyped
<1>3. U \in SUBSET Posts /\ U \subseteq library[l.job]
  BY <1>2 DEF Unread
<1>4. l.allowance \in Nat /\ DailyLimit \in Nat
  BY <1>1, QuotaAssumption
<1>5. /\ R \subseteq U /\ Cardinality(R) \in 0..l.allowance
      /\ \A p \in R, q \in U : p <= q => q \in R
  BY <1>3, <1>4, NewestPosts DEF RecordsOfBatch
<1>6. R # {} => Min(R) \in R /\ Min(R) \in Posts
  BY <1>3, <1>5, OldestPost
<1>7. /\ b.batch = [job |-> l.job, before |-> l.cursor, records |-> R, done |-> R = U]
      /\ b.batch.job = l.job /\ b.batch.before = l.cursor
      /\ b.batch.records = R /\ b.batch.done = (R = U)
      /\ b.job = l.job /\ b.token = l.token /\ b.count = Cardinality(R)
      /\ b.done = (R = U) /\ b.cursor = CursorAfter(l, R)
      /\ b = [batch |-> b.batch, job |-> b.job, token |-> b.token,
              count |-> b.count, done |-> b.done, cursor |-> b.cursor]
  BY DEF BatchFrom
<1>8. CursorAfter(l, R) = IF R = {} THEN l.cursor ELSE Min(R)
  BY DEF CursorAfter
<1>. HIDE DEF U, R, b
<1>9. b \in Submissions
  <2>1. b.batch \in Batches
    BY <1>1, <1>3, <1>5, <1>7, NoCursorIsNoPost DEF BatchIds, Positions
  <2>2. b.count \in 0..DailyLimit
    BY <1>1, <1>4, <1>5, <1>7
  <2>3. b.cursor \in Cursors \cup {NoCursor}
    BY <1>1, <1>6, <1>7, <1>8, NoCursorIsNoPost DEF Positions
  <2>4. b.done \in BOOLEAN /\ b.job \in Jobs /\ b.token \in 1..MaxAttempts
    BY <1>1, <1>7
  <2>. QED
    BY <1>7, <2>1, <2>2, <2>3, <2>4 DEF Submissions
<1>10. Digested(b)
  BY <1>7, <1>8 DEF Digested
<1>11. \A p \in b.batch.records :
         /\ b.batch.before # NoCursor => p < b.batch.before
         /\ \E q \in library[b.job] : p <= q
  <2>1. SUFFICES ASSUME NEW p \in R
                 PROVE  /\ l.cursor # NoCursor => p < l.cursor
                        /\ \E q \in library[l.job] : p <= q
    BY <1>7
  <2>2. p \in U /\ p \in Nat
    BY <1>3, <1>5, PostsAreNumbers
  <2>3. p \in library[l.job] /\ (l.cursor # NoCursor => p < l.cursor)
    BY <2>2 DEF U, Unread
  <2>. QED
    BY <2>2, <2>3
<1>12. ASSUME job[b.job].token = b.token PROVE ReadHere(b)
  <2>1. job[l.job].cursor = l.cursor /\ job[l.job].allowance = l.allowance
    BY <1>7, <1>12 DEF KnownLeases
  <2>2. b.batch.before = job[b.job].cursor /\ b.count <= job[b.job].allowance
    BY <1>4, <1>5, <1>7, <2>1
  <2>3. ASSUME NEW p \in library[b.job],
               job[b.job].cursor = NoCursor \/ p < job[b.job].cursor,
               b.done \/ (b.cursor # NoCursor /\ p >= b.cursor)
        PROVE  p \in b.batch.records
    <3>1. p \in U
      BY <1>7, <2>1, <2>3 DEF U, Unread
    <3>2. CASE b.done
      BY <1>7, <3>1, <3>2
    <3>3. CASE ~b.done /\ R # {}
      <4>1. b.cursor = Min(R) /\ Min(R) \in R
        BY <1>6, <1>7, <1>8, <3>3
      <4>2. Min(R) \in Nat /\ p \in Nat
        BY <1>3, <1>6, <3>1, <3>3, PostsAreNumbers
      <4>. QED
        BY <1>5, <1>7, <2>3, <3>1, <3>3, <4>1, <4>2
    <3>4. CASE ~b.done /\ R = {}
      <4>1. b.cursor = l.cursor
        BY <1>7, <1>8, <3>4
      <4>2. l.cursor # NoCursor /\ p >= l.cursor /\ p < l.cursor
        BY <1>7, <2>1, <2>3, <3>4, <4>1
      <4>3. l.cursor \in Nat /\ p \in Nat
        BY <1>1, <1>3, <3>1, <4>2, PostsAreNumbers DEF Positions
      <4>. QED
        BY <4>2, <4>3
    <3>. QED
      BY <3>2, <3>3, <3>4
  <2>. QED
    BY <2>2, <2>3 DEF ReadHere
<1>13. TokenGiven(b.job, b.token) /\ lastSync[b.job] > firstSync[b.job]
  BY <1>1, <1>7
<1>14. b \in KnownBatches
  BY <1>9, <1>10, <1>11, <1>12, <1>13 DEF KnownBatches
<1>. QED
  BY <1>14 DEF b

-----------------------------------------------------------------------------
(* The server's side of a step.                                            *)

(* What was known of leases, batches and captures is still known.          *)
StillKnown ==
    /\ KnownLeases \subseteq KnownLeases'
    /\ KnownBatches \subseteq KnownBatches'
    /\ \A j \in Jobs : KnownCaptures[j] \subseteq KnownCaptures'[j]

(* A step of the queue that records nothing, and only leases or restarts.  *)
QuietStep ==
    /\ Quiet /\ UNCHANGED <<library_vars, restores, gone>>
    /\ again \subseteq again' /\ again' \subseteq Jobs
    /\ \A j \in gone : job'[j].state = "absent"
    /\ \A j \in Jobs \ again' : job'[j].cursor = job[j].cursor
    /\ firstSync' \in [Jobs -> Nat]
    /\ \A j \in Jobs :
         \/ firstSync'[j] = firstSync[j]
         \/ /\ firstSync'[j] = lastSync[j]
            /\ job[j].attempts = 0 /\ job'[j].state = "leased"

(* A quiet step of the queue keeps what the server knows. *)
LEMMA QuietKeepsServer ==
    ASSUME ServerInv, TypeOK', LeaseShape', AbsentRows', QuietStep
    PROVE  ServerInv'
<1>1. /\ receipts' = receipts /\ library' = library /\ lastSync' = lastSync
      /\ gone' = gone /\ again \subseteq again'
      /\ \A j \in Jobs : Continues(job[j], job'[j])
      /\ \A j \in Jobs : Imported(j)' = Imported(j)
  BY DEF QuietStep, Quiet, library_vars, Imported
<1>2. ServerTyped'
  <2>1. ASSUME NEW j \in Jobs PROVE firstSync'[j] <= lastSync'[j]
    BY <1>1 DEF QuietStep, ServerInv, ServerTyped
  <2>. QED
    BY <1>1, <2>1 DEF QuietStep, ServerInv, ServerTyped
<1>3. GoneAbsent'
  BY <1>1 DEF QuietStep, GoneAbsent
<1>4. ReceiptsRead'
  BY <1>1 DEF ServerInv, ReceiptsRead
<1>5. ImportedBehind'
  <2>1. ASSUME NEW j \in Jobs \ again'
        PROVE  j \in Jobs \ again /\ job'[j].cursor = job[j].cursor
    BY <1>1 DEF QuietStep
  <2>. QED
    BY <1>1, <2>1 DEF ServerInv, ImportedBehind
<1>6. NothingSkipped'
  <2>1. ASSUME NEW j \in Jobs
        PROVE  /\ job'[j].state = "completed" => job[j].state = "completed"
               /\ job'[j].cursor # NoCursor => job'[j].cursor = job[j].cursor
    BY <1>1 DEF Continues
  <2>. QED
    BY <1>1, <2>1 DEF ServerInv, NothingSkipped
<1>7. PostsChargedOnce'
  BY <1>1 DEF ServerInv, PostsChargedOnce
<1>8. CompletedFromFreshExport'
  <2>1. ASSUME NEW j \in Jobs \ again', job'[j].state = "completed"
        PROVE  lastSync'[j] > firstSync'[j]
    <3>1. j \in Jobs \ again /\ job[j].state = "completed"
      BY <1>1, <2>1 DEF Continues
    <3>2. firstSync'[j] = firstSync[j]
      BY <2>1 DEF QuietStep
    <3>. QED
      BY <1>1, <3>1, <3>2 DEF ServerInv, CompletedFromFreshExport
  <2>. QED
    BY <2>1 DEF CompletedFromFreshExport
<1>. QED
  BY <1>2, <1>3, <1>4, <1>5, <1>6, <1>7, <1>8 DEF ServerInv

(* After a quiet step everything that was known still is. *)
LEMMA QuietKeepsKnown ==
    ASSUME ServerInv, TypeOK', LeaseShape', QuietStep
    PROVE  StillKnown
<1>1. /\ receipts' = receipts /\ library' = library /\ lastSync' = lastSync
      /\ gone' = gone /\ \A j \in Jobs : Continues(job[j], job'[j])
      /\ \A j \in Jobs : Imported(j)' = Imported(j)
  BY DEF QuietStep, Quiet, library_vars, Imported
<1>a. \A j \in Jobs : job[j].attempts \in Nat /\ job'[j].attempts \in Nat
  BY DEF ServerInv, ServerTyped, TypeOK, Row
<1>2. ASSUME NEW j \in Jobs, NEW token \in 1..MaxAttempts, TokenGiven(j, token)
      PROVE  /\ TokenGiven(j, token)'
             /\ firstSync'[j] = firstSync[j]
             /\ job'[j].token = token =>
                  /\ job[j].token = token /\ job'[j].cursor = job[j].cursor
                  /\ job'[j].allowance = job[j].allowance
  <2>1. TokenGiven(j, token)'
    BY <1>1, <1>2, <1>a DEF TokenGiven, Continues
  <2>2. firstSync'[j] = firstSync[j]
    BY <1>2, <1>a DEF QuietStep, TokenGiven
  <2>3. ASSUME job'[j].token = token
        PROVE  /\ job[j].token = token /\ job'[j].cursor = job[j].cursor
               /\ job'[j].allowance = job[j].allowance
    <3>1. job'[j].state = "leased"
      BY <2>3, SentinelAssumption DEF LeaseShape, RowShape
    <3>2. j \notin gone
      BY <3>1 DEF QuietStep
    <3>. QED
      BY <1>1, <1>2, <1>a, <2>3, <3>1, <3>2 DEF Continues, TokenGiven
  <2>. QED
    BY <2>1, <2>2, <2>3
<1>3. KnownLeases \subseteq KnownLeases'
  <2>1. ASSUME NEW l \in KnownLeases PROVE l \in KnownLeases'
    <3>1. l.job \in Jobs /\ l.token \in 1..MaxAttempts /\ TokenGiven(l.job, l.token)
      BY DEF KnownLeases
    <3>. QED
      BY <1>2, <3>1 DEF KnownLeases
  <2>. QED
    BY <2>1
<1>4. KnownBatches \subseteq KnownBatches'
  <2>1. ASSUME NEW b \in KnownBatches PROVE b \in KnownBatches'
    <3>1. /\ b.job \in Jobs /\ b.token \in 1..MaxAttempts /\ b \in Submissions
          /\ TokenGiven(b.job, b.token)
      BY DEF KnownBatches, Submissions
    <3>2. job'[b.job].token = b.token => ReadHere(b)'
      <4>1. ASSUME job'[b.job].token = b.token
            PROVE  /\ ReadHere(b) /\ job'[b.job].cursor = job[b.job].cursor
                   /\ job'[b.job].allowance = job[b.job].allowance
        BY <1>2, <3>1, <4>1 DEF KnownBatches
      <4>. QED
        BY <1>1, <3>1, <4>1 DEF ReadHere
    <3>3. /\ TokenGiven(b.job, b.token)' /\ lastSync'[b.job] = lastSync[b.job]
          /\ firstSync'[b.job] = firstSync[b.job]
      BY <1>1, <1>2, <3>1
    <3>. QED
      BY <1>1, <3>1, <3>2, <3>3 DEF KnownBatches
  <2>. QED
    BY <2>1
<1>5. ASSUME NEW j \in Jobs PROVE KnownCaptures[j] \subseteq KnownCaptures'[j]
  <2>1. ASSUME NEW c \in KnownCaptures[j] PROVE c \in KnownCaptures'[j]
    <3>1. TokenGiven(j, 1) /\ c \in Captured
      BY DEF KnownCaptures
    <3>2. TokenGiven(j, 1)' /\ firstSync'[j] = firstSync[j]
      BY <1>1, <1>a, <3>1 DEF TokenGiven, QuietStep, Continues
    <3>. QED
      BY <3>1, <3>2 DEF KnownCaptures
  <2>. QED
    BY <2>1
<1>. QED
  BY <1>3, <1>4, <1>5 DEF StillKnown

-----------------------------------------------------------------------------
(* An accepted batch.                                                      *)

BatchStep(s) ==
    CompleteBatch(s) /\ UNCHANGED <<library_vars, restore_vars, firstSync>>

(* It is read from where its job stands, by the holder of its lease.       *)
LEMMA AcceptedBatch ==
    ASSUME ServerInv, TypeOK', LeaseShape', NEW s \in KnownBatches, BatchStep(s)
    PROVE  /\ s \in Submissions /\ Digested(s) /\ ReadHere(s)
           /\ s.job \in Jobs /\ s.job \notin gone
           /\ s.batch.records \in SUBSET Posts
           /\ lastSync[s.job] > firstSync[s.job]
           /\ job[s.job].state = "leased" /\ job[s.job].token = s.token
           /\ receipts' = receipts \cup {NewReceipt(s)}
           /\ \A j \in Jobs \ {s.job} :
                job'[j] = job[j] /\ Imported(j)' = Imported(j)
           /\ Imported(s.job)' = Imported(s.job) \cup s.batch.records
           /\ job'[s.job].state # "absent" /\ job'[s.job].token = Null
           /\ job'[s.job].state = "completed" => s.done
           /\ job'[s.job].cursor = s.cursor
           /\ job'[s.job].attempts = job[s.job].attempts
           /\ library' = library /\ lastSync' = lastSync
           /\ firstSync' = firstSync /\ gone' = gone /\ again' = again
<1>1. s \in Submissions /\ Digested(s) /\ lastSync[s.job] > firstSync[s.job]
  BY DEF KnownBatches
<1>2. TypeOK /\ CompleteBatch(s)
  BY DEF ServerInv, ServerTyped, BatchStep
<1>3. /\ s.job \in Jobs /\ job[s.job].state = "leased"
      /\ s.token = job[s.job].token
      /\ receipts' = receipts \cup {NewReceipt(s)}
      /\ \A j \in Jobs \ {s.job} : job'[j] = job[j]
      /\ job'[s.job].state \in {"completed", "deferred", "queued"}
      /\ job'[s.job].state = "completed" => s.done
      /\ job'[s.job].cursor = s.cursor
      /\ job'[s.job].attempts = job[s.job].attempts
  BY <1>1, <1>2, BatchEffect
<1>4. ReadHere(s)
  BY <1>3 DEF KnownBatches
<1>5. s.job \notin gone
  BY <1>3 DEF ServerInv, GoneAbsent
<1>6. s.batch.records \in SUBSET Posts
  BY <1>1, NoCursorIsNoPost DEF Submissions, BatchIds
<1>7. job'[s.job].token = Null
  BY <1>3 DEF LeaseShape, RowShape
<1>8. NewReceipt(s).job = s.job /\ NewReceipt(s).batch = s.batch
  BY DEF NewReceipt
<1>9. ASSUME NEW j \in Jobs
      PROVE  Imported(j)' = Imported(j)
                 \cup (IF j = s.job THEN s.batch.records ELSE {})
  <2>1. {x \in receipts' : x.job = j} =
          {x \in receipts : x.job = j}
              \cup (IF j = s.job THEN {NewReceipt(s)} ELSE {})
    BY <1>3, <1>8
  <2>2. CASE j = s.job
    BY <1>8, <2>1, <2>2 DEF Imported
  <2>3. CASE j # s.job
    BY <2>1, <2>3 DEF Imported
  <2>. QED
    BY <2>2, <2>3
<1>10. /\ library' = library /\ lastSync' = lastSync
       /\ firstSync' = firstSync /\ gone' = gone /\ again' = again
  BY DEF BatchStep, library_vars, restore_vars
<1>11. /\ \A j \in Jobs \ {s.job} : Imported(j)' = Imported(j)
       /\ Imported(s.job)' = Imported(s.job) \cup s.batch.records
  BY <1>3, <1>9
<1>. QED
  BY <1>1, <1>3, <1>4, <1>5, <1>6, <1>7, <1>10, <1>11

(* An accepted batch keeps what the server knows. *)
LEMMA BatchKeepsServer ==
    ASSUME ServerInv, TypeOK', LeaseShape', AbsentRows',
           NEW s \in KnownBatches, BatchStep(s)
    PROVE  ServerInv'
<1>. DEFINE i == s.job
            R == s.batch.records
            n == NewReceipt(s)
<1>1. /\ s \in Submissions /\ Digested(s) /\ ReadHere(s)
      /\ i \in Jobs /\ i \notin gone /\ R \in SUBSET Posts
      /\ lastSync[i] > firstSync[i]
      /\ receipts' = receipts \cup {n}
      /\ \A j \in Jobs \ {i} : job'[j] = job[j] /\ Imported(j)' = Imported(j)
      /\ Imported(i)' = Imported(i) \cup R
      /\ job'[i].state = "completed" => s.done
      /\ job'[i].cursor = s.cursor
      /\ library' = library /\ lastSync' = lastSync
      /\ firstSync' = firstSync /\ gone' = gone /\ again' = again
  BY AcceptedBatch
<1>2. /\ n.job = i /\ n.batch = s.batch /\ n.done = s.done
      /\ n.count = s.count /\ n.cursor = s.cursor
  BY DEF NewReceipt
<1>3. /\ s.cursor = IF R = {} THEN job[i].cursor ELSE Min(R)
      /\ s.batch.before = job[i].cursor
      /\ \A p \in R : job[i].cursor # NoCursor => p < job[i].cursor
      /\ \A p \in R : \E q \in library[i] : p <= q
  BY <1>1 DEF ReadHere, Digested, KnownBatches
<1>4. R # {} => Min(R) \in R /\ Min(R) \in Posts /\ \A q \in R : Min(R) <= q
  BY <1>1, OldestPost
<1>5. /\ library[i] \subseteq Nat /\ R \subseteq Nat /\ Imported(i) \subseteq Nat
      /\ job[i].cursor # NoCursor => job[i].cursor \in Nat
      /\ s.cursor # NoCursor => s.cursor \in Nat
  <2>1. library[i] \subseteq Posts
    BY <1>1 DEF ServerInv, ServerTyped
  <2>2. Imported(i) \subseteq Posts
    BY NoCursorIsNoPost
       DEF ServerInv, ServerTyped, TypeOK, Receipt, BatchIds, Imported
  <2>3. job[i].cursor \in Posts \cup {NoCursor}
    BY <1>1, NoCursorIsNoPost DEF ServerInv, ServerTyped, TypeOK, Row
  <2>4. s.cursor \in Posts \cup {NoCursor}
    BY <1>1, NoCursorIsNoPost DEF Submissions
  <2>. QED
    BY <1>1, <2>1, <2>2, <2>3, <2>4, PostsAreNumbers
<1>. HIDE DEF i, R, n
<1>6. ServerTyped'
  BY <1>1 DEF ServerInv, ServerTyped, BatchStep, restore_vars
<1>7. GoneAbsent'
  <2>1. ASSUME NEW j \in gone PROVE job'[j].state = "absent"
    <3>1. j \in Jobs \ {i} /\ job[j].state = "absent"
      BY <1>1 DEF ServerInv, ServerTyped, GoneAbsent
    <3>. QED
      BY <1>1, <3>1
  <2>2. gone' = gone
    BY <1>1
  <2>. QED
    BY <2>1, <2>2 DEF GoneAbsent
<1>8. ReceiptsRead'
  <2>1. Digested(n)
    BY <1>1, <1>2 DEF Digested, i
  <2>2. n.batch.records = R
    BY <1>2 DEF R
  <2>. QED
    BY <1>1, <1>2, <1>3, <2>1, <2>2 DEF ServerInv, ReceiptsRead
<1>9. ImportedBehind'
  <2>1. ASSUME NEW q \in Imported(i) \cup R, i \notin again
        PROVE  s.cursor # NoCursor /\ s.cursor <= q
    <3>1. CASE R = {}
      BY <1>1, <1>3, <2>1, <3>1 DEF ServerInv, ImportedBehind
    <3>2. CASE R # {} /\ q \in R
      BY <1>3, <1>4, <3>2, NoCursorIsNoPost
    <3>3. CASE R # {} /\ q \in Imported(i)
      <4>1. job[i].cursor # NoCursor /\ job[i].cursor <= q
        BY <1>1, <2>1, <3>3 DEF ServerInv, ImportedBehind
      <4>2. Min(R) < job[i].cursor /\ Min(R) \in Nat
        BY <1>3, <1>4, <1>5, <3>3, <4>1
      <4>. QED
        BY <1>3, <1>4, <1>5, <3>3, <4>1, <4>2, NoCursorIsNoPost
    <3>. QED
      BY <2>1, <3>1, <3>2, <3>3
  <2>. QED
    BY <1>1, <2>1 DEF ServerInv, ImportedBehind
<1>10. NothingSkipped'
  <2>1. ASSUME NEW p \in library[i], \E q \in Imported(i) \cup R : p <= q,
               s.done \/ (s.cursor # NoCursor /\ p >= s.cursor)
        PROVE  p \in Imported(i) \cup R
    <3>1. CASE job[i].cursor = NoCursor \/ p < job[i].cursor
      BY <1>1, <2>1, <3>1 DEF ReadHere, i, R
    <3>2. CASE job[i].cursor # NoCursor /\ p >= job[i].cursor
      <4>1. PICK q \in Imported(i) \cup R : p <= q
        BY <2>1
      <4>2. q \notin R
        BY <1>3, <1>5, <2>1, <3>2, <4>1
      <4>. QED
        BY <1>1, <2>1, <3>2, <4>1, <4>2 DEF ServerInv, NothingSkipped
    <3>. QED
      BY <1>5, <2>1, <3>1, <3>2
  <2>. QED
    BY <1>1, <2>1 DEF ServerInv, NothingSkipped
<1>11. PostsChargedOnce'
  <2>1. ASSUME NEW r \in receipts, r.job \notin again, r.job = i
        PROVE  r.batch.records \cap R = {}
    <3>1. r.batch.records \subseteq Imported(i)
      BY <2>1 DEF Imported
    <3>2. \A q \in Imported(i) : job[i].cursor # NoCursor /\ job[i].cursor <= q
      BY <1>1, <2>1 DEF ServerInv, ImportedBehind
    <3>. QED
      BY <1>3, <1>5, <3>1, <3>2
  <2>2. n.batch.records = R
    BY <1>2 DEF R
  <2>. QED
    BY <1>1, <1>2, <2>1, <2>2 DEF ServerInv, PostsChargedOnce
<1>12. CompletedFromFreshExport'
  BY <1>1 DEF ServerInv, CompletedFromFreshExport
<1>. QED
  BY <1>6, <1>7, <1>8, <1>9, <1>10, <1>11, <1>12 DEF ServerInv

(* After an accepted batch everything that was known still is. *)
LEMMA BatchKeepsKnown ==
    ASSUME ServerInv, TypeOK', LeaseShape', NEW s \in KnownBatches, BatchStep(s)
    PROVE  StillKnown
<1>1. /\ s.job \in Jobs /\ job'[s.job].token = Null
      /\ job'[s.job].attempts = job[s.job].attempts
      /\ \A j \in Jobs \ {s.job} : job'[j] = job[j] /\ Imported(j)' = Imported(j)
      /\ library' = library /\ lastSync' = lastSync
      /\ firstSync' = firstSync /\ gone' = gone
  BY AcceptedBatch
<1>2. ASSUME NEW j \in Jobs, NEW token \in 1..MaxAttempts
      PROVE  /\ TokenGiven(j, token) => TokenGiven(j, token)'
             /\ job'[j].token = token => j # s.job /\ job[j].token = token
  BY <1>1, SentinelAssumption DEF TokenGiven
<1>3. KnownLeases \subseteq KnownLeases'
  <2>1. ASSUME NEW l \in KnownLeases PROVE l \in KnownLeases'
    <3>1. l.job \in Jobs /\ l.token \in 1..MaxAttempts
      BY DEF KnownLeases
    <3>. QED
      BY <1>1, <1>2, <3>1 DEF KnownLeases
  <2>. QED
    BY <2>1
<1>4. KnownBatches \subseteq KnownBatches'
  <2>1. ASSUME NEW b \in KnownBatches PROVE b \in KnownBatches'
    <3>1. b.job \in Jobs /\ b.token \in 1..MaxAttempts
      BY DEF KnownBatches, Submissions
    <3>2. job'[b.job].token = b.token => ReadHere(b)'
      <4>1. ASSUME job'[b.job].token = b.token
            PROVE  ReadHere(b) /\ b.job # s.job
        BY <1>2, <3>1, <4>1 DEF KnownBatches
      <4>. QED
        BY <1>1, <3>1, <4>1 DEF ReadHere
    <3>3. TokenGiven(b.job, b.token)'
      BY <1>2, <3>1 DEF KnownBatches
    <3>. QED
      BY <1>1, <3>2, <3>3 DEF KnownBatches
  <2>. QED
    BY <2>1
<1>5. \A j \in Jobs : KnownCaptures[j] \subseteq KnownCaptures'[j]
  BY <1>1 DEF KnownCaptures, TokenGiven
<1>. QED
  BY <1>3, <1>4, <1>5 DEF StillKnown

-----------------------------------------------------------------------------
(* A restored backup, and what happens around the queue.                   *)

LEMMA RestoreKeepsAll ==
    ASSUME ServerInv, Restore
    PROVE  ServerInv' /\ StillKnown
<1>1. /\ job' = [j \in Jobs |-> AbsentRow] /\ receipts' = {}
      /\ usage' = [d \in Days |-> 0] /\ now' = now /\ paused' = paused
      /\ library' = library /\ lastSync' = lastSync /\ firstSync' = firstSync
      /\ again' = again
      /\ gone' = gone \cup {j \in Jobs : job[j].state # "absent"}
      /\ restores' = restores + 1 /\ restores < Restores
  BY DEF Restore, Surrounded, library_vars
<1>2. /\ AbsentRow \in Row /\ AbsentRow.state = "absent" /\ AbsentRow.token = Null
      /\ AbsentRow.attempts = 0 /\ AbsentRow.expiresAt = Null
      /\ AbsentRow.leaseDay = Null /\ AbsentRow.allowance = 0
  BY AbsentRowType DEF AbsentRow
<1>3. \A j \in Jobs : job'[j] = AbsentRow /\ Imported(j)' = {}
  BY <1>1 DEF Imported
<1>4. ServerInv'
  <2>1. TypeOK'
    BY <1>1, <1>2 DEF ServerInv, ServerTyped, TypeOK
  <2>2. ServerTyped'
    BY <1>1, <2>1, HistoryAssumption DEF ServerInv, ServerTyped
  <2>3. LeaseShape'
    BY <1>2, <1>3, UnleasedShape DEF LeaseShape
  <2>4. AbsentRows' /\ GoneAbsent'
    BY <1>1, <1>2, <1>3 DEF AbsentRows, GoneAbsent, ServerInv, ServerTyped
  <2>5. ReceiptsRead' /\ PostsChargedOnce'
    BY <1>1 DEF ReceiptsRead, PostsChargedOnce
  <2>6. ImportedBehind' /\ NothingSkipped'
    BY <1>3 DEF ImportedBehind, NothingSkipped
  <2>7. CompletedFromFreshExport'
    BY <1>2, <1>3 DEF CompletedFromFreshExport
  <2>. QED
    BY <2>2, <2>3, <2>4, <2>5, <2>6, <2>7 DEF ServerInv
<1>5. ASSUME NEW j \in Jobs, NEW token \in Nat, token >= 1, TokenGiven(j, token)
      PROVE  TokenGiven(j, token)' /\ job'[j].token # token
  <2>1. CASE job[j].state = "absent"
    <3>1. job[j].attempts = 0
      BY <1>2, <2>1 DEF ServerInv, AbsentRows
    <3>. QED
      BY <1>1, <1>2, <1>3, <1>5, <3>1, SentinelAssumption DEF TokenGiven
  <2>2. CASE job[j].state # "absent"
    BY <1>1, <1>2, <1>3, <2>2, SentinelAssumption DEF TokenGiven
  <2>. QED
    BY <2>1, <2>2
<1>6. ASSUME NEW l \in KnownLeases PROVE l \in KnownLeases'
  <2>1. l.job \in Jobs /\ l.token \in 1..MaxAttempts /\ l.token \in Nat /\ l.token >= 1
    BY DEF KnownLeases
  <2>. QED
    BY <1>5, <2>1 DEF KnownLeases
<1>7. ASSUME NEW b \in KnownBatches PROVE b \in KnownBatches'
  <2>1. b.job \in Jobs /\ b.token \in 1..MaxAttempts /\ b.token \in Nat /\ b.token >= 1
    BY DEF KnownBatches, Submissions
  <2>2. TokenGiven(b.job, b.token)' /\ job'[b.job].token # b.token
    BY <1>5, <2>1 DEF KnownBatches
  <2>. QED
    BY <1>1, <2>2 DEF KnownBatches
<1>8. ASSUME NEW j \in Jobs, NEW c \in KnownCaptures[j]
      PROVE  c \in KnownCaptures'[j]
  BY <1>1, <1>5 DEF KnownCaptures
<1>. QED
  BY <1>4, <1>6, <1>7, <1>8 DEF StillKnown

(* Twillot and its user: what is new is newer than all there was, the      *)
(* newest post stays, and exports follow each other.                       *)
LibraryStep ==
    /\ UNCHANGED <<vars, restore_vars, firstSync>>
    /\ library' \in [Jobs -> SUBSET Posts] /\ lastSync' \in [Jobs -> Nat]
    /\ \A j \in Jobs :
         /\ lastSync[j] <= lastSync'[j]
         /\ \A p \in library'[j] \ library[j] : \A q \in library[j] : q < p
         /\ \A q \in library[j] : \E p \in library'[j] : q <= p

(* Posts arrive above the others, are lost below; exports count up. *)
LEMMA SurroundingsMove ==
    ASSUME ServerTyped, NEW j \in Jobs, Arrive(j) \/ Lose(j) \/ Export(j)
    PROVE  LibraryStep
<1>1. /\ library \in [Jobs -> SUBSET Posts] /\ lastSync \in [Jobs -> Nat]
      /\ \A i \in Jobs : library[i] \subseteq Nat /\ lastSync[i] \in Nat
  BY PostsAreNumbers DEF ServerTyped
<1>2. CASE Arrive(j)
  <2>1. PICK p \in Posts : /\ \A q \in library[j] : q < p
                           /\ library' = [library EXCEPT ![j] = @ \cup {p}]
    BY <1>2 DEF Arrive
  <2>2. /\ library' \in [Jobs -> SUBSET Posts]
        /\ library'[j] = library[j] \cup {p}
        /\ \A i \in Jobs \ {j} : library'[i] = library[i]
    BY <1>1, <2>1
  <2>3. UNCHANGED <<vars, restore_vars, firstSync, lastSync>>
    BY <1>2 DEF Arrive, Surrounded
  <2>. QED
    BY <1>1, <2>1, <2>2, <2>3 DEF LibraryStep
<1>3. CASE Lose(j)
  <2>1. PICK p \in library[j], q \in library[j] :
          p < q /\ library' = [library EXCEPT ![j] = @ \ {p}]
    BY <1>3 DEF Lose
  <2>2. /\ library' \in [Jobs -> SUBSET Posts]
        /\ library'[j] = library[j] \ {p} /\ q \in library'[j]
        /\ \A i \in Jobs \ {j} : library'[i] = library[i]
    BY <1>1, <2>1
  <2>3. UNCHANGED <<vars, restore_vars, firstSync, lastSync>>
    BY <1>3 DEF Lose, Surrounded
  <2>4. \A o \in library[j] : \E r \in library'[j] : o <= r
    BY <1>1, <2>1, <2>2
  <2>. QED
    BY <1>1, <2>2, <2>3, <2>4 DEF LibraryStep
<1>4. CASE Export(j)
  <2>1. /\ lastSync' = [lastSync EXCEPT ![j] = @ + 1] /\ library' = library
        /\ UNCHANGED <<vars, restore_vars, firstSync>>
    BY <1>4 DEF Export, Surrounded
  <2>. QED
    BY <1>1, <2>1 DEF LibraryStep
<1>. QED
  BY <1>2, <1>3, <1>4

(* Whatever is done to the library, the invariant holds. *)
LEMMA LibraryKeepsAll ==
    ASSUME ServerInv, LibraryStep
    PROVE  ServerInv' /\ StillKnown
<1>1. /\ now' = now /\ job' = job /\ receipts' = receipts
      /\ usage' = usage /\ paused' = paused
      /\ restores' = restores /\ gone' = gone /\ again' = again
      /\ firstSync' = firstSync
      /\ \A j \in Jobs : Imported(j)' = Imported(j)
  BY DEF LibraryStep, vars, restore_vars, Imported
<1>2. \A j \in Jobs : /\ library[j] \subseteq Nat /\ library'[j] \subseteq Nat
                      /\ lastSync[j] \in Nat /\ lastSync'[j] \in Nat
                      /\ firstSync[j] \in Nat
  BY PostsAreNumbers DEF LibraryStep, ServerInv, ServerTyped
<1>3. ASSUME NEW j \in Jobs, NEW S \in SUBSET Nat,
             \A p \in S : \E q \in library[j] : p <= q
      PROVE  /\ \A p \in S : \E q \in library'[j] : p <= q
             /\ \A p \in library'[j] \ library[j] : ~\E q \in S : p <= q
  <2>1. ASSUME NEW p \in S PROVE \E q \in library'[j] : p <= q
    <3>1. PICK q \in library[j] : p <= q
      BY <1>3
    <3>2. PICK r \in library'[j] : q <= r
      BY DEF LibraryStep
    <3>3. p \in Nat /\ q \in Nat /\ r \in Nat
      BY <1>2
    <3>. QED
      BY <3>1, <3>2, <3>3
  <2>2. ASSUME NEW p \in library'[j] \ library[j], NEW q \in S, p <= q
        PROVE  FALSE
    <3>1. PICK r \in library[j] : q <= r
      BY <1>3
    <3>2. r < p
      BY DEF LibraryStep
    <3>3. p \in Nat /\ q \in Nat /\ r \in Nat
      BY <1>2
    <3>. QED
      BY <2>2, <3>1, <3>2, <3>3
  <2>. QED
    BY <2>1, <2>2
<1>4. \A r \in receipts : r.job \in Jobs /\ r.batch.records \in SUBSET Nat
  BY NoCursorIsNoPost, PostsAreNumbers
     DEF ServerInv, ServerTyped, TypeOK, Receipt, BatchIds
<1>5. ASSUME NEW j \in Jobs
      PROVE  Imported(j) \in SUBSET Nat /\ \A p \in Imported(j) : \E q \in library[j] : p <= q
  BY <1>4 DEF ServerInv, ReceiptsRead, Imported
<1>6. ServerInv'
  <2>1. TypeOK' /\ LeaseShape' /\ AbsentRows' /\ GoneAbsent'
    BY <1>1 DEF ServerInv, ServerTyped, TypeOK, LeaseShape, AbsentRows, GoneAbsent, Today
  <2>2. ServerTyped'
    <3>1. ASSUME NEW j \in Jobs PROVE firstSync'[j] <= lastSync'[j]
      BY <1>1, <1>2 DEF ServerInv, ServerTyped, LibraryStep
    <3>. QED
      BY <1>1, <2>1, <3>1 DEF ServerInv, ServerTyped, LibraryStep
  <2>3. ReceiptsRead'
    <3>1. ASSUME NEW r \in receipts
          PROVE  Digested(r) /\ \A p \in r.batch.records : \E q \in library'[r.job] : p <= q
      <4>1. /\ Digested(r) /\ r.job \in Jobs /\ r.batch.records \in SUBSET Nat
            /\ \A p \in r.batch.records : \E q \in library[r.job] : p <= q
        BY <1>4 DEF ServerInv, ReceiptsRead
      <4>. QED
        BY <1>3, <4>1
    <3>. QED
      BY <1>1, <3>1 DEF ReceiptsRead
  <2>4. ImportedBehind' /\ PostsChargedOnce'
    BY <1>1 DEF ServerInv, ImportedBehind, PostsChargedOnce
  <2>5. NothingSkipped'
    <3>1. ASSUME NEW j \in Jobs, NEW p \in library'[j], \E q \in Imported(j) : p <= q
          PROVE  p \in library[j]
      BY <1>3, <1>5, <3>1
    <3>. QED
      BY <1>1, <3>1 DEF ServerInv, NothingSkipped
  <2>6. CompletedFromFreshExport'
    <3>1. ASSUME NEW j \in Jobs \ again, job[j].state = "completed"
          PROVE  lastSync'[j] > firstSync[j]
      <4>1. lastSync[j] > firstSync[j] /\ lastSync[j] <= lastSync'[j]
        BY <3>1 DEF ServerInv, CompletedFromFreshExport, LibraryStep
      <4>. QED
        BY <1>2, <4>1
    <3>. QED
      BY <1>1, <3>1 DEF CompletedFromFreshExport
  <2>. QED
    BY <2>1, <2>2, <2>3, <2>4, <2>5, <2>6 DEF ServerInv
<1>7. KnownLeases' = KnownLeases
  BY <1>1 DEF KnownLeases, TokenGiven
<1>8. ASSUME NEW b \in KnownBatches PROVE b \in KnownBatches'
  <2>1. /\ b.job \in Jobs /\ b.batch.records \in SUBSET Nat
        /\ \A p \in b.batch.records : \E q \in library[b.job] : p <= q
    BY NoCursorIsNoPost, PostsAreNumbers DEF KnownBatches, Submissions, BatchIds
  <2>2. lastSync'[b.job] > firstSync'[b.job]
    <3>1. lastSync[b.job] > firstSync[b.job] /\ lastSync[b.job] <= lastSync'[b.job]
      BY <2>1 DEF KnownBatches, LibraryStep
    <3>. QED
      BY <1>1, <1>2, <2>1, <3>1
  <2>3. ASSUME ReadHere(b) PROVE ReadHere(b)'
    <3>. DEFINE S == Imported(b.job) \cup b.batch.records
    <3>1. ASSUME NEW p \in library'[b.job], \E q \in S : p <= q
          PROVE  p \in library[b.job]
      <4>1. S \in SUBSET Nat /\ \A s \in S : \E q \in library[b.job] : s <= q
        BY <1>5, <2>1
      <4>. QED
        BY <1>3, <2>1, <3>1, <4>1
    <3>. QED
      BY <1>1, <2>1, <2>3, <3>1 DEF ReadHere
  <2>4. \A p \in b.batch.records : \E q \in library'[b.job] : p <= q
    BY <1>3, <2>1
  <2>. QED
    BY <1>1, <2>2, <2>3, <2>4 DEF KnownBatches, TokenGiven
<1>9. \A j \in Jobs : KnownCaptures[j] \subseteq KnownCaptures'[j]
  BY <1>1 DEF KnownCaptures, TokenGiven
<1>. QED
  BY <1>6, <1>7, <1>8, <1>9 DEF StillKnown

-----------------------------------------------------------------------------
(* The queue's operations under the companion.                             *)

Kept == UNCHANGED <<library_vars, restore_vars, firstSync>>

(* Most operations leave every cursor where it is and no new row behind.   *)
InPlace ==
    /\ receipts' = receipts
    /\ \A j \in Jobs :
         /\ job'[j].cursor = job[j].cursor
         /\ job[j].state = "absent" => job'[j].state = "absent"

(* Without a new receipt no batch was completed. *)
LEMMA QuietFromQueue ==
    ASSUME TypeOK, AbsentRows, [Next]_vars, receipts' = receipts
    PROVE  Quiet
<1>1. ASSUME NEW s \in Submissions, CompleteBatch(s) PROVE FALSE
  <2>1. /\ \A r \in receipts : r.batch # s.batch
        /\ receipts' = receipts \cup {NewReceipt(s)}
    BY <1>1, BatchEffect
  <2>2. NewReceipt(s).batch = s.batch
    BY DEF NewReceipt
  <2>. QED
    BY <2>1, <2>2
<1>. QED
  BY <1>1, QuietOrBatch

(* A quiet step keeps the server and what is known of it. *)
LEMMA QueueKeepsAll ==
    ASSUME ServerInv, [Next]_vars, QuietStep
    PROVE  ServerInv' /\ StillKnown
<1>1. TypeOK' /\ LeaseShape' /\ AbsentRows'
  BY TypeStep, ShapeStep, AbsentStep DEF ServerInv, ServerTyped
<1>. QED
  BY <1>1, QuietKeepsServer, QuietKeepsKnown

(* So does a step that leaves every cursor where it is. *)
LEMMA InPlaceKeepsAll ==
    ASSUME ServerInv, [Next]_vars, InPlace, Kept
    PROVE  ServerInv' /\ StillKnown
<1>1. Quiet
  BY QuietFromQueue DEF ServerInv, ServerTyped, InPlace
<1>2. /\ library' = library /\ lastSync' = lastSync /\ restores' = restores
      /\ gone' = gone /\ again' = again /\ firstSync' = firstSync
  BY DEF Kept, library_vars, restore_vars
<1>3. /\ gone \subseteq Jobs /\ again \subseteq Jobs /\ GoneAbsent
      /\ firstSync \in [Jobs -> Nat]
  BY DEF ServerInv, ServerTyped
<1>4. QuietStep
  BY <1>1, <1>2, <1>3 DEF QuietStep, library_vars, InPlace, GoneAbsent
<1>. QED
  BY <1>4, QueueKeepsAll

(* So does an accepted batch. *)
LEMMA BatchKeepsAll ==
    ASSUME ServerInv, NEW s \in KnownBatches, BatchStep(s)
    PROVE  ServerInv' /\ StillKnown
<1>1. [Next]_vars
  BY DEF BatchStep, KnownBatches, Next
<1>2. TypeOK' /\ LeaseShape' /\ AbsentRows'
  BY <1>1, TypeStep, ShapeStep, AbsentStep DEF ServerInv, ServerTyped
<1>. QED
  BY <1>2, BatchKeepsServer, BatchKeepsKnown

(* Reclaiming leaves a row that was never enqueued alone. *)
LEMMA ReclaimInPlace ==
    ASSUME NEW r \in Row
    PROVE  /\ Reclaim(r).cursor = r.cursor /\ Reclaim(r).attempts = r.attempts
           /\ r.state = "absent" => Reclaim(r) = r
BY ReclaimUnseen DEF Reclaim, Expired

(* A claim without a job moves no cursor. *)
LEMMA FruitlessInPlace ==
    ASSUME TypeOK, ClaimDefers \/ ClaimFindsNothing
    PROVE  InPlace
<1>1. \A j \in Jobs : /\ job[j] \in Row /\ Reclaim(job[j]) \in Row
                      /\ Reclaimed[j] = Reclaim(job[j])
  BY ReclaimType DEF TypeOK, Reclaimed
<1>2. ASSUME NEW j \in Jobs
      PROVE  /\ job'[j].cursor = job[j].cursor
             /\ job[j].state = "absent" => job'[j].state = "absent"
  <2>1. CASE ClaimDefers
    <3>1. job'[j] = IF Waiting(Reclaim(job[j]))
                    THEN [Reclaim(job[j]) EXCEPT !.state = "deferred",
                                                 !.nextRunAt = NextReset(Today)]
                    ELSE Reclaim(job[j])
      BY <1>1, <2>1 DEF ClaimDefers
    <3>2. job'[j].cursor = Reclaim(job[j]).cursor
      BY <1>1, <3>1 DEF Row
    <3>3. job[j].state = "absent" => job'[j] = job[j]
      BY <1>1, <3>1, ReclaimInPlace DEF Waiting
    <3>. QED
      BY <1>1, <3>2, <3>3, ReclaimInPlace
  <2>2. CASE ClaimFindsNothing
    BY <1>1, <2>2, ReclaimInPlace DEF ClaimFindsNothing
  <2>. QED
    BY <2>1, <2>2
<1>3. receipts' = receipts
  BY DEF ClaimDefers, ClaimFindsNothing
<1>. QED
  BY <1>2, <1>3 DEF InPlace

(* A claim with a job moves no cursor, and gives out a token. *)
LEMMA GrantInPlace ==
    ASSUME TypeOK, NEW j \in Jobs, NEW cap \in Caps, ClaimGrants(j, cap)
    PROVE  /\ InPlace /\ job[j].state # "absent"
           /\ job'[j].state = "leased" /\ job'[j].token \in 1..MaxAttempts
<1>1. \A i \in Jobs : /\ job[i] \in Row /\ Reclaim(job[i]) \in Row
                      /\ Reclaimed[i] = Reclaim(job[i])
  BY ReclaimType DEF TypeOK, Reclaimed
<1>. DEFINE q == Granted(Reclaim(job[j]), Least(Remaining(Reclaimed), cap))
<1>2. /\ job'[j] = q /\ receipts' = receipts
      /\ \A i \in Jobs \ {j} : job'[i] = Reclaim(job[i])
  BY <1>1 DEF ClaimGrants, Reclaimed
<1>3. Waiting(Reclaim(job[j])) /\ Reclaim(job[j]).attempts < MaxAttempts
  BY <1>1 DEF ClaimGrants, NextInLine, Eligible
<1>4. job[j].state # "absent"
  BY <1>1, <1>3, ReclaimInPlace DEF Waiting
<1>5. /\ q.state = "leased" /\ q.cursor = job[j].cursor
      /\ q.token = job[j].attempts + 1
  BY <1>1, ReclaimInPlace DEF Granted, Row
<1>6. job[j].attempts < MaxAttempts /\ job[j].attempts \in Nat /\ MaxAttempts \in Nat
  BY <1>1, <1>3, ReclaimInPlace, BoundAssumption DEF Row
<1>. HIDE DEF q
<1>7. job'[j].token \in 1..MaxAttempts
  BY <1>2, <1>5, <1>6
<1>8. InPlace
  BY <1>1, <1>2, <1>4, <1>5, ReclaimInPlace DEF InPlace
<1>. QED
  BY <1>2, <1>4, <1>5, <1>7, <1>8

(* Neither do the other updates of one row. *)
LEMMA RowInPlace ==
    ASSUME TypeOK, NEW j \in Jobs, NEW token, NEW status,
           \/ Fail(j, token) \/ MarkCaptureStatus(j, token, status)
           \/ Renew(j, token, status) \/ RetryFailed(j) \/ VerifyComplete(j)
    PROVE  InPlace
<1>1. /\ job \in [Jobs -> Row] /\ job[j] \in Row
      /\ receipts' = receipts /\ job[j].state # "absent"
  BY DEF TypeOK, Fail, MarkCaptureStatus, Renew, RetryFailed, VerifyComplete,
         HoldsLease
<1>2. ASSUME NEW q, job' = [job EXCEPT ![j] = q], q.cursor = job[j].cursor
      PROVE  InPlace
  BY <1>1, <1>2 DEF InPlace
<1>3. CASE Fail(j, token)
  BY <1>1, <1>2, <1>3 DEF Fail, Failed, Unleased, Row
<1>4. CASE MarkCaptureStatus(j, token, status)
  BY <1>1, <1>2, <1>4 DEF MarkCaptureStatus, Row
<1>5. CASE Renew(j, token, status)
  BY <1>1, <1>2, <1>5 DEF Renew, Row
<1>6. CASE RetryFailed(j)
  BY <1>1, <1>2, <1>6 DEF RetryFailed, Row
<1>7. CASE VerifyComplete(j)
  BY <1>1, <1>2, <1>7 DEF VerifyComplete, Row
<1>. QED
  BY <1>3, <1>4, <1>5, <1>6, <1>7

(* A new row: of a job that no restored backup has dropped. *)
LEMMA EnqueueKeepsAll ==
    ASSUME ServerInv, NEW j \in Jobs \ gone, Enqueue(j), Kept
    PROVE  ServerInv' /\ StillKnown
<1>. DEFINE q == [AbsentRow EXCEPT !.state = "queued", !.nextRunAt = now]
<1>1. /\ job \in [Jobs -> Row] /\ gone \subseteq Jobs /\ again \subseteq Jobs
      /\ firstSync \in [Jobs -> Nat] /\ GoneAbsent /\ TypeOK /\ AbsentRows
  BY DEF ServerInv, ServerTyped, TypeOK
<1>2. job[j] = AbsentRow /\ job' = [job EXCEPT ![j] = q] /\ receipts' = receipts
  BY <1>1 DEF Enqueue, AbsentRows
<1>3. q.cursor = job[j].cursor
  BY <1>2 DEF AbsentRow
<1>4. \A i \in Jobs : /\ job'[i].cursor = job[i].cursor
                      /\ i \in gone => job'[i].state = "absent"
  <2>. HIDE DEF q
  <2>. QED
    BY <1>1, <1>2, <1>3 DEF GoneAbsent
<1>5. [Next]_vars
  BY DEF Next
<1>6. Quiet
  BY <1>1, <1>2, <1>5, QuietFromQueue
<1>7. QuietStep
  BY <1>1, <1>4, <1>6 DEF QuietStep, Kept, library_vars, restore_vars
<1>. QED
  BY <1>5, <1>7, QueueKeepsAll

(* The cloud collector starts a job again. *)
LEMMA StartAgainKeepsAll ==
    ASSUME ServerInv, NEW j \in Jobs, StartAgain(j)
    PROVE  ServerInv' /\ StillKnown
<1>1. /\ job \in [Jobs -> Row] /\ gone \subseteq Jobs /\ again \subseteq Jobs
      /\ firstSync \in [Jobs -> Nat] /\ GoneAbsent /\ TypeOK /\ AbsentRows
  BY DEF ServerInv, ServerTyped, TypeOK
<1>2. /\ QueueFallback(j) /\ again' = again \cup {j}
      /\ UNCHANGED <<library_vars, restores, gone, firstSync>>
  BY DEF StartAgain, Surrounded
<1>3. /\ receipts' = receipts /\ job[j].state \in {"completed", "failed"}
      /\ \A i \in Jobs \ {j} : job'[i] = job[i]
  BY <1>1, <1>2 DEF QueueFallback
<1>4. [Next]_vars
  BY <1>2 DEF Next
<1>5. Quiet
  BY <1>1, <1>3, <1>4, QuietFromQueue
<1>6. \A i \in gone : job'[i].state = "absent"
  BY <1>1, <1>3 DEF GoneAbsent
<1>7. QuietStep
  BY <1>1, <1>2, <1>3, <1>5, <1>6 DEF QuietStep
<1>. QED
  BY <1>4, <1>7, QueueKeepsAll

(* What the user, the caught-up check and the clock do to the queue. *)
LEMMA QueueStepKeepsAll ==
    ASSUME ServerInv, QueueStep
    PROVE  ServerInv' /\ StillKnown
<1>1. Kept /\ TypeOK
  BY DEF QueueStep, Surrounded, Kept, library_vars, restore_vars, ServerInv, ServerTyped
<1>2. ASSUME NEW j \in Jobs \ gone, Enqueue(j) PROVE ServerInv' /\ StillKnown
  BY <1>1, <1>2, EnqueueKeepsAll
<1>3. ASSUME NEW j \in Jobs, RetryFailed(j) \/ VerifyComplete(j)
      PROVE  ServerInv' /\ StillKnown
  <2>1. [Next]_vars
    BY <1>3 DEF Next
  <2>2. InPlace
    BY <1>1, <1>3, RowInPlace
  <2>. QED
    BY <1>1, <2>1, <2>2, InPlaceKeepsAll
<1>4. CASE Tick
  <2>1. [Next]_vars
    BY <1>4 DEF Next
  <2>2. InPlace
    BY <1>4 DEF Tick, InPlace
  <2>. QED
    BY <1>1, <2>1, <2>2, InPlaceKeepsAll
<1>. QED
  BY <1>2, <1>3, <1>4 DEF QueueStep

-----------------------------------------------------------------------------
(* The endpoint.                                                           *)

(* An answer that carries a lease carries a known one.                     *)
Answers(m) ==
    \E a, lease :
        Answer(m, a, lease) /\ (a = "job" => lease \in KnownLeases')

(* A step that leaves the queue alone. *)
LEMMA RefusalKeepsAll ==
    ASSUME ServerInv, UNCHANGED vars, Kept
    PROVE  ServerInv' /\ StillKnown
<1>1. InPlace
  BY DEF vars, InPlace
<1>. QED
  BY <1>1, InPlaceKeepsAll

(* A granted lease is known to whoever gets the answer. *)
LEMMA GrantAnswered ==
    ASSUME ServerInv, NEW j \in Jobs, NEW cap \in Caps, ClaimGrants(j, cap),
           UNCHANGED <<library_vars, restore_vars>>,
           firstSync' = IF job[j].attempts = 0
                        THEN [firstSync EXCEPT ![j] = lastSync[j]]
                        ELSE firstSync
    PROVE  /\ ServerInv' /\ StillKnown
           /\ [job |-> j, token |-> job'[j].token, cursor |-> job'[j].cursor,
               allowance |-> job'[j].allowance] \in KnownLeases'
<1>1. /\ TypeOK /\ AbsentRows /\ GoneAbsent /\ gone \subseteq Jobs
      /\ again \subseteq Jobs
      /\ firstSync \in [Jobs -> Nat] /\ lastSync \in [Jobs -> Nat]
  BY DEF ServerInv, ServerTyped
<1>2. /\ InPlace /\ job[j].state # "absent"
      /\ job'[j].state = "leased" /\ job'[j].token \in 1..MaxAttempts
  BY <1>1, GrantInPlace
<1>3. [Next]_vars
  BY DEF Next, Claim
<1>4. Quiet
  BY <1>1, <1>2, <1>3, QuietFromQueue DEF InPlace
<1>5. /\ firstSync' \in [Jobs -> Nat]
      /\ \A i \in Jobs : \/ firstSync'[i] = firstSync[i]
                         \/ /\ firstSync'[i] = lastSync[i]
                            /\ job[i].attempts = 0 /\ i = j
  BY <1>1
<1>6. \A i \in gone : job'[i].state = "absent"
  BY <1>1, <1>2 DEF GoneAbsent, InPlace
<1>7. QuietStep
  BY <1>1, <1>2, <1>4, <1>5, <1>6 DEF QuietStep, restore_vars, InPlace
<1>8. ServerInv' /\ StillKnown
  BY <1>3, <1>7, QueueKeepsAll
<1>9. job'[j] \in Row /\ job'[j].token = job'[j].attempts
  BY <1>2, <1>8 DEF ServerInv, ServerTyped, TypeOK, LeaseShape, RowShape
<1>. DEFINE l == [job |-> j, token |-> job'[j].token, cursor |-> job'[j].cursor,
                  allowance |-> job'[j].allowance]
<1>10. /\ l.job = j /\ l.token = job'[j].token /\ l.cursor = job'[j].cursor
       /\ l.allowance = job'[j].allowance
       /\ l \in [job : Jobs, token : 1..MaxAttempts, cursor : Positions,
                 allowance : 0..DailyLimit]
  BY <1>2, <1>9, NoCursorIsNoPost DEF Row, Positions
<1>11. l.job \in gone' \/ l.token <= job'[l.job].attempts
  BY <1>9, <1>10 DEF Row
<1>. HIDE DEF l
<1>12. l \in KnownLeases'
  BY <1>10, <1>11 DEF KnownLeases, TokenGiven
<1>. QED
  BY <1>8, <1>12 DEF l

(* A claim is served. *)
LEMMA ClaimServed ==
    ASSUME ServerInv, NEW m, ServeClaim(m)
    PROVE  ServerInv' /\ StillKnown /\ Answers(m)
<1>1. CASE /\ ClaimDefers \/ ClaimFindsNothing
           /\ Answer(m, "no job", Null) /\ UNCHANGED firstSync
  <2>1. [Next]_vars /\ InPlace /\ Kept
    BY <1>1, FruitlessInPlace
       DEF Next, Claim, Answer, Kept, ServerInv, ServerTyped
  <2>2. ServerInv' /\ StillKnown
    BY <2>1, InPlaceKeepsAll
  <2>3. Answer(m, "no job", Null) /\ "no job" # "job"
    BY <1>1
  <2>4. Answers(m)
    BY <2>3, Zenon DEF Answers
  <2>. QED
    BY <2>2, <2>4
<1>2. ASSUME NEW j \in Jobs, NEW cap \in Caps, ClaimGrants(j, cap),
             Answer(m, "job", [job |-> j, token |-> job'[j].token,
                               cursor |-> job'[j].cursor,
                               allowance |-> job'[j].allowance]),
             firstSync' = IF job[j].attempts = 0
                          THEN [firstSync EXCEPT ![j] = lastSync[j]]
                          ELSE firstSync
      PROVE  ServerInv' /\ StillKnown /\ Answers(m)
  <2>1. UNCHANGED <<library_vars, restore_vars>>
    BY <1>2 DEF Answer
  <2>2. /\ ServerInv' /\ StillKnown
        /\ [job |-> j, token |-> job'[j].token, cursor |-> job'[j].cursor,
            allowance |-> job'[j].allowance] \in KnownLeases'
    BY <1>2, <2>1, GrantAnswered
  <2>. QED
    BY <1>2, <2>2 DEF Answers
<1>. QED
  BY <1>1, <1>2 DEF ServeClaim

(* A heartbeat, an error, or a batch of a renamed profile is served. *)
LEMMA RequestServed ==
    ASSUME ServerInv, NEW m, SoundBody(m),
           ServeHeartbeat(m) \/ ServeError(m) \/ RejectBatch(m)
    PROVE  ServerInv' /\ StillKnown /\ Answers(m)
<1>1. TypeOK
  BY DEF ServerInv, ServerTyped
<1>2. ASSUME NEW a, a # "job", Answer(m, a, Null), UNCHANGED firstSync
      PROVE  Kept /\ Answers(m)
  BY <1>2 DEF Answer, Kept, Answers
<1>3. ASSUME NEW a, a # "job", Answer(m, a, Null), UNCHANGED firstSync, UNCHANGED vars
      PROVE  ServerInv' /\ StillKnown /\ Answers(m)
  BY <1>2, <1>3, RefusalKeepsAll
<1>4. CASE ServeHeartbeat(m)
  <2>1. m.body.job \in Jobs /\ m.body.token \in 1..MaxAttempts
    BY <1>4 DEF ServeHeartbeat, SoundBody
  <2>2. CASE /\ Renew(m.body.job, m.body.token, "waiting_for_twillot")
             /\ Answer(m, "ok", Null) /\ UNCHANGED firstSync
    <3>1. [Next]_vars
      BY <2>1, <2>2, HistoryAssumption DEF Next
    <3>2. InPlace
      BY <1>1, <2>1, <2>2, RowInPlace
    <3>3. Kept /\ Answers(m)
      BY <1>2, <2>2
    <3>. QED
      BY <3>1, <3>2, <3>3, InPlaceKeepsAll
  <2>. QED
    BY <1>3, <1>4, <2>2 DEF ServeHeartbeat
<1>5. CASE ServeError(m)
  <2>1. m.body.job \in Jobs /\ m.body.token \in 1..MaxAttempts
    BY <1>5 DEF ServeError, SoundBody
  <2>2. CASE /\ Fail(m.body.job, m.body.token)
             /\ Answer(m, "ok", Null) /\ UNCHANGED firstSync
    <3>1. [Next]_vars
      BY <2>1, <2>2 DEF Next
    <3>2. InPlace
      BY <1>1, <2>1, <2>2, RowInPlace
    <3>3. Kept /\ Answers(m)
      BY <1>2, <2>2
    <3>. QED
      BY <3>1, <3>2, <3>3, InPlaceKeepsAll
  <2>. QED
    BY <1>3, <1>5, <2>2 DEF ServeError
<1>6. CASE RejectBatch(m)
  BY <1>3, <1>6 DEF RejectBatch
<1>. QED
  BY <1>4, <1>5, <1>6

(* A batch is served, now or late. *)
LEMMA BatchServed ==
    ASSUME ServerInv, NEW m, SoundBody(m), ServeBatch(m)
    PROVE  ServerInv' /\ StillKnown /\ Answers(m)
<1>. DEFINE s == m.body
            r == job[s.job]
            held == HoldsLease(r, s.token)
            outcome == IF BatchOutcome(s) = "replayed" THEN "ok" ELSE BatchOutcome(s)
<1>1. /\ TypeOK /\ s \in KnownBatches /\ s.job \in Jobs
      /\ s.token \in 1..MaxAttempts /\ UNCHANGED firstSync
  BY DEF ServerInv, ServerTyped, ServeBatch, SoundBody, KnownBatches, Submissions
<1>2. ASSUME NEW a, a # "job", Answer(m, a, Null)
      PROVE  Kept /\ Answers(m)
  BY <1>1, <1>2 DEF Answer, Kept, Answers
<1>3. outcome # "job"
  BY DEF BatchOutcome
<1>4. CASE UNCHANGED vars /\ (Answer(m, "INTERNAL_ERROR", Null)
                              \/ Answer(m, "STALE_LEASE", Null))
  BY <1>2, <1>4, RefusalKeepsAll
<1>5. CASE CompleteBatch(s) /\ Answer(m, "ok", Null)
  <2>1. Kept /\ Answers(m)
    BY <1>2, <1>5
  <2>2. BatchStep(s)
    BY <1>5, <2>1 DEF BatchStep, Kept
  <2>. QED
    BY <1>1, <2>1, <2>2, BatchKeepsAll
<1>6. CASE /\ job' = IF held THEN [job EXCEPT ![s.job].capture = "ingesting"]
                     ELSE job
           /\ UNCHANGED <<now, receipts, usage, paused>>
           /\ Answer(m, outcome, Null)
  <2>1. Kept /\ Answers(m)
    BY <1>2, <1>3, <1>6
  <2>2. CASE held
    <3>1. MarkCaptureStatus(s.job, s.token, "ingesting")
      BY <1>6, <2>2 DEF MarkCaptureStatus
    <3>2. [Next]_vars
      BY <1>1, <3>1, HistoryAssumption DEF Next
    <3>3. InPlace
      BY <1>1, <3>1, RowInPlace
    <3>. QED
      BY <2>1, <3>2, <3>3, InPlaceKeepsAll
  <2>3. CASE ~held
    BY <1>6, <2>1, <2>3, RefusalKeepsAll DEF vars
  <2>. QED
    BY <2>2, <2>3
<1>. QED
  BY <1>4, <1>5, <1>6 DEF ServeBatch

(* Every request keeps the invariant, and its answer is sound. *)
LEMMA ServeKeepsAll ==
    ASSUME ServerInv, NEW m, SoundBody(m), Serve(m)
    PROVE  ServerInv' /\ StillKnown /\ Answers(m)
BY ClaimServed, RequestServed, BatchServed DEF Serve

-----------------------------------------------------------------------------
(* The companion: its storage and its requests.                            *)

(* Storage after a step, in terms of what was known before it.             *)
StorageNext ==
    /\ active' \in KnownLeases \cup {Null}
    /\ outbox' \in KnownBatches \cup {Null}
    /\ capture' \in [Jobs -> Captured \cup {Null}]
    /\ \A j \in Jobs : capture'[j] \in KnownCaptures[j] \cup {Null}

(* What was known before the step may be stored after it. *)
LEMMA StorageKept ==
    ASSUME StorageNext, StillKnown
    PROVE  StorageInv'
BY DEF StorageNext, StillKnown, StorageInv

(* Storage that does not change holds what was known. *)
LEMMA StorageStays ==
    ASSUME StorageInv, UNCHANGED storage
    PROVE  StorageNext
BY DEF StorageInv, storage, StorageNext

(* A sound request stays one. *)
LEMMA BodyStaysSound ==
    ASSUME StillKnown, NEW m, SoundBody(m)
    PROVE  SoundBody(m)'
BY DEF StillKnown, SoundBody

(* While nothing is awaited, or the answer is there, no request is current.*)
LEMMA NoneCurrent ==
    ASSUME Talk, running = "idle" \/ reply # Null
    PROVE  \A m \in net : m.number # failures
BY DEF Talk, Kinds

(* A request is sent, with what is known. *)
LEMMA TalkSent ==
    ASSUME Talk, StillKnown, running = "idle" \/ reply # Null,
           NEW kind \in Kinds, NEW body,
           SoundBody([kind |-> kind, body |-> body, number |-> failures]),
           Send(kind, body), reply' = Null, failures' = failures
    PROVE  Talk'
<1>. DEFINE n == [kind |-> kind, body |-> body, number |-> failures]
<1>1. /\ n.kind = kind /\ n.number = failures /\ SoundBody(n)
      /\ net' = net \cup {n} /\ running' = kind
  BY DEF Send
<1>. HIDE DEF n
<1>2. \A m \in net : m.number # failures
  BY NoneCurrent
<1>3. failures \in 0..MaxFailures /\ failures \in 0..failures
  BY HistoryAssumption DEF Talk
<1>4. ASSUME NEW m \in net'
      PROVE  /\ m.kind \in Kinds /\ m.number \in 0..failures /\ SoundBody(m)'
             /\ m.number = failures => m = n
  BY <1>1, <1>2, <1>3, <1>4, BodyStaysSound DEF Talk
<1>. QED
  BY <1>1, <1>3, <1>4 DEF Talk, Kinds

(* The extension is done with an answer, or did not wait for one. *)
LEMMA TalkEnds ==
    ASSUME Talk, StillKnown, running = "idle" \/ reply # Null,
           net' = net, failures' = failures, running' = "idle", reply' = Null
    PROVE  Talk'
<1>1. \A m \in net : m.number # failures
  BY NoneCurrent
<1>. QED
  BY <1>1, BodyStaysSound DEF Talk

(* A step beside the conversation keeps it. *)
LEMMA TalkGoesOn ==
    ASSUME Talk, StillKnown,
           net' = net, failures' = failures, running' = running, reply' = reply
    PROVE  Talk'
BY BodyStaysSound DEF Talk, StillKnown

(* A request is given up, or the extension stopped. *)
LEMMA TalkFails ==
    ASSUME Talk, StillKnown, RequestFails \/ Stop
    PROVE  Talk'
<1>1. /\ failures < MaxFailures /\ failures' = failures + 1 /\ net' = net
      /\ running' = "idle" /\ reply' = Null
  BY DEF RequestFails, Stop
<1>2. failures \in Nat /\ MaxFailures \in Nat /\ failures' \in 0..MaxFailures
  BY <1>1, HistoryAssumption DEF Talk
<1>3. \A m \in net : m.number \in 0..failures' /\ m.number # failures'
  BY <1>1, <1>2 DEF Talk
<1>. QED
  BY <1>1, <1>2, <1>3, BodyStaysSound DEF Talk

(* A request is answered; only the current one's answer arrives. *)
LEMMA TalkAnswered ==
    ASSUME Talk, StillKnown, NEW m \in net, Answers(m)
    PROVE  Talk' /\ UNCHANGED storage
<1>1. PICK a, lease :
        Answer(m, a, lease) /\ (a = "job" => lease \in KnownLeases')
  BY DEF Answers
<1>2. /\ net' = net \ {m} /\ failures' = failures /\ running' = running
      /\ reply' = IF m.number = failures THEN [answer |-> a, lease |-> lease]
                  ELSE reply
      /\ UNCHANGED storage
  BY <1>1 DEF Answer
<1>3. m.number = failures => /\ running = m.kind /\ m.kind \in Kinds
                             /\ \A o \in net \ {m} : o.number # failures
  BY DEF Talk
<1>4. reply' # Null /\ reply'.answer = "job" => reply'.lease \in KnownLeases'
  BY <1>1, <1>2 DEF Talk, StillKnown
<1>5. running' = "idle" => reply' = Null
  BY <1>2, <1>3 DEF Talk, Kinds
<1>6. running' = "claimed" => reply' # Null /\ reply'.answer = "job"
  BY <1>2, <1>3 DEF Talk, Kinds
<1>7. \A o \in net' : o.number = failures => running' = o.kind /\ reply' = Null
  BY <1>2, <1>3 DEF Talk
<1>8. \A o \in net' : SoundBody(o)'
  BY <1>2, BodyStaysSound DEF Talk
<1>. QED
  BY <1>2, <1>4, <1>5, <1>6, <1>7, <1>8 DEF Talk

(* What a scan keeps of a job's freshness is known of it. *)
LEMMA CapturesKnown ==
    ASSUME ServerInv, NEW j \in Jobs, TokenGiven(j, 1)
    PROVE  /\ Baseline(lastSync[j]) \in KnownCaptures[j]
           /\ Baseline(Pending) \in KnownCaptures[j]
           /\ \A c \in KnownCaptures[j] \cup {Null} :
                Watched(c, lastSync[j]) \in KnownCaptures[j]
           /\ \A c \in KnownCaptures[j] \cup {Null} :
                Ready(c, lastSync[j]) =>
                  /\ firstSync[j] < lastSync[j]
                  /\ [c EXCEPT !.approved = lastSync[j]] \in KnownCaptures[j]
<1>. DEFINE sync == lastSync[j]
            first == firstSync[j]
<1>1. sync \in Nat /\ first \in Nat /\ first <= sync
  BY DEF ServerInv, ServerTyped
<1>2. \A c : c \in KnownCaptures[j] <=>
               /\ c \in Captured
               /\ c.base # Pending => first <= c.base
               /\ c.approved # 0 => first < c.approved
  BY DEF KnownCaptures
<1>3. Pending = -1 /\ Pending \notin Nat
  BY DEF Pending
<1>4. Baseline(sync) \in KnownCaptures[j] /\ Baseline(Pending) \in KnownCaptures[j]
  BY <1>1, <1>2, <1>3 DEF Baseline, Captured
<1>5. ASSUME NEW c \in KnownCaptures[j] \cup {Null}
      PROVE  Watched(c, sync) \in KnownCaptures[j]
  <2>1. CASE c = Null \/ c.base = Pending
    BY <1>4, <2>1 DEF Watched
  <2>2. CASE c # Null /\ c.base # Pending
    BY <1>1, <1>2, <1>3, <1>5, <2>2 DEF Watched, Captured
  <2>. QED
    BY <2>1, <2>2
<1>6. ASSUME NEW c \in KnownCaptures[j] \cup {Null}, Ready(c, sync)
      PROVE  first < sync /\ [c EXCEPT !.approved = sync] \in KnownCaptures[j]
  <2>1. /\ c \in Captured /\ c.base # Pending /\ first <= c.base
        /\ c.approved # 0 => first < c.approved
    BY <1>2, <1>6 DEF Ready
  <2>2. first < sync
    BY <1>1, <1>3, <1>6, <2>1
       DEF Ready, Approved, SyncedSinceBaseline, Captured
  <2>. QED
    BY <1>1, <1>2, <2>1, <2>2 DEF Captured
<1>. QED
  BY <1>4, <1>5, <1>6

(* Whoever has a lease knows that the job has had one. *)
LEMMA LeaseWasFirst ==
    ASSUME ServerInv, NEW l \in KnownLeases
    PROVE  /\ l.job \in Jobs /\ l.token \in 1..MaxAttempts
           /\ TokenGiven(l.job, 1)
<1>1. l.job \in Jobs /\ l.token \in 1..MaxAttempts /\ TokenGiven(l.job, l.token)
  BY DEF KnownLeases
<1>2. job[l.job].attempts \in Nat
  BY <1>1 DEF ServerInv, ServerTyped, TypeOK, Row
<1>3. MaxAttempts \in Nat
  BY BoundAssumption
<1>. QED
  BY <1>1, <1>2, <1>3 DEF TokenGiven

(* A step of the extension that keeps what it stores, and its part of the  *)
(* conversation, is sound.                                                 *)
LEMMA StorageStep ==
    ASSUME HInv, UNCHANGED server_vars
    PROVE  /\ ServerInv' /\ StillKnown
           /\ StorageNext /\ Talk' => HInv'
<1>1. ServerInv' /\ StillKnown
  BY RefusalKeepsAll DEF HInv, server_vars, Kept
<1>. QED
  BY <1>1, StorageKept DEF HInv

(* Claiming: the job's baseline is saved before the job. *)
LEMMA ClaimSteps ==
    ASSUME HInv, AskForJob \/ SaveBaseline \/ SaveJob \/ QueueEmpty \/ SchemaBlocked
    PROVE  HInv'
<1>1. /\ UNCHANGED server_vars /\ ServerInv /\ StorageInv /\ Talk
  BY DEF HInv, AskForJob, SaveBaseline, SaveJob, QueueEmpty, SchemaBlocked
<1>2. StillKnown
  BY <1>1, StorageStep
<1>3. reply # Null /\ reply.answer = "job" => reply.lease \in KnownLeases
  BY <1>1 DEF Talk
<1>4. CASE AskForJob
  <2>1. SoundBody([kind |-> "claim", body |-> Null, number |-> failures])
    BY DEF SoundBody
  <2>2. /\ running = "idle" /\ reply = Null /\ reply' = reply
        /\ failures' = failures /\ Send("claim", Null) /\ UNCHANGED storage
    BY <1>1, <1>4 DEF AskForJob, Idle, Talk
  <2>3. Talk'
    BY <1>1, <1>2, <2>1, <2>2, TalkSent DEF Kinds
  <2>. QED
    BY <1>1, <2>2, <2>3, StorageStays, StorageStep
<1>5. CASE SaveBaseline
  <2>. DEFINE j == reply.lease.job
  <2>1. /\ reply # Null /\ reply.answer = "job" /\ reply.lease \in KnownLeases
        /\ running' = "claimed" /\ net' = net /\ reply' = reply
        /\ failures' = failures /\ active' = active /\ outbox' = outbox
        /\ \/ capture' = capture
           \/ \E c \in {Baseline(lastSync[j]), Baseline(Pending)} :
                capture' = [capture EXCEPT ![j] = c]
    BY <1>3, <1>5 DEF SaveBaseline, GotJob, Answered
  <2>2. j \in Jobs /\ TokenGiven(j, 1)
    BY <1>1, <2>1, LeaseWasFirst
  <2>3. {Baseline(lastSync[j]), Baseline(Pending)} \subseteq KnownCaptures[j]
    BY <1>1, <2>2, CapturesKnown
  <2>4. KnownCaptures[j] \subseteq Captured
    BY <2>2 DEF KnownCaptures
  <2>. HIDE DEF j
  <2>5. StorageNext
    BY <1>1, <2>1, <2>2, <2>3, <2>4 DEF StorageInv, StorageNext
  <2>6. \A m \in net : m.number # failures
    BY <1>1, <2>1, NoneCurrent
  <2>7. Talk'
    BY <1>1, <1>2, <2>1, <2>6, BodyStaysSound DEF Talk, StillKnown
  <2>. QED
    BY <1>1, <2>5, <2>7, StorageStep
<1>6. CASE SaveJob
  <2>1. /\ reply # Null /\ reply.lease \in KnownLeases
        /\ active' = reply.lease /\ running' = "idle" /\ reply' = Null
        /\ capture' = capture /\ outbox' = outbox /\ net' = net
        /\ failures' = failures
    BY <1>1, <1>3, <1>6 DEF SaveJob, Talk
  <2>2. StorageNext
    BY <1>1, <2>1 DEF StorageInv, StorageNext
  <2>3. Talk'
    BY <1>1, <1>2, <2>1, TalkEnds
  <2>. QED
    BY <1>1, <2>2, <2>3, StorageStep
<1>7. CASE QueueEmpty
  <2>1. /\ reply # Null /\ running' = "idle" /\ reply' = Null
        /\ UNCHANGED storage /\ net' = net /\ failures' = failures
    BY <1>7 DEF QueueEmpty, Answered
  <2>2. Talk'
    BY <1>1, <1>2, <2>1, TalkEnds
  <2>. QED
    BY <1>1, <2>1, <2>2, StorageStays, StorageStep
<1>8. CASE SchemaBlocked
  <2>. DEFINE body == [job |-> reply.lease.job, token |-> reply.lease.token]
  <2>1. /\ reply # Null /\ reply.answer = "job" /\ reply.lease \in KnownLeases
        /\ Send("error", body) /\ reply' = Null
        /\ UNCHANGED storage /\ failures' = failures
    BY <1>3, <1>8 DEF SchemaBlocked, GotJob, Answered
  <2>2. body.job \in Jobs /\ body.token \in 1..MaxAttempts
    BY <1>1, <2>1, LeaseWasFirst
  <2>. HIDE DEF body
  <2>3. SoundBody([kind |-> "error", body |-> body, number |-> failures])
    BY <2>2 DEF SoundBody
  <2>4. Talk'
    BY <1>1, <1>2, <2>1, <2>3, TalkSent DEF Kinds
  <2>. QED
    BY <1>1, <2>1, <2>4, StorageStays, StorageStep
<1>. QED
  BY <1>4, <1>5, <1>6, <1>7, <1>8

(* Scanning: the batch it stores is one the server would take now. *)
LEMMA ScanSteps ==
    ASSUME HInv, ScanWaits \/ ScanReads \/ ScanFails
    PROVE  HInv'
<1>. DEFINE j == active.job
            body == [job |-> active.job, token |-> active.token]
<1>1. /\ UNCHANGED server_vars /\ ServerInv /\ StorageInv /\ Talk /\ Scanning
  BY DEF HInv, ScanWaits, ScanReads, ScanFails
<1>2. StillKnown
  BY <1>1, StorageStep
<1>3. /\ active \in KnownLeases /\ running = "idle" /\ reply = Null
      /\ capture \in [Jobs -> Captured \cup {Null}]
  BY <1>1 DEF Scanning, Idle, StorageInv, Talk
<1>4. /\ j \in Jobs /\ TokenGiven(j, 1)
      /\ body.job \in Jobs /\ body.token \in 1..MaxAttempts
  BY <1>1, <1>3, LeaseWasFirst
<1>5. capture[j] \in KnownCaptures[j] \cup {Null}
  BY <1>1, <1>4 DEF StorageInv
<1>6. KnownCaptures[j] \subseteq Captured
  BY <1>4 DEF KnownCaptures
<1>7. ASSUME NEW c \in KnownCaptures[j], capture' = [capture EXCEPT ![j] = c],
             active' = active, outbox' \in KnownBatches \cup {Null}
      PROVE  StorageNext
  <2>. HIDE DEF j
  <2>. QED
    BY <1>1, <1>3, <1>4, <1>6, <1>7 DEF StorageInv, StorageNext
<1>8. ASSUME NEW kind \in {"heartbeat", "error"}, Send(kind, body),
             reply' = reply, failures' = failures
      PROVE  Talk'
  <2>1. SoundBody([kind |-> kind, body |-> body, number |-> failures])
    <3>. HIDE DEF body
    <3>. QED
      BY <1>4 DEF SoundBody
  <2>. HIDE DEF body
  <2>. QED
    BY <1>1, <1>2, <1>3, <1>8, <2>1, TalkSent DEF Kinds
<1>9. CASE ScanWaits
  <2>1. /\ capture' = [capture EXCEPT ![j] = Watched(capture[j], lastSync[j])]
        /\ Send("heartbeat", body) /\ active' = active /\ outbox' = outbox
        /\ reply' = reply /\ failures' = failures
    BY <1>9 DEF ScanWaits
  <2>2. Watched(capture[j], lastSync[j]) \in KnownCaptures[j]
    BY <1>1, <1>4, <1>5, CapturesKnown
  <2>3. StorageNext
    BY <1>1, <1>7, <2>1, <2>2 DEF StorageInv
  <2>4. Talk'
    BY <1>8, <2>1
  <2>. QED
    BY <1>1, <2>3, <2>4, StorageStep
<1>10. ASSUME Ready(capture[j], lastSync[j]), Approve
       PROVE  /\ firstSync[j] < lastSync[j]
              /\ \E c \in KnownCaptures[j] : capture' = [capture EXCEPT ![j] = c]
  <2>1. /\ firstSync[j] < lastSync[j]
        /\ [capture[j] EXCEPT !.approved = lastSync[j]] \in KnownCaptures[j]
    BY <1>1, <1>4, <1>5, <1>10, CapturesKnown
  <2>2. capture' = [capture EXCEPT ![j] = [capture[j] EXCEPT !.approved = lastSync[j]]]
    BY <1>3, <1>4, <1>10 DEF Approve
  <2>. QED
    BY <2>1, <2>2
<1>11. CASE ScanReads
  <2>1. /\ Ready(capture[j], lastSync[j]) /\ Approve /\ outbox' = BatchFrom(active)
        /\ active' = active /\ running' = running /\ net' = net
        /\ reply' = reply /\ failures' = failures
    BY <1>11 DEF ScanReads
  <2>2. firstSync[j] < lastSync[j] /\ firstSync[j] \in Nat /\ lastSync[j] \in Nat
    BY <1>1, <1>4, <1>10, <2>1 DEF ServerInv, ServerTyped
  <2>3. BatchFrom(active) \in KnownBatches
    BY <1>1, <1>3, <2>2, ScanReadsKnown DEF ServerInv
  <2>4. StorageNext
    BY <1>7, <1>10, <2>1, <2>3
  <2>5. Talk'
    BY <1>1, <1>2, <2>1, TalkGoesOn
  <2>. QED
    BY <1>1, <2>4, <2>5, StorageStep
<1>12. CASE ScanFails
  <2>1. /\ Ready(capture[j], lastSync[j]) /\ Approve /\ Send("error", body)
        /\ active' = active /\ outbox' = outbox
        /\ reply' = reply /\ failures' = failures
    BY <1>12 DEF ScanFails
  <2>2. StorageNext
    BY <1>1, <1>7, <1>10, <2>1 DEF StorageInv
  <2>3. Talk'
    BY <1>8, <2>1
  <2>. QED
    BY <1>1, <2>2, <2>3, StorageStep
<1>. QED
  BY <1>9, <1>11, <1>12

(* Answers: keys are removed one by one, and nothing else is stored. *)
LEMMA AnswerSteps ==
    ASSUME HInv,
           \/ SendOutbox \/ HeartbeatAnswered \/ BatchAccepted \/ BatchStale
           \/ BatchMismatched \/ BatchRefused \/ ErrorAnswered \/ RemoveKey
    PROVE  HInv'
<1>1. UNCHANGED server_vars
  BY DEF SendOutbox, HeartbeatAnswered, BatchAccepted, BatchStale,
         BatchMismatched, BatchRefused, ErrorAnswered, RemoveKey, Finish
<1>2. ServerInv /\ StorageInv /\ Talk /\ StillKnown
  BY <1>1, StorageStep DEF HInv
<1>3. ASSUME NEW keys, reply # Null, Finish(keys) PROVE HInv'
  <2>1. /\ running' = "idle" /\ reply' = Null /\ UNCHANGED storage
        /\ net' = net /\ failures' = failures
    BY <1>3 DEF Finish
  <2>2. Talk'
    BY <1>2, <1>3, <2>1, TalkEnds
  <2>. QED
    BY <1>1, <1>2, <2>1, <2>2, StorageStays, StorageStep
<1>4. CASE SendOutbox
  <2>1. /\ running = "idle" /\ reply = Null /\ reply' = reply
        /\ failures' = failures /\ Send("batch", outbox) /\ UNCHANGED storage
        /\ outbox \in KnownBatches
    BY <1>2, <1>4 DEF SendOutbox, Idle, Talk, StorageInv
  <2>2. SoundBody([kind |-> "batch", body |-> outbox, number |-> failures])
    BY <2>1 DEF SoundBody
  <2>3. Talk'
    BY <1>2, <2>1, <2>2, TalkSent DEF Kinds
  <2>. QED
    BY <1>1, <1>2, <2>1, <2>3, StorageStays, StorageStep
<1>5. CASE HeartbeatAnswered
  BY <1>3, <1>5 DEF HeartbeatAnswered
<1>6. CASE BatchAccepted
  BY <1>3, <1>6 DEF BatchAccepted, Answered
<1>7. CASE BatchStale
  BY <1>3, <1>7 DEF BatchStale, Answered
<1>8. CASE BatchMismatched
  <2>. DEFINE body == [job |-> active.job, token |-> active.token]
  <2>1. reply # Null
    BY <1>8 DEF BatchMismatched, Answered
  <2>2. CASE /\ active # Null /\ Send("error", body) /\ reply' = Null
             /\ UNCHANGED <<server_vars, storage, removing, failures>>
    <3>1. active \in KnownLeases
      BY <1>2, <2>2 DEF StorageInv
    <3>2. body.job \in Jobs /\ body.token \in 1..MaxAttempts
      BY <1>2, <3>1, LeaseWasFirst
    <3>. HIDE DEF body
    <3>3. SoundBody([kind |-> "error", body |-> body, number |-> failures])
      BY <3>2 DEF SoundBody
    <3>4. Talk'
      BY <1>2, <2>1, <2>2, <3>3, TalkSent DEF Kinds
    <3>. QED
      BY <1>1, <1>2, <2>2, <3>4, StorageStays, StorageStep
  <2>. QED
    BY <1>3, <1>8, <2>1, <2>2 DEF BatchMismatched
<1>9. CASE BatchRefused
  BY <1>3, <1>9 DEF BatchRefused
<1>10. CASE ErrorAnswered
  BY <1>3, <1>10 DEF ErrorAnswered
<1>11. CASE RemoveKey
  <2>1. PICK i : /\ active' \in {active, Null} /\ outbox' \in {outbox, Null}
                 /\ capture' \in {capture, [capture EXCEPT ![i] = Null]}
                 /\ running' = running /\ net' = net /\ reply' = reply
                 /\ failures' = failures
    BY <1>11 DEF RemoveKey
  <2>2. StorageNext
    BY <1>2, <2>1 DEF StorageInv, StorageNext
  <2>3. Talk'
    BY <1>2, <2>1, TalkGoesOn
  <2>. QED
    BY <1>1, <2>2, <2>3, StorageStep
<1>. QED
  BY <1>4, <1>5, <1>6, <1>7, <1>8, <1>9, <1>10, <1>11

(* Every step of the extension keeps the invariant. *)
LEMMA CompanionKeeps ==
    ASSUME HInv, CompanionStep
    PROVE  HInv'
BY ClaimSteps, ScanSteps, AnswerSteps DEF CompanionStep

-----------------------------------------------------------------------------
(* The invariant holds.                                                    *)

LEMMA HistoryInitHolds == HistoryInit => HInv
<1>. SUFFICES ASSUME HistoryInit PROVE HInv
  OBVIOUS
<1>1. /\ Init /\ receipts = {} /\ gone = {} /\ again = {} /\ restores = 0
      /\ library \in [Jobs -> {1..n : n \in 0..MaxPosts}]
      /\ lastSync \in [Jobs -> 0..1] /\ firstSync = [j \in Jobs |-> 0]
      /\ job = [j \in Jobs |-> AbsentRow] /\ AbsentRow.state = "absent"
  BY DEF HistoryInit, Init, AbsentRow
<1>2. TypeOK /\ LeaseShape /\ AbsentRows
  BY <1>1, TypeInit, ShapeInit, ReceiptInit
<1>3. \A j \in Jobs : Imported(j) = {}
  BY <1>1 DEF Imported
<1>4. library \in [Jobs -> SUBSET Posts]
  <2>1. ASSUME NEW n \in 0..MaxPosts PROVE 1..n \subseteq Posts
    BY PostsAreNumbers DEF Posts
  <2>. QED
    BY <1>1, <2>1
<1>5. ServerTyped
  BY <1>1, <1>2, <1>4, HistoryAssumption DEF ServerTyped
<1>6. GoneAbsent /\ ReceiptsRead /\ ImportedBehind /\ NothingSkipped
      /\ PostsChargedOnce /\ CompletedFromFreshExport
  BY <1>1, <1>3 DEF GoneAbsent, ReceiptsRead, ImportedBehind, NothingSkipped,
                    PostsChargedOnce, CompletedFromFreshExport
<1>7. StorageInv
  BY <1>1 DEF HistoryInit, StorageInv
<1>8. Talk
  BY HistoryAssumption DEF HistoryInit, Talk
<1>. QED
  BY <1>2, <1>5, <1>6, <1>7, <1>8 DEF HInv, ServerInv

(* Every step keeps the invariant. *)
LEMMA HistoryStep == HInv /\ [HistoryNext]_history_vars => HInv'
<1>. SUFFICES ASSUME HInv, [HistoryNext]_history_vars PROVE HInv'
  OBVIOUS
<1>1. ServerInv /\ ServerTyped /\ StorageInv /\ Talk
  BY DEF HInv, ServerInv
<1>2. ASSUME ServerInv' /\ StillKnown, UNCHANGED storage, Talk' PROVE HInv'
  BY <1>1, <1>2, StorageStays, StorageKept DEF HInv
<1>3. ASSUME ServerInv' /\ StillKnown, Surrounded PROVE HInv'
  <2>1. Talk'
    BY <1>1, <1>3, TalkGoesOn DEF Surrounded
  <2>. QED
    BY <1>2, <1>3, <2>1 DEF Surrounded
<1>4. CASE CompanionStep
  BY <1>4, CompanionKeeps
<1>5. ASSUME NEW m \in net, Serve(m) PROVE HInv'
  <2>1. SoundBody(m)
    BY <1>1 DEF Talk
  <2>2. ServerInv' /\ StillKnown /\ Answers(m)
    BY <1>1, <1>5, <2>1, ServeKeepsAll
  <2>. QED
    BY <1>1, <1>2, <2>2, TalkAnswered
<1>6. CASE RequestFails \/ Stop
  <2>1. UNCHANGED <<server_vars, storage>>
    BY <1>6 DEF RequestFails, Stop
  <2>2. ServerInv' /\ StillKnown
    BY <1>1, <2>1, StorageStep
  <2>. QED
    BY <1>1, <1>2, <1>6, <2>1, <2>2, TalkFails
<1>7. CASE QueueStep
  BY <1>1, <1>3, <1>7, QueueStepKeepsAll DEF QueueStep
<1>8. CASE Restore
  BY <1>1, <1>3, <1>8, RestoreKeepsAll DEF Restore
<1>9. ASSUME NEW j \in Restartable, StartAgain(j) PROVE HInv'
  <2>1. j \in Jobs
    BY HistoryAssumption
  <2>. QED
    BY <1>1, <1>3, <1>9, <2>1, StartAgainKeepsAll DEF StartAgain
<1>10. ASSUME NEW j \in Jobs, Arrive(j) \/ Lose(j) \/ Export(j) PROVE HInv'
  <2>1. LibraryStep /\ Surrounded
    BY <1>1, <1>10, SurroundingsMove DEF Arrive, Lose, Export
  <2>. QED
    BY <1>1, <1>3, <2>1, LibraryKeepsAll
<1>11. CASE UNCHANGED history_vars
  <2>1. Surrounded /\ UNCHANGED server_vars
    BY <1>11 DEF history_vars, Surrounded, server_vars
  <2>2. ServerInv' /\ StillKnown
    BY <2>1, StorageStep
  <2>. QED
    BY <1>3, <2>1, <2>2
<1>. QED
  BY <1>4, <1>5, <1>6, <1>7, <1>8, <1>9, <1>10, <1>11
     DEF HistoryNext, ServeNext, ServeLate

(* So it holds in every reachable state. *)
LEMMA HistoryHolds == HistorySpec => []HInv
BY HistoryInitHolds, HistoryStep, PTL DEF HistorySpec

-----------------------------------------------------------------------------
(* What follows from it.                                                   *)

(* The tables, Twillot's library and Chrome's storage keep their types     *)
(* under every operation of the worker, the endpoint, the collector, a     *)
(* restore and every failure between two steps of them.                    *)
THEOREM HistoryTyped == HistorySpec => []HistoryTypeOK
<1>1. HInv => HistoryTypeOK
  <2>. SUFFICES ASSUME HInv PROVE HistoryTypeOK
    OBVIOUS
  <2>1. MaxAttempts \in Nat /\ DailyLimit \in Nat
    BY BoundAssumption, QuotaAssumption
  <2>2. KnownLeases \subseteq Held
    BY <2>1 DEF KnownLeases, Held, Positions
  <2>3. KnownBatches \subseteq Body
    BY <2>1, NoCursorIsNoPost DEF KnownBatches, Submissions, Body
  <2>. QED
    BY <2>2, <2>3 DEF HInv, ServerInv, ServerTyped, StorageInv, Talk, Kinds,
                      HistoryTypeOK
<1>. QED
  BY <1>1, HistoryHolds, PTL

(* The extension's storage stays in agreement with the server: the batch   *)
(* flushOutbox sends is accepted, replayed or stale, never refused for its *)
(* content, unless a restore has dropped its job; and scanActiveJob starts *)
(* where the server is while its lease lives.                              *)
THEOREM StorageStaysInAgreement == HistorySpec => []StorageAgrees
<1>1. HInv => OutboxAcceptable
  <2>. SUFFICES ASSUME HInv, outbox # Null, outbox.job \notin gone
                PROVE  BatchOutcome(outbox) \in {"accepted", "replayed", "STALE_LEASE"}
    BY DEF OutboxAcceptable
  <2>. DEFINE s == outbox
              r == job[outbox.job]
  <2>1. /\ s \in KnownBatches /\ s \in Submissions /\ Digested(s)
        /\ s.job \in Jobs /\ s.token \in 1..MaxAttempts
        /\ TokenGiven(s.job, s.token) /\ s.count \in 0..DailyLimit
        /\ r.token = s.token => ReadHere(s)
    BY DEF HInv, StorageInv, KnownBatches, Submissions
  <2>2. r \in Row /\ (r.state = "absent" => r = AbsentRow)
    BY <2>1 DEF HInv, ServerInv, ServerTyped, TypeOK, AbsentRows
  <2>3. ASSUME Seen(s.batch) PROVE \E x \in receipts : SameBatch(x, s)
    <3>1. PICK x \in receipts : x.batch = s.batch
      BY <2>3 DEF Seen
    <3>2. Digested(x)
      BY <3>1 DEF HInv, ServerInv, ReceiptsRead
    <3>. QED
      BY <2>1, <3>1, <3>2 DEF Digested, SameBatch
  <2>4. r.state # "absent"
    <3>1. s.token <= r.attempts /\ s.token >= 1 /\ s.token \in Nat
      BY <2>1, BoundAssumption DEF TokenGiven
    <3>. QED
      BY <2>2, <3>1 DEF AbsentRow
  <2>5. HoldsLease(r, s.token) => ~(s.count > r.allowance)
    <3>1. HoldsLease(r, s.token) => s.count <= r.allowance
      BY <2>1 DEF HoldsLease, ReadHere
    <3>2. s.count \in Nat /\ r.allowance \in Nat
      BY <2>1, <2>2, QuotaAssumption DEF Row
    <3>. QED
      BY <3>1, <3>2
  <2>. QED
    BY <2>3, <2>4, <2>5 DEF BatchOutcome
<1>2. HInv => StoredLeaseIsCurrent
  BY DEF HInv, StorageInv, KnownLeases, HoldsLease, StoredLeaseIsCurrent
<1>. QED
  BY <1>1, <1>2, HistoryHolds, PTL DEF StorageAgrees

(* Every post of the library is imported, and charged, exactly once,       *)
(* however often a batch is sent again, cut anew under another lease, or   *)
(* served after the worker had given it up.                                *)
THEOREM EveryPostReadOnce == HistorySpec => []ReadOnce
<1>1. HInv => ReadOnce
  BY DEF HInv, ServerInv, ReadOnce
<1>. QED
  BY <1>1, HistoryHolds, PTL

(* No job is completed from the library of an export that had ended when   *)
(* the job was first leased, whichever worker's baseline its batches were  *)
(* approved against.                                                       *)
THEOREM FreshExportsComplete == HistorySpec => []CompletedFromFreshExport
<1>1. HInv => CompletedFromFreshExport
  BY DEF HInv, ServerInv
<1>. QED
  BY <1>1, HistoryHolds, PTL
=============================================================================
