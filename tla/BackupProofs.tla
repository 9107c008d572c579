---------------------------- MODULE BackupProofs ----------------------------
(***************************************************************************)
(* Proofs about GitBackup, for every set of machines and rows and any      *)
(* number of syncs, updates and failures, and about TwillotBackup, for     *)
(* every set of jobs and every constant of the queue.                      *)
(***************************************************************************)
EXTENDS GitBackup, TwillotBackup, TwillotQueueProofs, SequenceTheorems, TLAPS

-----------------------------------------------------------------------------
(* GitBackup: the inductive invariant.                                     *)

Torn == \E m \in Machines : torn[m]

(* An operation works in a clone that is there.                            *)
Rooted == \A p \in Ops : step[p] # "idle" => head[Host[p]] # None

(* Every commit of a history has a manifest that describes its shards, and *)
(* none drops a row of an earlier one.                                     *)
GoodLog(log) ==
    \A i, j \in 1 .. Len(log) :
        /\ log[i].tree.manifest = log[i].tree.rows
        /\ i <= j => log[i].tree.rows \subseteq log[j].tree.rows

LogsGood ==
    /\ GoodLog(remote)
    /\ \A m \in Machines : head[m] # None => GoodLog(head[m])

(* The files of a clone never lack a row of its last commit, half written  *)
(* or not, and neither does the manifest.                                  *)
FilesCover ==
    \A m \in Machines :
        LET base == TreeOf(head[m]).rows
        IN  /\ base \subseteq files[m].rows
            /\ IF files[m].manifest = None THEN base = {} ELSE base \subseteq files[m].manifest

Exporting == {"written", "sealed", "verified"}

(* Two operations of a clone do not export at a time.                      *)
Alone ==
    \A p, q \in Ops :
        p # q /\ Host[p] = Host[q] => step[p] \notin Exporting \/ step[q] \notin Exporting

(* What a sync that nobody has disturbed carries from its pull to its      *)
(* commit: the rows of the clone's last commit, first in its hands,    *)
(* then in the database, in its hands again, and at last in the files.     *)
OnCourse(p) ==
    LET m == Host[p]
        base == TreeOf(head[m]).rows
    IN  /\ step[p] \in {"read", "built"} \cup Exporting => base \subseteq held[p]
        /\ step[p] = "merged" => base \subseteq db[m]
        /\ step[p] \in Exporting => files[m].rows = held[p]
        /\ step[p] \in {"sealed", "verified"} => files[m].manifest = held[p]

InOrder ==
    /\ LogsGood /\ FilesCover /\ Alone
    /\ \A p \in Syncs : ~met[p] => OnCourse(p)

GitInv == GitTypeOK /\ Rooted /\ (~Torn => InOrder)

-----------------------------------------------------------------------------
(* Histories.                                                              *)

LEMMA NoFilesHere ==
    /\ NoFiles.rows = {} /\ NoFiles.manifest = None
    /\ NoFiles \in [rows : SUBSET Rows, manifest : (SUBSET Rows) \cup {None}]
<1>1. {} \in SUBSET Rows /\ None \in (SUBSET Rows) \cup {None}
  OBVIOUS
<1>. QED
  BY <1>1 DEF NoFiles

(* The files of a history are files.                                       *)
LEMMA TreeOfTyped ==
    ASSUME NEW log \in Seq(Commits) \cup {None}
    PROVE  TreeOf(log) \in Tree
<1>1. NoFiles \in Tree
  BY NoFilesHere DEF Tree
<1>2. CASE log \notin {None, <<>>}
  <2>1. log \in Seq(Commits) /\ Len(log) \in 1 .. Len(log)
    BY <1>2, EmptySeq
  <2>2. log[Len(log)] \in Commits
    BY <2>1
  <2>. QED
    BY <1>2, <2>2 DEF TreeOf, Last, Commits
<1>. QED
  BY <1>1, <1>2 DEF TreeOf

(* No history, and one without commits, have no files; another has those   *)
(* of its last commit.                                                     *)
LEMMA TreeOfLast ==
    ASSUME NEW log \in Seq(Commits)
    PROVE  /\ TreeOf(None) = NoFiles
           /\ Len(log) = 0 => TreeOf(log) = NoFiles
           /\ Len(log) # 0 => Len(log) \in 1 .. Len(log) /\ TreeOf(log) = log[Len(log)].tree
BY NoneAssumption, EmptySeq DEF TreeOf, Last

(* A good history ends with valid files, or without any.                   *)
LEMMA GoodLogIsValid ==
    ASSUME NEW log \in Seq(Commits), GoodLog(log)
    PROVE  \/ TreeOf(log).manifest = TreeOf(log).rows
           \/ (TreeOf(log).manifest = None /\ TreeOf(log).rows = {})
BY TreeOfLast, NoFilesHere DEF GoodLog

(* The rows of a good history are among those of its continuations.        *)
LEMMA GoodLogGrows ==
    ASSUME NEW log \in Seq(Commits), NEW longer \in Seq(Commits),
           GoodLog(longer), IsPrefix(log, longer)
    PROVE  TreeOf(log).rows \subseteq TreeOf(longer).rows
<1>1. CASE Len(log) = 0
  BY <1>1, TreeOfLast, NoFilesHere
<1>2. CASE Len(log) # 0
  <2>1. /\ Len(log) \in Nat /\ Len(longer) \in Nat /\ Len(log) <= Len(longer)
        /\ Len(log) \in 1 .. Len(longer) /\ Len(longer) \in 1 .. Len(longer)
    BY <1>2 DEF IsPrefix
  <2>2. log[Len(log)] = longer[Len(log)]
    <3>1. SubSeq(log, 1, Len(log))[Len(log)] = log[Len(log)]
      BY <2>1
    <3>2. SubSeq(longer, 1, Len(log))[Len(log)] = longer[Len(log)]
      BY <2>1
    <3>. QED
      BY <3>1, <3>2 DEF IsPrefix
  <2>3. longer[Len(log)].tree.rows \subseteq longer[Len(longer)].tree.rows
    BY <2>1 DEF GoodLog
  <2>. QED
    BY <1>2, <2>1, <2>2, <2>3, TreeOfLast
<1>. QED
  BY <1>1, <1>2

(* A commit of valid files that keep the rows there are makes a good       *)
(* history of a good one.                                                  *)
LEMMA CommitIsGood ==
    ASSUME NEW log \in Seq(Commits), NEW c \in Commits
    PROVE  /\ Append(log, c) \in Seq(Commits)
           /\ TreeOf(Append(log, c)) = c.tree
           /\ /\ GoodLog(log) /\ c.tree.manifest = c.tree.rows
              /\ TreeOf(log).rows \subseteq c.tree.rows
              => GoodLog(Append(log, c))
<1> DEFINE new == Append(log, c)
<1>1. /\ new \in Seq(Commits) /\ Len(new) = Len(log) + 1 /\ Len(log) \in Nat
      /\ new[Len(new)] = c /\ \A i \in 1 .. Len(log) : new[i] = log[i]
  OBVIOUS
<1>2. TreeOf(new) = c.tree
  <2>1. Len(new) # 0
    BY <1>1
  <2>. HIDE DEF new
  <2>. QED
    BY <1>1, <2>1, TreeOfLast
<1>3. ASSUME GoodLog(log), c.tree.manifest = c.tree.rows,
             TreeOf(log).rows \subseteq c.tree.rows
      PROVE  GoodLog(new)
  <2>1. \A i \in 1 .. Len(log) : log[i].tree.rows \subseteq c.tree.rows
    <3>1. SUFFICES ASSUME NEW i \in 1 .. Len(log)
                   PROVE  log[i].tree.rows \subseteq c.tree.rows
      OBVIOUS
    <3>2. log[i].tree.rows \subseteq log[Len(log)].tree.rows
      BY <1>1, <1>3, <3>1 DEF GoodLog
    <3>. QED
      BY <1>1, <1>3, <3>1, <3>2, TreeOfLast
  <2>. QED
    BY <1>1, <1>3, <2>1 DEF GoodLog
<1>. QED
  BY <1>1, <1>2, <1>3

-----------------------------------------------------------------------------
(* Types.                                                                  *)

LEMMA HostTyped ==
    ASSUME NEW p \in Ops
    PROVE  Host[p] \in Machines
BY BackupAssumption

(* The rows of some shards are rows of the set, and all shards have all.   *)
LEMMA InFacts ==
    ASSUME NEW rows \in SUBSET Rows, NEW shards
    PROVE  /\ In(rows, shards) \in SUBSET Rows
           /\ In(rows, Shards) = rows /\ In(rows, Shards \ Shards) = {}
BY BackupAssumption DEF In

(* What a pull makes of the files: those of the remote, where no file of   *)
(* the clone was modified, and every row of the remote in any case.        *)
LEMMA ReceivedFiles ==
    ASSUME NEW base \in Tree, NEW old \in Tree, NEW new \in Tree
    PROVE  LET mine == Changed(base, old)
               rows == In(old.rows, mine) \cup In(new.rows, Shards \ mine)
           IN  /\ rows \in SUBSET Rows
               /\ old = base => rows = new.rows
               /\ base.rows \subseteq old.rows /\ mine \cap Changed(base, new) = {}
                  => new.rows \subseteq rows
<1> DEFINE mine == Changed(base, old)
           rows == In(old.rows, mine) \cup In(new.rows, Shards \ mine)
<1>1. /\ base.rows \in SUBSET Rows /\ old.rows \in SUBSET Rows /\ new.rows \in SUBSET Rows
      /\ \A r \in Rows : Shard[r] \in Shards
  BY BackupAssumption DEF Tree
<1>2. rows \in SUBSET Rows
  BY <1>1 DEF In
<1>3. ASSUME old = base PROVE rows = new.rows
  <2>1. mine = {}
    BY <1>3 DEF Changed
  <2>. HIDE DEF mine
  <2>. QED
    BY <1>1, <2>1 DEF In
<1>4. ASSUME base.rows \subseteq old.rows, mine \cap Changed(base, new) = {},
             NEW r \in new.rows
      PROVE  r \in rows
  <2>1. CASE Shard[r] \in mine
    <3>1. In(base.rows, {Shard[r]}) = In(new.rows, {Shard[r]})
      BY <1>1, <1>4, <2>1 DEF Changed
    <3>2. r \in In(new.rows, {Shard[r]})
      BY DEF In
    <3>3. r \in base.rows
      BY <3>1, <3>2 DEF In
    <3>. HIDE DEF mine
    <3>. QED
      BY <1>1, <1>4, <2>1, <3>3 DEF In
  <2>2. CASE Shard[r] \notin mine
    BY <1>1, <2>2 DEF In
  <2>. QED
    BY <2>1, <2>2
<1>. QED
  BY <1>2, <1>3, <1>4

(* The end of an operation leaves the variables it writes well typed.      *)
LEMMA OverTyped ==
    ASSUME GitTypeOK, NEW p \in Ops, Over(p)
    PROVE  /\ step' \in [Ops -> Steps] /\ held' \in [Ops -> SUBSET Rows]
           /\ met' \in [Ops -> BOOLEAN]
           /\ step'[p] = "idle" /\ \A q \in Ops \ {p} : step'[q] = step[q]
           /\ \A q \in Updates : step'[q] \in {"idle", "pulled", "read"}
BY DEF GitTypeOK, Over, To, Steps, Ops

(* One operation's step changes, to one its kind may be at. *)
LEMMA ToTyped ==
    ASSUME GitTypeOK, NEW p \in Ops, NEW s \in Steps, To(p, s),
           p \in Updates => s \in {"idle", "pulled", "read"}
    PROVE  /\ step' \in [Ops -> Steps]
           /\ step'[p] = s /\ \A q \in Ops \ {p} : step'[q] = step[q]
           /\ \A q \in Updates : step'[q] \in {"idle", "pulled", "read"}
BY DEF GitTypeOK, To, Steps, Ops

(* An export past its merge moves on; an update never gets there. *)
LEMMA ExportMoves ==
    ASSUME GitTypeOK, NEW p \in Ops, NEW s \in {"built", "written", "sealed", "verified"},
           step[p] \notin {"idle", "pulled", "read"}, To(p, s), UNCHANGED met,
           held' \in [Ops -> SUBSET Rows]
    PROVE  /\ step' \in [Ops -> Steps] /\ held' \in [Ops -> SUBSET Rows]
           /\ met' \in [Ops -> BOOLEAN]
           /\ \A q \in Updates : step'[q] \in {"idle", "pulled", "read"}
           /\ \A q \in Ops : step'[q] # "idle" => step[q] # "idle"
BY DEF GitTypeOK, To, Steps, Ops

(* Some shards of a clone are written, of the rows that an export holds.   *)
LEMMA WriteTyped ==
    ASSUME GitTypeOK, NEW p \in Ops, NEW shards \in SUBSET Shards, Write(p, shards)
    PROVE  LET m == Host[p] IN
           /\ step[p] = "built" /\ p \in Syncs
           /\ files' \in [Machines -> Tree] /\ torn' \in [Machines -> BOOLEAN]
           /\ files'[m].rows = In(files[m].rows, Shards \ shards) \cup In(held[p], shards)
           /\ files'[m].manifest = files[m].manifest
           /\ \A n \in Machines \ {m} : files'[n] = files[n]
           /\ torn'[m] = (torn[m] \/ Meets(p))
<1> DEFINE m == Host[p]
           rows == In(files[m].rows, Shards \ shards) \cup In(held[p], shards)
           got == [files[m] EXCEPT !.rows = rows]
<1>1. /\ m \in Machines /\ files[m] \in Tree /\ held[p] \in SUBSET Rows
      /\ step[p] = "built" /\ p \in Syncs
  BY HostTyped DEF Write, GitTypeOK, Ops
<1>2. rows \in SUBSET Rows
  BY <1>1, InFacts DEF Tree
<1>3. files' = [files EXCEPT ![m] = got] /\ torn' = [torn EXCEPT ![m] = @ \/ Meets(p)]
  BY DEF Write
<1>4. got \in Tree /\ got.rows = rows /\ got.manifest = files[m].manifest
  <2>. HIDE DEF rows
  <2>. QED
    BY <1>1, <1>2 DEF Tree
<1>5. Meets(p) \in BOOLEAN
  BY DEF Meets, GitTypeOK
<1>. HIDE DEF got, rows
<1>. QED
  BY <1>1, <1>3, <1>4, <1>5 DEF GitTypeOK, rows

(* A pull gives the clone the history of the remote or leaves it alone.    *)
LEMMA PullOutcome ==
    ASSUME GitTypeOK, NEW p \in Ops, Pull(p)
    PROVE  LET m == Host[p] IN
           /\ \/ Receives(m)
              \/ head[m] # None /\ UNCHANGED <<head, files>>
           /\ UNCHANGED <<db, remote, held, torn>>
           /\ met' = Moving(p) /\ To(p, "pulled") /\ step[p] = "idle"
           /\ troubles' \in 0 .. MaxTroubles
BY BackupAssumption DEF Pull, Refused, NoPull, GitTypeOK

(* The clone that receives the remote's history: its files are the         *)
(* remote's, but for rows that modified shards have besides.               *)
LEMMA ReceiveOutcome ==
    ASSUME GitTypeOK, NEW m \in Machines, Receives(m)
    PROVE  /\ head' = [head EXCEPT ![m] = remote]
           /\ files' \in [Machines -> Tree]
           /\ TreeOf(head[m]).rows \subseteq files[m].rows =>
                TreeOf(remote).rows \subseteq files'[m].rows
           /\ files'[m].manifest = TreeOf(remote).manifest
           /\ \A n \in Machines \ {m} : files'[n] = files[n]
           /\ head[m] = remote => files' = files
<1> DEFINE base == TreeOf(head[m])
           new == TreeOf(remote)
           mine == Changed(base, files[m])
           rows == In(files[m].rows, mine) \cup In(new.rows, Shards \ mine)
           got == [new EXCEPT !.rows = rows]
<1>1. base \in Tree /\ new \in Tree /\ files[m] \in Tree /\ files \in [Machines -> Tree]
  BY TreeOfTyped DEF GitTypeOK
<1>2. /\ rows \in SUBSET Rows
      /\ files[m] = base => rows = new.rows
      /\ base.rows \subseteq files[m].rows /\ mine \cap Changed(base, new) = {}
         => new.rows \subseteq rows
  <2>. HIDE DEF base, new
  <2>. QED
    BY <1>1, ReceivedFiles DEF base
<1>3. /\ got \in Tree /\ got.rows = rows /\ got.manifest = new.manifest
      /\ rows = new.rows => got = new
  <2>. HIDE DEF new, rows
  <2>. QED
    BY <1>1, <1>2 DEF Tree
<1>4. /\ files' = [files EXCEPT ![m] = got] /\ head' = [head EXCEPT ![m] = remote]
      /\ \/ files[m] = base
         \/ head[m] # remote /\ mine \cap Changed(base, new) = {}
  BY DEF Receives, Clean
<1>. HIDE DEF got, mine, rows, base, new
<1>5. files' \in [Machines -> Tree] /\ files'[m] = got /\ \A n \in Machines \ {m} : files'[n] = files[n]
  BY <1>1, <1>3, <1>4
<1>6. base.rows \subseteq files[m].rows => new.rows \subseteq rows
  BY <1>2, <1>4
<1>7. head[m] = remote => files' = files
  <2>1. head[m] = remote => base = new
    BY DEF base, new
  <2>. QED
    BY <1>1, <1>2, <1>3, <1>4, <2>1
<1>. QED
  BY <1>3, <1>4, <1>5, <1>6, <1>7 DEF new, base

(* Every step of either machine keeps the types and the common root. *)
LEMMA GitTypesKept ==
    ASSUME GitTypeOK, Rooted, [GitNext]_git_vars
    PROVE  GitTypeOK' /\ Rooted'
<1>. USE DEF Ops
<1>1. CASE UNCHANGED git_vars
  BY <1>1 DEF git_vars, ops, GitTypeOK, Rooted
<1>2. ASSUME NEW m \in Machines, NEW rows \in Finds, Find(m, rows) PROVE GitTypeOK' /\ Rooted'
  BY <1>2, BackupAssumption DEF Find, ops, GitTypeOK, Rooted
<1>3. ASSUME NEW p \in Ops, Pull(p) PROVE GitTypeOK' /\ Rooted'
  <2>1. Host[p] \in Machines /\ TreeOf(remote) \in Tree /\ remote # None /\ remote \in Seq(Commits)
    BY HostTyped, TreeOfTyped, NoneAssumption DEF GitTypeOK
  <2>2. /\ step' \in [Ops -> Steps] /\ step'[p] = "pulled"
        /\ \A q \in Ops \ {p} : step'[q] = step[q]
        /\ \A q \in Updates : step'[q] \in {"idle", "pulled", "read"}
    BY <1>3, PullOutcome, ToTyped DEF Steps
  <2>3. head' \in [Machines -> Seq(Commits) \cup {None}]
    BY <1>3, <2>1, PullOutcome, ReceiveOutcome DEF GitTypeOK
  <2>4. files' \in [Machines -> Tree]
    BY <1>3, <2>1, PullOutcome, ReceiveOutcome DEF GitTypeOK
  <2>5. met' \in [Ops -> BOOLEAN]
    BY <1>3, PullOutcome DEF Moving, GitTypeOK
  <2>6. Rooted'
    <3>1. \A n \in Machines : head[n] # None \/ n = Host[p] => head'[n] # None
      BY <1>3, <2>1, PullOutcome, ReceiveOutcome DEF GitTypeOK
    <3>. QED
      BY <2>2, <3>1, HostTyped DEF Rooted, GitTypeOK
  <2>. QED
    BY <1>3, <2>2, <2>3, <2>4, <2>5, <2>6, PullOutcome DEF GitTypeOK
<1>4. ASSUME NEW p \in Ops, Read(p) PROVE GitTypeOK' /\ Rooted'
  <2>1. /\ step' \in [Ops -> Steps] /\ held' \in [Ops -> SUBSET Rows]
        /\ met' \in [Ops -> BOOLEAN]
        /\ \A q \in Updates : step'[q] \in {"idle", "pulled", "read"}
        /\ \A q \in Ops : step'[q] # "idle" => step[q] # "idle"
    <3>1. Host[p] \in Machines /\ files[Host[p]].manifest \in (SUBSET Rows) \cup {None}
      BY HostTyped DEF GitTypeOK, Tree
    <3>2. CASE Over(p)
      BY <3>2, OverTyped
    <3>3. CASE p \in Syncs /\ To(p, "merged") /\ UNCHANGED <<held, met>>
      BY <1>4, <3>3, ToTyped, BackupAssumption DEF GitTypeOK, Steps, Read
    <3>4. CASE /\ To(p, "read") /\ files[Host[p]].manifest # None
               /\ held' = [held EXCEPT ![p] = files[Host[p]].manifest] /\ UNCHANGED met
      BY <1>4, <3>1, <3>4, ToTyped DEF GitTypeOK, Steps, Read
    <3>. QED
      BY <1>4, <3>2, <3>3, <3>4 DEF Read
  <2>. QED
    BY <1>4, <2>1 DEF Read, GitTypeOK, Rooted
<1>5. ASSUME NEW p \in Ops, MergeFiles(p) PROVE GitTypeOK' /\ Rooted'
  <2>1. /\ step' \in [Ops -> Steps] /\ held' \in [Ops -> SUBSET Rows]
        /\ met' \in [Ops -> BOOLEAN]
        /\ \A q \in Updates : step'[q] \in {"idle", "pulled", "read"}
        /\ \A q \in Ops : step'[q] # "idle" => step[q] # "idle"
    <3>2. CASE Over(p)
      BY <3>2, OverTyped
    <3>3. CASE p \in Syncs /\ To(p, "merged") /\ UNCHANGED <<held, met>>
      BY <1>5, <3>3, ToTyped, BackupAssumption DEF GitTypeOK, Steps, MergeFiles
    <3>. QED
      BY <1>5, <3>2, <3>3 DEF MergeFiles
  <2>. QED
    BY <1>5, <2>1, HostTyped DEF MergeFiles, GitTypeOK, Rooted
<1>6. ASSUME NEW p \in Ops,
             \/ Build(p) \/ WriteShards(p) \/ Seal(p) \/ Verify(p)
             \/ Stop(p) \/ StopWriting(p)
      PROVE GitTypeOK' /\ Rooted'
  <2>1. /\ step' \in [Ops -> Steps] /\ held' \in [Ops -> SUBSET Rows]
        /\ met' \in [Ops -> BOOLEAN]
        /\ \A q \in Updates : step'[q] \in {"idle", "pulled", "read"}
        /\ \A q \in Ops : step'[q] # "idle" => step[q] # "idle"
    <3>1. CASE Over(p)
      BY <3>1, OverTyped
    <3>2. CASE Build(p)
      <4>1. held' \in [Ops -> SUBSET Rows]
        BY <3>2, HostTyped DEF Build, GitTypeOK
      <4>. QED
        BY <3>2, <4>1, ExportMoves DEF Build
    <3>3. CASE WriteShards(p)
      BY <3>3, ExportMoves DEF WriteShards, Write, GitTypeOK
    <3>4. CASE Seal(p)
      BY <3>4, ExportMoves DEF Seal, GitTypeOK
    <3>5. CASE Verify(p) /\ To(p, "verified") /\ UNCHANGED <<held, met>>
      BY <3>5, ExportMoves DEF Verify, GitTypeOK
    <3>6. CASE Verify(p) /\ Over(p)
      BY <3>1, <3>6
    <3>7. Verify(p) => Over(p) \/ (To(p, "verified") /\ UNCHANGED <<held, met>>)
      BY DEF Verify
    <3>8. CASE Stop(p) \/ StopWriting(p)
      BY <3>1, <3>8 DEF Stop, StopWriting, Write
    <3>. QED
      BY <1>6, <3>2, <3>3, <3>4, <3>5, <3>6, <3>7, <3>8
  <2>2. files' \in [Machines -> Tree]
    <3>1. CASE WriteShards(p) \/ StopWriting(p)
      BY <3>1, WriteTyped DEF WriteShards, StopWriting
    <3>2. [files[Host[p]] EXCEPT !.manifest = held[p]] \in Tree
      BY HostTyped DEF GitTypeOK, Tree
    <3>3. CASE ~(WriteShards(p) \/ StopWriting(p))
      BY <1>6, <3>2, <3>3, HostTyped DEF Build, Seal, Verify, Stop, GitTypeOK
    <3>. QED
      BY <3>1, <3>3
  <2>3. torn' \in [Machines -> BOOLEAN] /\ troubles' \in 0 .. MaxTroubles
    <3>1. CASE WriteShards(p) \/ StopWriting(p)
      <4>1. torn' \in [Machines -> BOOLEAN]
        BY <3>1, WriteTyped DEF WriteShards, StopWriting
      <4>2. troubles' \in 0 .. MaxTroubles
        BY <3>1, BackupAssumption DEF WriteShards, StopWriting, GitTypeOK
      <4>. QED
        BY <4>1, <4>2
    <3>2. CASE ~(WriteShards(p) \/ StopWriting(p))
      BY <1>6, <3>2, BackupAssumption DEF Build, Seal, Verify, Stop, GitTypeOK
    <3>. QED
      BY <3>1, <3>2
  <2>4. UNCHANGED <<db, head, remote>>
    BY <1>6 DEF Build, WriteShards, Seal, Verify, Stop, StopWriting
  <2>. QED
    BY <2>1, <2>2, <2>3, <2>4 DEF GitTypeOK, Rooted
<1>7. ASSUME NEW p \in Ops, Commit(p) PROVE GitTypeOK' /\ Rooted'
  <2>. DEFINE m == Host[p]
  <2>1. m \in Machines /\ head[m] # None /\ head[m] \in Seq(Commits) /\ p \notin Updates
    BY <1>7, HostTyped DEF Commit, Rooted, GitTypeOK
  <2>2. /\ Append(head[m], [by |-> m, tree |-> files[m]]) \in Seq(Commits)
        /\ Append(head[m], [by |-> m, tree |-> files[m]]) # None
    <3>1. [by |-> m, tree |-> files[m]] \in Commits
      BY <2>1 DEF Commits, GitTypeOK
    <3>. QED
      BY <2>1, <3>1, CommitIsGood, NoneAssumption
  <2>3. head' \in [Machines -> Seq(Commits) \cup {None}] /\ \A n \in Machines : head[n] # None => head'[n] # None
    BY <1>7, <2>1, <2>2 DEF Commit, GitTypeOK
  <2>4. met' \in [Ops -> BOOLEAN]
    BY <1>7 DEF Commit, Moving, GitTypeOK
  <2>5. /\ step' \in [Ops -> Steps] /\ step[p] # "idle"
        /\ \A q \in Ops \ {p} : step'[q] = step[q]
        /\ \A q \in Updates : step'[q] \in {"idle", "pulled", "read"}
    BY <1>7, <2>1, ToTyped DEF Commit, Steps
  <2>. QED
    BY <1>7, <2>1, <2>3, <2>4, <2>5, HostTyped DEF Commit, GitTypeOK, Rooted
<1>8. ASSUME NEW p \in Ops, Push(p) PROVE GitTypeOK' /\ Rooted'
  <2>1. remote' \in Seq(Commits)
    BY <1>8, HostTyped DEF Push, Rooted, GitTypeOK
  <2>. QED
    BY <1>8, <2>1, OverTyped DEF Push, Rooted, GitTypeOK
<1>. QED
  BY <1>1, <1>2, <1>3, <1>4, <1>5, <1>6, <1>7, <1>8 DEF GitNext, Runs

-----------------------------------------------------------------------------
(* What holds as long as no export has met another operation.              *)

(* Nothing is asked of an operation that is over, has just pulled or has   *)
(* committed.                                                              *)
LEMMA NothingAsked ==
    ASSUME NEW p \in Ops, step'[p] \in {"idle", "pulled", "committed"}
    PROVE  OnCourse(p)'
BY DEF OnCourse, Exporting

(* An operation stays on its course if the others leave alone what it      *)
(* relies on.                                                              *)
LEMMA CourseKept ==
    ASSUME NEW p \in Ops, OnCourse(p), step'[p] = step[p], held'[p] = held[p],
           head'[Host[p]] = head[Host[p]], db[Host[p]] \subseteq db'[Host[p]],
           step[p] \in Exporting => files'[Host[p]] = files[Host[p]]
    PROVE  OnCourse(p)'
BY DEF OnCourse, Exporting

(* A step within the process of an operation: no file, no commit.          *)
LEMMA WithinKept ==
    ASSUME InOrder, NEW p \in Ops, UNCHANGED <<head, files>>,
           \A m \in Machines : db[m] \subseteq db'[m],
           \A q \in Ops \ {p} :
               step'[q] = step[q] /\ held'[q] = held[q] /\ met'[q] = met[q],
           step'[p] \in Exporting => step[p] \in Exporting,
           p \in Syncs /\ ~met'[p] => OnCourse(p)'
    PROVE  /\ FilesCover' /\ Alone'
           /\ \A q \in Syncs : ~met'[q] => OnCourse(q)'
<1>1. FilesCover'
  BY DEF InOrder, FilesCover
<1>2. Alone'
  BY DEF InOrder, Alone
<1>3. ASSUME NEW q \in Syncs \ {p}, ~met'[q] PROVE OnCourse(q)'
  BY <1>3, HostTyped, CourseKept DEF InOrder, Ops
<1>. QED
  BY <1>1, <1>2, <1>3

(* The working copies and the trees of the heads are trees. *)
LEMMA TreesOfHeads ==
    ASSUME GitTypeOK, NEW m \in Machines
    PROVE  files[m] \in Tree /\ TreeOf(head[m]) \in Tree /\ TreeOf(remote) \in Tree
BY TreeOfTyped DEF GitTypeOK

(* A pull: the clone takes the remote's commits, or keeps its own. *)
LEMMA PullKeepsOrder ==
    ASSUME GitTypeOK, InOrder, NEW p \in Ops, Pull(p)
    PROVE  InOrder'
<1> DEFINE m == Host[p]
<1>1. /\ m \in Machines /\ remote \in Seq(Commits) /\ remote # None /\ GoodLog(remote)
      /\ head \in [Machines -> Seq(Commits) \cup {None}] /\ files \in [Machines -> Tree]
  BY HostTyped, NoneAssumption DEF GitTypeOK, InOrder, LogsGood
<1>a. TreeOf(remote).rows # None
  BY <1>1, TreesOfHeads, NoneAssumption DEF Tree
<1>2. \/ Receives(m)
      \/ UNCHANGED <<head, files>>
  BY PullOutcome
<1>3. \A n \in Machines \ {m} : head'[n] = head[n] /\ files'[n] = files[n]
  BY <1>1, <1>2, ReceiveOutcome
<1>4. LogsGood'
  <2>1. remote' = remote /\ (head'[m] = remote \/ head'[m] = head[m])
    BY <1>1, <1>2, PullOutcome, ReceiveOutcome
  <2>. QED
    BY <1>1, <1>3, <2>1 DEF InOrder, LogsGood
<1>5. FilesCover'
  <2>1. CASE Receives(m)
    <3>1. /\ TreeOf(remote).rows \subseteq files'[m].rows /\ head'[m] = remote
          /\ files'[m].manifest = TreeOf(remote).manifest
      BY <1>1, <2>1, ReceiveOutcome DEF InOrder, FilesCover
    <3>. QED
      BY <1>1, <1>3, <1>a, <3>1, GoodLogIsValid DEF InOrder, FilesCover
  <2>2. CASE UNCHANGED <<head, files>>
    BY <2>2 DEF InOrder, FilesCover
  <2>. QED
    BY <1>2, <2>1, <2>2
<1>6. step'[p] = "pulled" /\ \A q \in Ops \ {p} : step'[q] = step[q]
  BY PullOutcome, ToTyped DEF Steps
<1>7. Alone'
  BY <1>6 DEF InOrder, Alone, Exporting
<1>8. ASSUME NEW q \in Syncs, ~met'[q] PROVE OnCourse(q)'
  <2>1. CASE q = p
    BY <1>6, <2>1, NothingAsked
  <2>2. CASE step[q] = "idle"
    BY <1>6, <2>2, NothingAsked DEF Ops
  <2>3. CASE q # p /\ step[q] # "idle"
    <3>1. ~met[q] /\ (Host[q] = m => head'[m] = head[m])
      BY <1>8, <2>3, PullOutcome DEF Moving, Ops
    <3>2. Host[q] = m => files'[m] = files[m]
      <4>1. Receives(m) => head'[m] = remote
        BY <1>1, ReceiveOutcome
      <4>. QED
        BY <1>1, <1>2, <3>1, <4>1, ReceiveOutcome
    <3>3. db[Host[q]] = db'[Host[q]] /\ held'[q] = held[q]
      BY PullOutcome
    <3>4. head'[Host[q]] = head[Host[q]] /\ files'[Host[q]] = files[Host[q]]
      BY <1>3, <3>1, <3>2, HostTyped DEF Ops
    <3>. QED
      BY <1>6, <2>3, <3>1, <3>3, <3>4, CourseKept DEF InOrder, Ops
  <2>. QED
    BY <2>1, <2>2, <2>3
<1>. QED
  BY <1>4, <1>5, <1>7, <1>8 DEF InOrder

(* The files of the clone are read. *)
LEMMA ReadKeepsOrder ==
    ASSUME GitTypeOK, InOrder, NEW p \in Ops, Read(p)
    PROVE  InOrder'
<1> DEFINE m == Host[p]
<1>1. /\ m \in Machines /\ UNCHANGED <<db, head, files, remote>>
      /\ \A q \in Ops \ {p} : step'[q] = step[q] /\ held'[q] = held[q] /\ met'[q] = met[q]
      /\ step'[p] \in {"idle", "merged", "read"}
  BY HostTyped DEF Read, Over, To, GitTypeOK
<1>2. ASSUME p \in Syncs, ~met'[p] PROVE OnCourse(p)'
  <2>1. CASE step'[p] = "idle"
    BY <2>1, NothingAsked
  <2>2. CASE step'[p] = "merged"
    <3>1. files[m].manifest = None
      BY <2>2 DEF Read, Over, To, GitTypeOK
    <3>2. TreeOf(head'[m]).rows = {}
      BY <1>1, <3>1 DEF InOrder, FilesCover
    <3>. QED
      BY <2>2, <3>2 DEF OnCourse, Exporting
  <2>3. CASE step'[p] = "read"
    <3>1. held'[p] = files[m].manifest /\ files[m].manifest # None
      BY <2>3 DEF Read, Over, To, GitTypeOK
    <3>2. TreeOf(head'[m]).rows \subseteq held'[p]
      BY <1>1, <3>1 DEF InOrder, FilesCover
    <3>. QED
      BY <2>3, <3>2 DEF OnCourse, Exporting
  <2>. QED
    BY <1>1, <2>1, <2>2, <2>3
<1>3. FilesCover' /\ Alone' /\ \A q \in Syncs : ~met'[q] => OnCourse(q)'
  BY <1>1, <1>2, WithinKept DEF Exporting
<1>. QED
  BY <1>1, <1>3 DEF InOrder, LogsGood

(* What was read is merged into the database. *)
LEMMA MergeKeepsOrder ==
    ASSUME GitTypeOK, InOrder, NEW p \in Ops, MergeFiles(p)
    PROVE  InOrder'
<1> DEFINE m == Host[p]
<1>1. /\ m \in Machines /\ UNCHANGED <<head, files, remote>>
      /\ db' = [db EXCEPT ![m] = @ \cup held[p]] /\ step[p] = "read"
      /\ \A q \in Ops \ {p} : step'[q] = step[q] /\ held'[q] = held[q] /\ met'[q] = met[q]
      /\ step'[p] = "idle" \/ (step'[p] = "merged" /\ met'[p] = met[p])
  BY HostTyped DEF MergeFiles, Over, To, GitTypeOK
<1>2. ASSUME p \in Syncs, ~met'[p] PROVE OnCourse(p)'
  <2>1. CASE step'[p] = "idle"
    BY <2>1, NothingAsked
  <2>2. CASE step'[p] = "merged" /\ met'[p] = met[p]
    <3>1. TreeOf(head[m]).rows \subseteq held[p]
      BY <1>1, <1>2, <2>2 DEF InOrder, OnCourse
    <3>2. TreeOf(head'[m]).rows \subseteq db'[m]
      BY <1>1, <3>1 DEF GitTypeOK
    <3>. QED
      BY <2>2, <3>2 DEF OnCourse, Exporting
  <2>. QED
    BY <1>1, <2>1, <2>2
<1>3. \A n \in Machines : db[n] \subseteq db'[n]
  BY <1>1 DEF GitTypeOK
<1>4. FilesCover' /\ Alone' /\ \A q \in Syncs : ~met'[q] => OnCourse(q)'
  BY <1>1, <1>2, <1>3, WithinKept DEF Exporting
<1>. QED
  BY <1>1, <1>4 DEF InOrder, LogsGood

(* An export takes its rows from the database. *)
LEMMA BuildKeepsOrder ==
    ASSUME GitTypeOK, InOrder, NEW p \in Ops, Build(p)
    PROVE  InOrder'
<1> DEFINE m == Host[p]
<1>1. /\ m \in Machines /\ UNCHANGED <<db, head, files, remote, met>>
      /\ held'[p] = db[m] /\ step[p] = "merged" /\ step'[p] = "built"
      /\ \A q \in Ops \ {p} : step'[q] = step[q] /\ held'[q] = held[q]
  BY HostTyped DEF Build, To, GitTypeOK
<1>2. ASSUME p \in Syncs, ~met'[p] PROVE OnCourse(p)'
  BY <1>1, <1>2 DEF InOrder, OnCourse, Exporting
<1>3. FilesCover' /\ Alone' /\ \A q \in Syncs : ~met'[q] => OnCourse(q)'
  BY <1>1, <1>2, WithinKept DEF Exporting
<1>. QED
  BY <1>1, <1>3 DEF InOrder, LogsGood

(* Shards are written by an export that has met no other operation: all of *)
(* them, or some before it is stopped.                                     *)
LEMMA WriteKeepsOrder ==
    ASSUME GitTypeOK, InOrder, NEW p \in Ops, WriteShards(p) \/ StopWriting(p), ~Torn'
    PROVE  InOrder'
<1> DEFINE m == Host[p]
<1>1. PICK shards \in SUBSET Shards :
           Write(p, shards) /\ (WriteShards(p) => shards = Shards)
  BY DEF WriteShards, StopWriting
<1>2. /\ m \in Machines /\ UNCHANGED <<db, head, remote>>
      /\ held[p] \in SUBSET Rows /\ files[m].rows \in SUBSET Rows
      /\ \A q \in Ops \ {p} :
           step'[q] = step[q] /\ held'[q] = held[q] /\ met'[q] = met[q]
      /\ \/ shards = Shards /\ step'[p] = "written" /\ held'[p] = held[p] /\ met'[p] = met[p]
         \/ step'[p] = "idle"
  BY <1>1, HostTyped DEF WriteShards, StopWriting, Over, To, GitTypeOK, Tree
<1>3. /\ files'[m].rows = In(files[m].rows, Shards \ shards) \cup In(held[p], shards)
      /\ files'[m].manifest = files[m].manifest
      /\ \A n \in Machines \ {m} : files'[n] = files[n]
      /\ step[p] = "built" /\ p \in Syncs /\ torn'[m] = (torn[m] \/ Meets(p))
  BY <1>1, WriteTyped
<1>4. ~met[p] /\ \A q \in Ops \ {p} : Host[q] = m => step[q] \notin Exporting
  <2>1. ~torn'[m]
    BY <1>2 DEF Torn
  <2>. QED
    BY <1>3, <2>1 DEF Meets, Exporting
<1>5. TreeOf(head[m]).rows \subseteq held[p]
  BY <1>3, <1>4 DEF InOrder, OnCourse
<1>6. TreeOf(head[m]).rows \subseteq files'[m].rows
  <2>1. TreeOf(head[m]).rows \subseteq files[m].rows
    BY <1>2 DEF InOrder, FilesCover
  <2>2. \A r \in Rows : Shard[r] \in Shards
    BY BackupAssumption
  <2>. QED
    BY <1>2, <1>3, <1>5, <2>1, <2>2 DEF In
<1>7. FilesCover'
  BY <1>2, <1>3, <1>6 DEF InOrder, FilesCover
<1>8. Alone'
  BY <1>2, <1>4 DEF InOrder, Alone, Exporting
<1>9. ASSUME NEW q \in Syncs, ~met'[q] PROVE OnCourse(q)'
  <2>1. CASE q = p /\ step'[p] = "idle"
    BY <2>1, NothingAsked DEF Ops
  <2>2. CASE q = p /\ step'[p] = "written"
    <3>1. files'[m].rows = held'[p]
      BY <1>2, <1>3, <2>2, InFacts
    <3>. QED
      BY <1>2, <1>5, <2>2, <3>1 DEF OnCourse, Exporting
  <2>3. CASE q # p
    <3>1. step[q] \in Exporting => files'[Host[q]] = files[Host[q]]
      BY <1>3, <1>4, <2>3, HostTyped DEF Ops
    <3>. QED
      BY <1>2, <1>9, <2>3, <3>1, CourseKept DEF InOrder, Ops
  <2>. QED
    BY <1>2, <2>1, <2>2, <2>3
<1>. QED
  BY <1>2, <1>7, <1>8, <1>9 DEF InOrder, LogsGood

(* The manifest is written over the shards. *)
LEMMA SealKeepsOrder ==
    ASSUME GitTypeOK, InOrder, NEW p \in Ops, Seal(p), ~Torn'
    PROVE  InOrder'
<1> DEFINE m == Host[p]
<1>1. /\ m \in Machines /\ UNCHANGED <<db, head, remote, held, met>>
      /\ files' = [files EXCEPT ![m].manifest = held[p]]
      /\ step[p] = "written" /\ step'[p] = "sealed" /\ p \in Syncs
      /\ \A q \in Ops \ {p} : step'[q] = step[q]
  BY HostTyped DEF Seal, To, GitTypeOK, Ops
<1>2. /\ files'[m].rows = files[m].rows /\ files'[m].manifest = held[p]
      /\ \A n \in Machines \ {m} : files'[n] = files[n]
      /\ held[p] # None
  BY <1>1, NoneAssumption DEF GitTypeOK, Tree
<1>3. \A q \in Ops \ {p} : Host[q] = m => step[q] \notin Exporting
  BY <1>1 DEF InOrder, Alone, Exporting
<1>4. FilesCover'
  <2>1. ~met[p]
    <3>1. ~torn'[m]
      BY <1>1 DEF Torn
    <3>. QED
      BY <1>1, <3>1 DEF Seal, GitTypeOK
  <2>2. TreeOf(head[m]).rows \subseteq held[p]
    BY <1>1, <2>1 DEF InOrder, OnCourse, Exporting
  <2>. QED
    BY <1>1, <1>2, <2>2 DEF InOrder, FilesCover
<1>5. Alone'
  BY <1>1 DEF InOrder, Alone, Exporting
<1>6. ASSUME NEW q \in Syncs, ~met'[q] PROVE OnCourse(q)'
  <2>1. CASE q = p
    BY <1>1, <1>2, <1>6, <2>1 DEF InOrder, OnCourse, Exporting
  <2>2. CASE q # p
    <3>1. step[q] \in Exporting => files'[Host[q]] = files[Host[q]]
      BY <1>2, <1>3, <2>2, HostTyped DEF Ops
    <3>. QED
      BY <1>1, <1>6, <2>2, <3>1, CourseKept DEF InOrder, Ops
  <2>. QED
    BY <2>1, <2>2
<1>. QED
  BY <1>1, <1>4, <1>5, <1>6 DEF InOrder, LogsGood

(* What is committed by an export that has met no other is its own. *)
LEMMA CommitKeepsOrder ==
    ASSUME GitTypeOK, Rooted, InOrder, NEW p \in Ops, Commit(p), ~Torn'
    PROVE  InOrder'
<1> DEFINE m == Host[p]
<1>1. /\ m \in Machines /\ UNCHANGED <<db, files, remote, held>>
      /\ step[p] = "verified" /\ step'[p] = "committed" /\ met' = Moving(p)
      /\ p \in Syncs
      /\ \A q \in Ops \ {p} : step'[q] = step[q]
      /\ head[m] \in Seq(Commits) /\ head[m] # None /\ files[m] \in Tree
  BY HostTyped DEF Commit, To, Rooted, GitTypeOK, Ops
<1>2. ~met[p]
  <2>1. ~torn'[m]
    BY <1>1 DEF Torn
  <2>. QED
    BY <1>1, <2>1 DEF Commit, GitTypeOK
<1>3. /\ TreeOf(head[m]).rows \subseteq files[m].rows
      /\ files[m].manifest = files[m].rows /\ files[m].manifest # None
  BY <1>1, <1>2, NoneAssumption DEF InOrder, OnCourse, Exporting, GitTypeOK
<1>4. /\ head'[m] \in Seq(Commits) /\ TreeOf(head'[m]) = files[m] /\ GoodLog(head'[m])
      /\ \A n \in Machines \ {m} : head'[n] = head[n]
  <2>1. CASE Clean(m)
    <3>1. head' = head
      BY <2>1 DEF Commit
    <3>. QED
      BY <1>1, <2>1, <3>1 DEF Clean, InOrder, LogsGood
  <2>2. CASE ~Clean(m)
    <3> DEFINE c == [by |-> m, tree |-> files[m]]
    <3>1. c \in Commits /\ c.tree = files[m]
      BY <1>1 DEF Commits
    <3>2. head'[m] = Append(head[m], c) /\ \A n \in Machines \ {m} : head'[n] = head[n]
      BY <1>1, <2>2 DEF Commit, GitTypeOK
    <3>3. GoodLog(head[m])
      BY <1>1 DEF InOrder, LogsGood
    <3>. HIDE DEF c
    <3>. QED
      BY <1>1, <1>3, <3>1, <3>2, <3>3, CommitIsGood
  <2>. QED
    BY <2>1, <2>2
<1>5. LogsGood'
  BY <1>1, <1>4 DEF InOrder, LogsGood
<1>6. FilesCover'
  BY <1>1, <1>3, <1>4 DEF InOrder, FilesCover
<1>7. Alone'
  BY <1>1 DEF InOrder, Alone, Exporting
<1>8. ASSUME NEW q \in Syncs, ~met'[q] PROVE OnCourse(q)'
  <2>1. CASE q = p
    BY <1>1, <2>1, NothingAsked
  <2>2. CASE step[q] = "idle"
    BY <1>1, <2>2, NothingAsked DEF Ops
  <2>3. CASE q # p /\ step[q] # "idle"
    <3>1. ~met[q] /\ (Host[q] = m => head'[m] = head[m])
      BY <1>1, <1>8, <2>3 DEF Moving, Ops
    <3>. QED
      BY <1>1, <1>4, <2>3, <3>1, HostTyped, CourseKept DEF InOrder, Ops
  <2>. QED
    BY <2>1, <2>2, <2>3
<1>. QED
  BY <1>5, <1>6, <1>7, <1>8 DEF InOrder

(* A machine finds a new row. *)
LEMMA FindKeepsOrder ==
    ASSUME GitTypeOK, InOrder, NEW n \in Machines, NEW rows \in Finds, Find(n, rows)
    PROVE  InOrder'
<1>1. \A m \in Machines : db[m] \subseteq db'[m]
  BY BackupAssumption DEF Find, GitTypeOK
<1>2. UNCHANGED <<head, files, remote, step, held, met>>
  BY DEF Find, ops
<1>3. \A q \in Syncs : ~met'[q] => OnCourse(q)'
  BY <1>1, <1>2, HostTyped, CourseKept DEF InOrder, Ops
<1>. QED
  BY <1>2, <1>3 DEF InOrder, LogsGood, FilesCover, Alone

(* The files are validated. *)
LEMMA VerifyKeepsOrder ==
    ASSUME GitTypeOK, InOrder, NEW p \in Ops, Verify(p)
    PROVE  InOrder'
<1>1. /\ UNCHANGED <<db, head, files, remote>>
      /\ step[p] = "sealed" /\ step'[p] \in {"idle", "verified"}
      /\ step'[p] = "verified" => held'[p] = held[p] /\ met'[p] = met[p]
      /\ \A q \in Ops \ {p} : step'[q] = step[q] /\ held'[q] = held[q] /\ met'[q] = met[q]
  BY DEF Verify, Over, To, GitTypeOK
<1>2. ASSUME p \in Syncs, ~met'[p] PROVE OnCourse(p)'
  <2>1. CASE step'[p] = "idle"
    BY <2>1, NothingAsked
  <2>2. CASE step'[p] = "verified"
    BY <1>1, <1>2, <2>2 DEF InOrder, OnCourse, Exporting
  <2>. QED
    BY <1>1, <2>1, <2>2
<1>3. FilesCover' /\ Alone' /\ \A q \in Syncs : ~met'[q] => OnCourse(q)'
  BY <1>1, <1>2, WithinKept DEF Exporting
<1>. QED
  BY <1>1, <1>3 DEF InOrder, LogsGood

(* An operation pushes, or is stopped. *)
LEMMA EndKeepsOrder ==
    ASSUME GitTypeOK, Rooted, InOrder, NEW p \in Ops, Push(p) \/ Stop(p)
    PROVE  InOrder'
<1>1. /\ UNCHANGED <<db, head, files>>
      /\ step'[p] = "idle"
      /\ \A q \in Ops \ {p} : step'[q] = step[q] /\ held'[q] = held[q] /\ met'[q] = met[q]
  BY DEF Push, Stop, Over, To, GitTypeOK
<1>2. FilesCover' /\ Alone' /\ \A q \in Syncs : ~met'[q] => OnCourse(q)'
  BY <1>1, NothingAsked, WithinKept DEF Exporting
<1>3. GoodLog(remote')
  <2>1. CASE Stop(p)
    BY <2>1 DEF Stop, InOrder, LogsGood
  <2>2. CASE Push(p)
    BY <2>2, HostTyped DEF Push, Rooted, InOrder, LogsGood
  <2>. QED
    BY <2>1, <2>2
<1>. QED
  BY <1>1, <1>2, <1>3 DEF InOrder, LogsGood

(* Every step keeps the invariant. *)
LEMMA GitStep ==
    ASSUME GitInv, [GitNext]_git_vars
    PROVE  GitInv'
<1>1. GitTypeOK /\ Rooted /\ GitTypeOK' /\ Rooted'
  BY GitTypesKept DEF GitInv
<1>2. SUFFICES ASSUME ~Torn' PROVE InOrder'
  BY <1>1 DEF GitInv
<1>3. \A m \in Machines : torn[m] => torn'[m]
  BY <1>1 DEF GitNext, Runs, git_vars, Find, Pull, Read, MergeFiles, Build, WriteShards,
              Write, Seal, Verify, Commit, Push, Stop, StopWriting, GitTypeOK
<1>4. InOrder
  BY <1>2, <1>3 DEF Torn, GitInv
<1>5. CASE UNCHANGED git_vars
  BY <1>4, <1>5 DEF git_vars, ops, InOrder, LogsGood, FilesCover, Alone, OnCourse, Exporting
<1>6. ASSUME NEW p \in Ops, Runs(p) \/ Stop(p) \/ StopWriting(p)
      PROVE  InOrder'
  BY <1>1, <1>2, <1>4, <1>6, PullKeepsOrder, ReadKeepsOrder, MergeKeepsOrder,
     BuildKeepsOrder, WriteKeepsOrder, SealKeepsOrder, VerifyKeepsOrder,
     CommitKeepsOrder, EndKeepsOrder DEF Runs
<1>. QED
  BY <1>1, <1>4, <1>5, <1>6, FindKeepsOrder DEF GitNext

(* Machines without a clone satisfy the invariant. *)
LEMMA GitStart == GitInit => GitInv
<1> SUFFICES ASSUME GitInit PROVE GitInv
  OBVIOUS
<1>1. NoFiles \in Tree /\ <<>> \in Seq(Commits) /\ Len(<<>>) = 0
  BY NoFilesHere DEF Tree
<1>2. GitTypeOK /\ Rooted
  BY <1>1, BackupAssumption DEF GitInit, GitTypeOK, Rooted, Steps, Ops
<1>3. TreeOf(None) = NoFiles
  BY <1>1, TreeOfLast
<1>4. InOrder
  BY <1>1, <1>3, NoFilesHere
  DEF GitInit, InOrder, LogsGood, GoodLog, FilesCover, Alone, OnCourse, Exporting, Ops
<1>. QED
  BY <1>2, <1>4 DEF GitInv

(* So every reachable state does. *)
LEMMA GitInvHolds == GitSpec => []GitInv
BY GitStart, GitStep, PTL DEF GitSpec

-----------------------------------------------------------------------------
(* Clones, histories and operations keep their shape, also when operations *)
(* of one clone meet.                                                      *)
THEOREM ClonesTyped == GitSpec => []GitTypeOK
BY GitInvHolds, PTL DEF GitInv

(* What is pushed can be imported on every machine, all of it, however     *)
(* many machines, syncs and failures there are, until an export meets      *)
(* another operation of its clone.                                         *)
THEOREM PushesAreWhole == GitSpec => []PushedIsWhole
<1>1. GitInv => PushedIsWhole
  <2> SUFFICES ASSUME GitInv, ~Torn
               PROVE  LET tree == TreeOf(remote)
                      IN  tree \in {NoFiles, [tree EXCEPT !.manifest = tree.rows]}
    BY DEF PushedIsWhole, Torn
  <2>1. GoodLog(remote) /\ remote \in Seq(Commits) /\ TreeOf(remote) \in Tree
    BY TreeOfTyped DEF GitInv, GitTypeOK, InOrder, LogsGood
  <2>2. TreeOf(remote) = NoFiles \/ TreeOf(remote).manifest = TreeOf(remote).rows
    BY <2>1, TreeOfLast DEF GoodLog
  <2>. QED
    BY <2>1, <2>2 DEF Tree
<1>. QED
  BY <1>1, GitInvHolds, PTL

(* No push takes a row out of the repository's last commit, under the same *)
(* proviso.                                                                *)
THEOREM PushesDropNothing == GitSpec => NothingDropped
<1>1. ASSUME GitInv, [GitNext]_git_vars
      PROVE  TreeOf(remote).rows \subseteq TreeOf(remote').rows \/ \E m \in Machines : torn[m]
  <2>1. SUFFICES ASSUME ~Torn
                 PROVE  TreeOf(remote).rows \subseteq TreeOf(remote').rows
    BY DEF Torn
  <2>2. CASE remote' = remote
    BY <2>2
  <2>3. ASSUME NEW p \in Ops, Push(p), remote' # remote
        PROVE  TreeOf(remote).rows \subseteq TreeOf(remote').rows
    <3>1. /\ remote' = head[Host[p]] /\ IsPrefix(remote, head[Host[p]])
          /\ head[Host[p]] # None
      BY <1>1, <2>3 DEF Push, GitInv, Rooted
    <3>2. remote \in Seq(Commits) /\ head[Host[p]] \in Seq(Commits)
      BY <1>1, <3>1, HostTyped DEF GitInv, GitTypeOK
    <3>3. GoodLog(head[Host[p]])
      BY <1>1, <2>1, <3>1, HostTyped DEF GitInv, InOrder, LogsGood
    <3>. QED
      BY <3>1, <3>2, <3>3, GoodLogGrows
  <2>. QED
    BY <1>1, <2>2, <2>3 DEF GitNext, Runs, git_vars, Find, Pull, Read, MergeFiles,
                            Build, WriteShards, Write, Seal, Verify, Commit, Stop,
                            StopWriting
<1>. QED
  BY <1>1, GitInvHolds, PTL DEF GitSpec, NothingDropped

-----------------------------------------------------------------------------
(* TwillotBackup: the inductive invariant.                                 *)

(* What was exported has the types of the tables.                          *)
ShardTyped ==
    /\ updated \in [Jobs -> Nat]
    /\ shard # Null =>
         /\ shard.job \in [Jobs -> Row] /\ shard.updated \in [Jobs -> Nat]
         /\ shard.usage \in [Days -> Nat]

(* The tables have gone on since the export: they have all its receipts,   *)
(* no count of theirs is smaller, and where an exported row stands is in   *)
(* the receipts.                                                           *)
ShardIsPast ==
    shard # Null =>
        /\ \A r \in shard.receipts : Seen(r.batch)
        /\ \A d \in Days : shard.usage[d] <= usage[d]
        /\ \A j \in Jobs :
             LET e == shard.job[j]
             IN  /\ e.downloaded <= job[j].downloaded
                 /\ e.state # "absent" => job[j].state # "absent"
                 /\ e.cursor # NoCursor =>
                      \E r \in receipts : r.job = j /\ r.cursor = e.cursor
                 /\ e.state = "completed" =>
                      \E r \in receipts : r.job = j /\ r.cursor = e.cursor /\ r.done

(* Without the shape of leases: a merge leaves leased rows without one.    *)
BackupInv ==
    /\ TypeOK /\ ShardTyped /\ ShardIsPast
    /\ LeasesStarted /\ QuotaRespected
    /\ AbsentRows /\ RecordsFinite /\ ChargedOnce /\ ProgressIsRecorded

(* An operation of the queue is one of TwillotQueue, and stamps with the   *)
(* time.                                                                   *)
LEMMA OperationIsNext ==
    ASSUME TypeOK, ShardTyped, QueueOperation
    PROVE  [Next]_vars /\ UNCHANGED shard /\ updated' \in [Jobs -> Nat]
<1>1. [Next]_vars
  BY DEF QueueOperation, EnqueueAgain, Next
<1>2. PICK S : Stamp(S)
  BY DEF QueueOperation, EnqueueAgain
<1>. QED
  BY <1>1, <1>2, TimeAssumption DEF Stamp, TypeOK, ShardTyped

(* A later day only makes more leases started.                             *)
LEMMA StartedStep ==
    TypeOK /\ AbsentRows /\ LeasesStarted /\ [Next]_vars => LeasesStarted'
<1> SUFFICES ASSUME TypeOK, AbsentRows, LeasesStarted, [Next]_vars PROVE LeasesStarted'
  OBVIOUS
<1>1. now' \in {now, now + 1}
  BY DEF Next, vars, Enqueue, RetryFailed, VerifyComplete, QueueFallback, SetPaused,
         Claim, ClaimDefers, ClaimFindsNothing, ClaimGrants, CompleteBatch, Fail,
         MarkCaptureStatus, Renew, Tick
<1>2. Today \in Nat /\ Today' \in Nat /\ Today <= Today'
  <2>1. now \in Nat /\ now' \in Nat /\ now <= now'
    BY <1>1, TimeAssumption DEF TypeOK
  <2>. QED
    BY <2>1, DayBounds, DayMonotone DEF Today
<1>3. \A j \in Jobs : job[j].leaseDay \in Nat \cup {Null}
  BY DEF TypeOK, Row
<1>4. ASSUME NEW j \in Jobs, job'[j].leaseDay # Null
      PROVE  job'[j].leaseDay <= Today'
  <2>1. job'[j].leaseDay \in {job[j].leaseDay, Null, Today}
    <3>1. CASE Quiet
      BY <3>1 DEF Quiet, Continues
    <3>2. ASSUME NEW s \in Submissions, CompleteBatch(s)
          PROVE  job'[j].leaseDay \in {job[j].leaseDay, Null, Today}
      BY <3>2, BatchEffect
    <3>. QED
      BY <3>1, <3>2, QuietOrBatch
  <2>. QED
    BY <1>2, <1>3, <1>4, <2>1 DEF LeasesStarted
<1>. QED
  BY <1>4 DEF LeasesStarted

(* The queue only adds to what was exported.                               *)
LEMMA PastStep ==
    ASSUME TypeOK, AbsentRows, ShardTyped, ShardIsPast, [Next]_vars, UNCHANGED shard
    PROVE  ShardIsPast'
<1> SUFFICES ASSUME shard # Null PROVE ShardIsPast'
  BY DEF ShardIsPast
<1>1. CASE Quiet
  <2>1. ASSUME NEW j \in Jobs
        PROVE  /\ job'[j].downloaded = job[j].downloaded
               /\ job'[j].state = "absent" => job[j].state = "absent"
    BY <1>1 DEF Quiet, Continues
  <2>. QED
    BY <1>1, <2>1 DEF Quiet, ShardIsPast, Seen
<1>2. ASSUME NEW s \in Submissions, CompleteBatch(s)
      PROVE  ShardIsPast'
  <2>1. receipts \subseteq receipts'
    BY <1>2, BatchEffect
  <2>2. ASSUME NEW d \in Days PROVE shard.usage[d] <= usage'[d]
    <3>1. Today \in Days /\ usage[d] \in Nat /\ shard.usage[d] \in Nat /\ s.count \in Nat
      BY <1>2, TodayInDays, BatchEffect DEF TypeOK, ShardTyped
    <3>2. usage'[d] = usage[d] \/ usage'[d] = usage[d] + s.count
      BY <1>2, <3>1, BatchEffect DEF TypeOK
    <3>. QED
      BY <3>1, <3>2 DEF ShardIsPast
  <2>3. ASSUME NEW j \in Jobs
        PROVE  /\ shard.job[j].downloaded <= job'[j].downloaded
               /\ shard.job[j].state # "absent" => job'[j].state # "absent"
    <3>1. job[j].downloaded \in Nat /\ shard.job[j].downloaded \in Nat /\ s.count \in Nat
      BY <1>2, BatchEffect DEF TypeOK, ShardTyped, Row
    <3>2. CASE j = s.job
      BY <1>2, <3>1, <3>2, BatchEffect DEF ShardIsPast
    <3>3. CASE j # s.job
      BY <1>2, <3>3, BatchEffect DEF ShardIsPast
    <3>. QED
      BY <3>2, <3>3
  <2>. QED
    BY <2>1, <2>2, <2>3 DEF ShardIsPast, Seen
<1>. QED
  BY <1>1, <1>2, QuietOrBatch

(* The operations of the queue keep what was exported behind it. *)
LEMMA OperationKeeps ==
    ASSUME BackupInv, QueueOperation
    PROVE  BackupInv'
<1>1. [Next]_vars /\ UNCHANGED shard /\ updated' \in [Jobs -> Nat]
  BY OperationIsNext DEF BackupInv
<1>2. ShardTyped'
  BY <1>1 DEF BackupInv, ShardTyped
<1>3. TypeOK' /\ LeasesStarted' /\ QuotaRespected' /\ AbsentRows'
  BY <1>1, TypeStep, StartedStep, QuotaStep, AbsentStep DEF BackupInv
<1>4. RecordsFinite' /\ ChargedOnce' /\ ProgressIsRecorded' /\ ShardIsPast'
  BY <1>1, ChargedStep, ProgressStep, PastStep DEF BackupInv
<1>. QED
  BY <1>2, <1>3, <1>4 DEF BackupInv

(* An exported row is the row without its lease.                           *)
LEMMA ExportedFacts ==
    ASSUME NEW r \in Row
    PROVE  LET e == ExportedRow(r)
           IN  /\ e \in Row
               /\ e.downloaded = r.downloaded /\ e.cursor = r.cursor
               /\ e.state = "absent" <=> r.state = "absent"
               /\ e.state = "completed" <=> r.state = "completed"
<1> DEFINE u == Unleased(r)
<1>1. u \in Row /\ u.state = r.state /\ u.cursor = r.cursor /\ u.downloaded = r.downloaded
  BY UnleasedType
<1>2. "queued" \in States /\ "capture_requested" \in CaptureStatuses
  BY DEF States, CaptureStatuses
<1>3. ExportedRow(r) = IF r.state = "leased"
                       THEN [u EXCEPT !.state = "queued", !.capture = "capture_requested"]
                       ELSE u
  BY DEF ExportedRow
<1>. HIDE DEF u
<1>. QED
  BY <1>1, <1>2, <1>3 DEF Row

(* An export writes the tables as they are. *)
LEMMA ExportKeeps ==
    ASSUME BackupInv, Export
    PROVE  BackupInv'
<1>1. UNCHANGED <<vars, updated>> /\ now' = now /\ job' = job /\ receipts' = receipts
      /\ usage' = usage /\ paused' = paused
  BY DEF Export, vars
<1>2. \A j \in Jobs : job[j] \in Row
  BY DEF BackupInv, TypeOK
<1>3. ShardTyped'
  BY <1>1, <1>2, ExportedFacts DEF Export, BackupInv, ShardTyped, TypeOK
<1>4. ShardIsPast'
  <2>1. ASSUME NEW x \in shard'.receipts PROVE \E y \in receipts : y.batch = x.batch
    <3>1. PICK y \in receipts : x = ExportedReceipt(y)
      BY <2>1 DEF Export
    <3>2. y \in Receipt
      BY DEF BackupInv, TypeOK
    <3>. QED
      BY <3>1, <3>2 DEF ExportedReceipt, Receipt
  <2>2. \A d \in Days : usage[d] \in Nat /\ shard'.usage[d] = usage[d]
    BY DEF Export, BackupInv, TypeOK
  <2>3. ASSUME NEW j \in Jobs
        PROVE  LET e == shard'.job[j]
               IN  /\ e.downloaded <= job[j].downloaded
                   /\ e.state # "absent" => job[j].state # "absent"
                   /\ e.cursor # NoCursor =>
                        \E r \in receipts : r.job = j /\ r.cursor = e.cursor
                   /\ e.state = "completed" =>
                        \E r \in receipts : r.job = j /\ r.cursor = e.cursor /\ r.done
    <3>1. shard'.job[j] = ExportedRow(job[j])
      BY DEF Export
    <3>2. job[j] \in Row /\ job[j].downloaded \in Nat
      BY <1>2 DEF Row
    <3>. QED
      BY <3>1, <3>2, ExportedFacts DEF BackupInv, ProgressIsRecorded
  <2>. QED
    BY <1>1, <2>1, <2>2, <2>3 DEF ShardIsPast, Seen
<1>5. TypeOK' /\ LeasesStarted' /\ QuotaRespected' /\ AbsentRows'
  BY <1>1 DEF BackupInv, TypeOK, LeasesStarted, QuotaRespected, AbsentRows, Today,
              Reserved, ReservedUnits
<1>6. RecordsFinite' /\ ChargedOnce' /\ ProgressIsRecorded'
  BY <1>1 DEF BackupInv, RecordsFinite, ChargedOnce, ProgressIsRecorded
<1>. QED
  BY <1>3, <1>4, <1>5, <1>6 DEF BackupInv

(* A merged row has the progress of one of the two rows, the larger        *)
(* counts, and no lease.                                                   *)
LEMMA MergedFacts ==
    ASSUME NEW r \in Row, NEW e \in Row, NEW ru \in Nat, NEW eu \in Nat,
           e.downloaded <= r.downloaded
    PROVE  LET q == MergedRow(r, ru, e, eu)
           IN  /\ q \in Row
               /\ q.downloaded = r.downloaded
               /\ \/ q.state = r.state /\ q.cursor = r.cursor
                  \/ q.state = e.state /\ q.cursor = e.cursor
               /\ q.expiresAt = Null /\ q.leaseDay = Null
<1> DEFINE w == IF eu >= ru THEN e ELSE r
           u == Unleased(w)
<1>1. w \in Row /\ (w = r \/ w = e)
  OBVIOUS
<1>2. /\ u \in Row /\ u.state = w.state /\ u.cursor = w.cursor
      /\ u.expiresAt = Null /\ u.leaseDay = Null
  BY <1>1, UnleasedType
<1>3. /\ Most(r.attempts, e.attempts) \in Nat
      /\ Most(r.downloaded, e.downloaded) = r.downloaded /\ r.downloaded \in Nat
  BY DEF Most, Row
<1>4. MergedRow(r, ru, e, eu) =
        [u EXCEPT !.attempts = Most(r.attempts, e.attempts),
                  !.downloaded = Most(r.downloaded, e.downloaded)]
  BY DEF MergedRow
<1>. HIDE DEF u, w
<1>. QED
  BY <1>1, <1>2, <1>3, <1>4 DEF Row

(* Merging the past of the tables into them charges nothing, forgets no    *)
(* receipt, and frees the reservations of the rows it writes.              *)
LEMMA MergeKeeps ==
    ASSUME BackupInv, Merge
    PROVE  BackupInv'
<1>1. /\ shard # Null /\ UNCHANGED <<now, paused, shard>> /\ TypeOK
      /\ ShardTyped /\ ShardIsPast
  BY DEF Merge, BackupInv
<1>2. receipts' = receipts
  BY <1>1 DEF Merge, MergedReceipts, ShardIsPast
<1>3. usage' = usage
  <2>1. \A d \in Days : usage'[d] = usage[d]
    BY <1>1 DEF Merge, MergedUsage, Most, TypeOK, ShardTyped, ShardIsPast
  <2>. QED
    BY <1>1, <2>1 DEF Merge, TypeOK
<1>4. updated' \in [Jobs -> Nat]
  BY <1>1 DEF Merge, Most, ShardTyped
<1>5. ASSUME NEW j \in Jobs
      PROVE  /\ job'[j] \in Row
             /\ job'[j].downloaded = job[j].downloaded
             /\ \/ job'[j] = job[j]
                \/ /\ job'[j].state # "absent" /\ job[j].state # "absent"
                   /\ \/ job'[j].state = job[j].state /\ job'[j].cursor = job[j].cursor
                      \/ /\ job'[j].state = shard.job[j].state
                         /\ job'[j].cursor = shard.job[j].cursor
                   /\ job'[j].expiresAt = Null /\ job'[j].leaseDay = Null
  <2>1. CASE shard.job[j].state = "absent"
    BY <1>1, <2>1 DEF Merge, TypeOK
  <2>2. CASE shard.job[j].state # "absent"
    <3>1. /\ job[j] \in Row /\ shard.job[j] \in Row
          /\ updated[j] \in Nat /\ shard.updated[j] \in Nat
          /\ shard.job[j].downloaded <= job[j].downloaded
          /\ job[j].state # "absent"
      BY <1>1, <2>2 DEF TypeOK, ShardTyped, ShardIsPast
    <3> DEFINE q == MergedRow(job[j], updated[j], shard.job[j], shard.updated[j])
    <3>2. job'[j] = q
      BY <2>2 DEF Merge
    <3>3. /\ q \in Row /\ q.downloaded = job[j].downloaded
          /\ \/ q.state = job[j].state /\ q.cursor = job[j].cursor
             \/ q.state = shard.job[j].state /\ q.cursor = shard.job[j].cursor
          /\ q.expiresAt = Null /\ q.leaseDay = Null
      <4> DEFINE r == job[j]
                 e == shard.job[j]
                 ru == updated[j]
                 eu == shard.updated[j]
      <4>1. r \in Row /\ e \in Row /\ ru \in Nat /\ eu \in Nat /\ e.downloaded <= r.downloaded
        BY <3>1
      <4>. HIDE DEF r, e, ru, eu
      <4>2. LET w == MergedRow(r, ru, e, eu)
            IN  /\ w \in Row
                /\ w.downloaded = r.downloaded
                /\ \/ w.state = r.state /\ w.cursor = r.cursor
                   \/ w.state = e.state /\ w.cursor = e.cursor
                /\ w.expiresAt = Null /\ w.leaseDay = Null
        BY <4>1, MergedFacts
      <4>. QED
        BY <4>2 DEF r, e, ru, eu
    <3>. HIDE DEF q
    <3>. QED
      BY <2>2, <3>1, <3>2, <3>3
  <2>. QED
    BY <2>1, <2>2
<1>6. TypeOK' /\ ShardTyped'
  <2>1. job' = [j \in Jobs |-> job'[j]]
    BY DEF Merge
  <2>. QED
    BY <1>1, <1>2, <1>3, <1>4, <1>5, <2>1 DEF TypeOK, ShardTyped
<1>7. ShardIsPast'
  BY <1>1, <1>2, <1>3, <1>5 DEF ShardIsPast, Seen
<1>8. Today' = Today
  BY <1>1 DEF Today
<1>9. LeasesStarted'
  BY <1>5, <1>8 DEF BackupInv, LeasesStarted
<1>10. QuotaRespected'
  <2>1. \A i \in Jobs : Reserving(job'[i], Today, now) => job'[i] = job[i]
    BY <1>5 DEF Reserving
  <2>2. Reserved(job', Today, now) <= Reserved(job, Today, now)
    BY <2>1, NoMoreReserved
  <2>3. Reserved(job', Today, now) \in Nat /\ Reserved(job, Today, now) \in Nat
    BY UnitsFinite
  <2>4. Reserved(job, Today, now)' = Reserved(job', Today, now)
    BY <1>1, <1>8 DEF Reserved, ReservedUnits
  <2>5. usage[Today] \in Nat
    BY <1>1, TodayInDays DEF TypeOK
  <2>. QED
    BY <1>3, <1>8, <2>2, <2>3, <2>4, <2>5, QuotaAssumption DEF BackupInv, QuotaRespected
<1>11. AbsentRows'
  BY <1>5 DEF BackupInv, AbsentRows
<1>12. RecordsFinite' /\ ChargedOnce'
  BY <1>2, <1>3, <1>5 DEF BackupInv, RecordsFinite, ChargedOnce
<1>13. ProgressIsRecorded'
  <2>1. ASSUME NEW j \in Jobs
        PROVE  /\ job'[j].cursor # NoCursor =>
                    \E r \in receipts : r.job = j /\ r.cursor = job'[j].cursor
               /\ job'[j].state = "completed" =>
                    \E r \in receipts : r.job = j /\ r.cursor = job'[j].cursor /\ r.done
    BY <1>1, <1>5 DEF BackupInv, ProgressIsRecorded, ShardIsPast
  <2>. QED
    BY <1>2, <2>1 DEF ProgressIsRecorded
<1>. QED
  BY <1>6, <1>7, <1>9, <1>10, <1>11, <1>12, <1>13 DEF BackupInv

(* The invariant of the backup holds in every reachable state. *)
LEMMA BackupInvHolds == BackupSpec => []BackupInv
<1>1. BackupInit => BackupInv
  BY TypeInit, ShapeInit, ShapeStarts, QuotaInit, ReceiptInit, ChargedInit
     DEF BackupInit, BackupInv, ShardTyped, ShardIsPast
<1>2. BackupInv /\ [BackupNext]_backup_vars => BackupInv'
  <2>1. ASSUME BackupInv, UNCHANGED backup_vars PROVE BackupInv'
    <3>1. UNCHANGED vars /\ UNCHANGED <<updated, shard, receipts, usage, job>>
      BY <2>1 DEF backup_vars, vars
    <3>a. [Next]_vars
      BY <3>1
    <3>2. ShardTyped' /\ ShardIsPast'
      BY <2>1, <3>1 DEF BackupInv, ShardTyped, ShardIsPast, Seen
    <3>3. TypeOK' /\ LeasesStarted' /\ QuotaRespected' /\ AbsentRows'
      BY <2>1, <3>a, TypeStep, StartedStep, QuotaStep, AbsentStep DEF BackupInv
    <3>4. RecordsFinite' /\ ChargedOnce' /\ ProgressIsRecorded'
      BY <2>1, <3>a, ChargedStep, ProgressStep DEF BackupInv
    <3>. QED
      BY <3>2, <3>3, <3>4 DEF BackupInv
  <2>. QED
    BY <2>1, OperationKeeps, ExportKeeps, MergeKeeps DEF BackupNext
<1>. QED
  BY <1>1, <1>2, PTL DEF BackupSpec

-----------------------------------------------------------------------------
(* The budget, the charges and the progress of any number of jobs survive  *)
(* merges of the last export at any time, whatever the queue has done      *)
(* since.                                                                  *)
THEOREM RecordsSurviveMerges == BackupSpec => []RecordsSurvive
<1>1. BackupInv => RecordsSurvive
  BY DEF BackupInv, RecordsSurvive, RecordsAgree
<1>. QED
  BY <1>1, BackupInvHolds, PTL

=============================================================================
