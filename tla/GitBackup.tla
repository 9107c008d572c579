------------------------------ MODULE GitBackup ------------------------------
(***************************************************************************)
(* Synchronisation of several machines over a Git repository (syncBackup-  *)
(* Effect and updateBackupFromGitEffect of src/lib/backup.ts). A sync      *)
(* pulls the clone, merges its files into the database, writes the whole   *)
(* database back as files, commits and pushes; an update stops after the   *)
(* merge. The operations of one clone are not serialized: the server, the  *)
(* command line and the jobs run them side by side, and each step is a     *)
(* command or an await of its own. Files are valid when the shards that    *)
(* the manifest lists are as it says; it is written after them.            *)
(***************************************************************************)
EXTENDS Naturals, Sequences, SequencesExt

CONSTANTS
    Machines, Rows,
    Syncs, Updates, \* operations, running again and again
    Host,           \* Host[p]: the machine of an operation
    Source,         \* Source[r]: the machine that finds a row
    Finds,          \* the sets of rows that come to a machine at once
    Shards, Shard,  \* Shard[r]: the file of a row
    MaxTroubles,    \* bound on failures and on updates that pull beside a sync of their clone
    None

Ops == Syncs \cup Updates

ASSUME BackupAssumption ==
    /\ Syncs \cap Updates = {} /\ Host \in [Ops -> Machines]
    /\ Source \in [Rows -> Machines] /\ Shard \in [Rows -> Shards]
    /\ Finds \subseteq SUBSET Rows
    /\ MaxTroubles \in Nat

VARIABLES
    db,             \* db[m]: the rows of the database
    head,           \* head[m]: the clone's history, None before there is a clone
    files,          \* files[m]: the clone's shards and what the manifest says of them
    remote,         \* the history of the remote branch
    step,           \* step[p]: what operation p has done
    held,           \* held[p]: the rows it has read from the files or the database
    met,            \* met[p]: another operation moved the clone since sync p's pull (history)
    torn,           \* torn[m]: an export met another operation of the clone (history)
    troubles

ops == <<step, held, met>>
git_vars == <<db, head, files, remote, ops, torn, troubles>>

Tree == [rows : SUBSET Rows, manifest : (SUBSET Rows) \cup {None}]
Commits == [by : Machines, tree : Tree]

ASSUME NoneAssumption == None \notin Seq(Commits) /\ \A S \in SUBSET Rows : S # None

Steps == {"idle", "pulled", "read", "merged", "built", "written", "sealed",
          "verified", "committed"}

GitTypeOK ==
    /\ db \in [Machines -> SUBSET Rows]
    /\ head \in [Machines -> Seq(Commits) \cup {None}]
    /\ files \in [Machines -> Tree]
    /\ remote \in Seq(Commits)
    /\ step \in [Ops -> Steps]
    /\ held \in [Ops -> SUBSET Rows] /\ met \in [Ops -> BOOLEAN]
    /\ \A p \in Updates : step[p] \in {"idle", "pulled", "read"}
    /\ torn \in [Machines -> BOOLEAN]
    /\ troubles \in 0 .. MaxTroubles

NoFiles == [rows |-> {}, manifest |-> None]

\* The files of the last commit of a history.
TreeOf(log) == IF log \in {None, <<>>} THEN NoFiles ELSE Last(log).tree

ShardsOf(rows) == {Shard[r] : r \in rows}

In(rows, shards) == {r \in rows : Shard[r] \in shards}

\* Shards that the manifest does not list are not looked at.
Valid(tree) ==
    \/ tree.manifest = None
    \/ In(tree.rows, ShardsOf(tree.manifest)) = tree.manifest

Clean(m) == files[m] = TreeOf(head[m])

GitInit ==
    /\ db = [m \in Machines |-> {}]
    /\ head = [m \in Machines |-> None]
    /\ files = [m \in Machines |-> NoFiles]
    /\ remote = <<>>
    /\ step = [p \in Ops |-> "idle"]
    /\ held = [p \in Ops |-> {}]
    /\ met = [p \in Ops |-> FALSE]
    /\ torn = [m \in Machines |-> FALSE]
    /\ troubles = 0

-----------------------------------------------------------------------------
\* A machine imports or fetches something new.
Find(m, rows) ==
    /\ \A r \in rows : Source[r] = m
    /\ ~(rows \subseteq db[m])
    /\ db' = [db EXCEPT ![m] = @ \cup rows]
    /\ UNCHANGED <<head, files, remote, ops, torn, troubles>>

\* What p does to the clone, the other syncs that work in it meet with.
Moving(p) ==
    [q \in Ops |-> met[q] \/ (/\ q \in Syncs \ {p} /\ Host[q] = Host[p] /\ step[q] # "idle"
                             /\ head'[Host[p]] # head[Host[p]])]

To(p, s) == step' = [step EXCEPT ![p] = s]

\* The operation is over.
Over(p) ==
    /\ To(p, "idle")
    /\ held' = [held EXCEPT ![p] = {}]
    /\ met' = [met EXCEPT ![p] = FALSE]

\* The clone has nothing that the remote lacks; there may be no clone yet.
Behind(m) == IF head[m] = None THEN TRUE ELSE IsPrefix(head[m], remote)

\* The shards that t has and from has not, or has with other rows.
Changed(from, t) == {s \in Shards : In(from.rows, {s}) # In(t.rows, {s})}

\* git clone, or the checkout of a clone without commits, or a pull --ff-only.
\* The pull is refused if histories diverged or modified files are in the
\* way; a shard that the remote left alone may be modified.
Receives(m) ==
    LET base == TreeOf(head[m])
        new == TreeOf(remote)
        mine == Changed(base, files[m])
    IN  /\ Behind(m)
        /\ ~Clean(m) => /\ head[m] \notin {None, <<>>, remote}
                        /\ files[m].manifest = base.manifest
                        /\ mine \cap Changed(base, new) = {}
        /\ head' = [head EXCEPT ![m] = remote]
        /\ files' = [files EXCEPT ![m] =
                       [new EXCEPT !.rows = In(files[m].rows, mine) \cup In(@, Shards \ mine)]]

\* A pull that fails for whatever reason is not an error, a clone that fails is.
NoPull(m) == head[m] # None /\ UNCHANGED <<head, files>>

RefusedIsError(m) == FALSE  \* mutant: a refused pull ends the operation

Refused(m) == ~(Behind(m) /\ Clean(m)) /\ NoPull(m)

\* ensureBackupGitRepoEffect and pullBackupGitRepoEffect
Pull(p) ==
    LET m == Host[p]
        beside == p \in Updates /\ \E q \in Syncs : Host[q] = m /\ step[q] # "idle"
    IN  /\ step[p] = "idle"
        /\ \/ /\ Receives(m) \/ Refused(m)
              /\ beside => troubles < MaxTroubles
              /\ troubles' = IF beside THEN troubles + 1 ELSE troubles
           \/ /\ NoPull(m)
              /\ troubles < MaxTroubles /\ troubles' = troubles + 1
        /\ To(p, "pulled")
        /\ met' = Moving(p)
        /\ UNCHANGED <<db, remote, held, torn>>

\* The first half of importBackupEffect: the files are validated and read.
\* Without a manifest there is nothing to import; invalid files are an error.
Read(p) ==
    LET tree == files[Host[p]]
    IN  /\ step[p] = "pulled"
        /\ \/ /\ tree.manifest = None
              /\ IF p \in Syncs THEN To(p, "merged") /\ UNCHANGED <<held, met>> ELSE Over(p)
           \/ /\ tree.manifest # None /\ Valid(tree)
              /\ held' = [held EXCEPT ![p] = tree.manifest]
              /\ To(p, "read") /\ UNCHANGED met
           \/ ~Valid(tree) /\ Over(p)
        /\ UNCHANGED <<db, head, files, remote, torn, troubles>>

MergeNothing(p) ==  \* mutant: the export is not preceded by the import
    /\ step[p] = "read"
    /\ IF p \in Syncs THEN To(p, "merged") /\ UNCHANGED <<held, met>> ELSE Over(p)
    /\ UNCHANGED <<db, head, files, remote, torn, troubles>>

MergeGoesOn(p) ==  \* mutant: a read path writes the repository too
    /\ step[p] = "read"
    /\ db' = [db EXCEPT ![Host[p]] = @ \cup held[p]]
    /\ To(p, "merged")
    /\ UNCHANGED <<head, files, remote, held, met, torn, troubles>>

\* The other half: one queued transaction merges the rows into the database.
MergeFiles(p) ==
    LET m == Host[p]
    IN  /\ step[p] = "read"
        /\ db' = [db EXCEPT ![m] = @ \cup held[p]]
        /\ IF p \in Syncs THEN To(p, "merged") /\ UNCHANGED <<held, met>> ELSE Over(p)
        /\ UNCHANGED <<head, files, remote, torn, troubles>>

\* exportBackupEffect: the rows are taken from the database ...
Build(p) ==
    /\ step[p] = "merged"
    /\ held' = [held EXCEPT ![p] = db[Host[p]]]
    /\ To(p, "built")
    /\ UNCHANGED <<db, head, files, remote, met, torn, troubles>>

\* Another operation moved the clone since p's pull, or is exporting into it.
Meets(p) ==
    \/ met[p]
    \/ \E q \in Ops \ {p} : Host[q] = Host[p] /\ step[q] \in {"written", "sealed", "verified"}

\* The shards of a set become what p holds of them, nothing for stale ones.
Write(p, shards) ==
    LET m == Host[p]
    IN  /\ step[p] = "built"
        /\ files' = [files EXCEPT ![m].rows =
                       In(@, Shards \ shards) \cup In(held[p], shards)]
        /\ torn' = [torn EXCEPT ![m] = @ \/ Meets(p)]

\* ... written as shards, those of other rows removed ...
WriteShards(p) ==
    /\ Write(p, Shards)
    /\ To(p, "written")
    /\ UNCHANGED <<db, head, remote, held, met, troubles>>

SealOnce(p) ==  \* mutant: a manifest that is there is kept, and nothing validated
    /\ step[p] = "written"
    /\ files' = [files EXCEPT ![Host[p]].manifest = IF @ = None THEN held[p] ELSE @]
    /\ To(p, "verified")
    /\ UNCHANGED <<db, head, remote, held, met, torn, troubles>>

\* ... then described by the manifest ...
Seal(p) ==
    LET m == Host[p]
    IN  /\ step[p] = "written"
        /\ files' = [files EXCEPT ![m].manifest = held[p]]
        /\ torn' = [torn EXCEPT ![m] = @ \/ met[p]]
        /\ To(p, "sealed")
        /\ UNCHANGED <<db, head, remote, held, met, troubles>>

\* ... validated ...
Verify(p) ==
    /\ step[p] = "sealed"
    /\ IF Valid(files[Host[p]]) THEN To(p, "verified") /\ UNCHANGED <<held, met>> ELSE Over(p)
    /\ UNCHANGED <<db, head, files, remote, torn, troubles>>

CommitOrDone(p) ==  \* mutant: without a new commit nothing is pushed
    LET m == Host[p]
    IN  /\ step[p] = "verified"
        /\ IF Clean(m) THEN Over(p) /\ UNCHANGED <<head, torn>>
           ELSE /\ head' = [head EXCEPT ![m] = Append(@, [by |-> m, tree |-> files[m]])]
                /\ torn' = [torn EXCEPT ![m] = @ \/ met[p]]
                /\ met' = Moving(p)
                /\ To(p, "committed") /\ UNCHANGED held
        /\ UNCHANGED <<db, files, remote, troubles>>

\* ... and committed, whatever the files are by now, if they changed.
Commit(p) ==
    LET m == Host[p]
    IN  /\ step[p] = "verified"
        /\ head' = IF Clean(m) THEN head
                   ELSE [head EXCEPT ![m] = Append(@, [by |-> m, tree |-> files[m]])]
        /\ torn' = [torn EXCEPT ![m] = @ \/ met[p]]
        /\ met' = Moving(p)
        /\ To(p, "committed")
        /\ UNCHANGED <<db, files, remote, held, troubles>>

PushForced(p) ==  \* mutant
    /\ step[p] = "committed"
    /\ remote' = head[Host[p]]
    /\ Over(p)
    /\ UNCHANGED <<db, head, files, torn, troubles>>

\* A push that is not a fast-forward is rejected; the commit stays in the clone.
Push(p) ==
    LET m == Host[p]
    IN  /\ step[p] = "committed"
        /\ remote' = IF IsPrefix(remote, head[m]) THEN head[m] ELSE remote
        /\ Over(p)
        /\ UNCHANGED <<db, head, files, torn, troubles>>

\* A command fails, or the process ends.
Stop(p) ==
    /\ step[p] # "idle" /\ troubles < MaxTroubles
    /\ troubles' = troubles + 1
    /\ Over(p)
    /\ UNCHANGED <<db, head, files, remote, torn>>

\* ... among the files: some shards are written, or all and stale ones left.
StopWriting(p) ==
    /\ troubles < MaxTroubles
    /\ troubles' = troubles + 1
    /\ \E shards \in SUBSET Shards :
         /\ shards \subseteq ShardsOf(held[p]) \/ ShardsOf(held[p]) \subseteq shards
         /\ Write(p, shards)
    /\ Over(p)
    /\ UNCHANGED <<db, head, remote>>

Runs(p) ==
    \/ Pull(p) \/ Read(p) \/ MergeFiles(p)
    \/ Build(p) \/ WriteShards(p) \/ Seal(p) \/ Verify(p) \/ Commit(p) \/ Push(p)

GitNext ==
    \/ \E m \in Machines, rows \in Finds : Find(m, rows)
    \/ \E p \in Ops : Runs(p) \/ Stop(p) \/ StopWriting(p)

GitSpec == GitInit /\ [][GitNext]_git_vars

(* The scheduled jobs end with a sync, every few hours; an operation that  *)
(* has begun comes to an end.                                              *)
GitFairSpec ==
    /\ GitSpec
    /\ \A p \in Syncs : WF_git_vars(Runs(p))
    /\ \A p \in Updates : WF_git_vars(step[p] # "idle" /\ Runs(p))

-----------------------------------------------------------------------------
(* "The merge step preserves rows that only one side has" (docs/backup.md):*)
(* no push takes a row out of the repository's last commit, as long as no  *)
(* export met another operation of its clone.                              *)
NothingDropped ==
    [][TreeOf(remote).rows \subseteq TreeOf(remote').rows \/ \E m \in Machines : torn[m]]_git_vars

(* What is pushed can be imported by other machines, all of it: however    *)
(* operations failed half way, the manifest is that of the shards and      *)
(* lists every one, under the same proviso.                                *)
PushedIsWhole ==
    LET tree == TreeOf(remote)
    IN  \/ tree \in {NoFiles, [tree EXCEPT !.manifest = tree.rows]}
        \/ \E m \in Machines : torn[m]

(* A clone that no later operation repairs: its commits and the remote's   *)
(* have diverged, or its files do not validate.                            *)
Diverged(m) == ~Behind(m) /\ ~IsPrefix(remote, head[m])

Stuck(m) == Diverged(m) \/ ~Valid(files[m])

(* "Each machine can sync independently" (docs/backup.md): if the machines *)
(* sync again and again, a row of a database, which never loses one,       *)
(* reaches the repository, and reaches it again if it is dropped, but for  *)
(* a clone that stays stuck: after a push that lost a race, or an export   *)
(* that ended before its manifest.                                         *)
RowsTravel ==
    \A r \in Rows :
        LET m == Source[r]
        IN  <>[](r \in db[m]) => []<>(r \in TreeOf(remote).rows) \/ <>[]Stuck(m)

(* A row that stays in the repository reaches every machine, with the same *)
(* exception.                                                              *)
RowsArrive ==
    \A r \in Rows, m \in Machines :
        m # Source[r] /\ <>[](r \in TreeOf(remote).rows) => <>[](r \in db[m]) \/ <>[]Stuck(m)
=============================================================================
