------------------------ MODULE CollectionSyncProofs ------------------------
(***************************************************************************)
(* Early stop is sound, for any number of syncs, items, options, failures  *)
(* and changes of the collection. The argument carries, for each walk,     *)
(* that from its token up everything it was answered for is known, and     *)
(* that where it has come to is the only place a write of it may break     *)
(* off; a page of local items ends the walk because the store has no gap   *)
(* but at the breaks. The pages a walk has read, and those above a break,  *)
(* are counted while nothing is removed.                                   *)
(***************************************************************************)
EXTENDS CollectionSync, FiniteSetTheorems, WellFoundedInduction, TLAPS

(* What is local once s has written what it found; what it has read.       *)
Local(s) == found[s] \cup stored

Known(s) == Local(s) \cup page[s]

(* The places are those of the order of adding: nothing is newer than the  *)
(* item added last, and nothing is known that was never added.             *)
PlacedOf(s) == since[s] <= top /\ \A i \in found[s] \cup page[s] : place[i] # 0

Placed ==
    /\ \A i \in Items : place[i] <= top
    /\ \A i \in remote \cup stored : place[i] # 0
    /\ \A s \in Syncs : PlacedOf(s)

(* A sync that does not walk has nothing of a walk, and the transports are *)
(* those of its mode.                                                      *)
Rested(s) ==
    /\ step[s] \in {"idle", "synced", "bird"} =>
          token[s] = None /\ pages[s] = 0 /\ page[s] = {} /\ found[s] = {}
    /\ step[s] \in {"walking", "writing"} => page[s] = {}
    /\ step[s] \in {"walking", "compare"} => opt[s].mode # "bird"
    /\ step[s] = "bird" => opt[s].mode # "xurl"

(* An item of a page is not newer than u, or came back since and left a    *)
(* break where the page had it.                                            *)
Within(s, k, u) == place[k] <= u \/ \E c \in breaks : token[s] <= c /\ c <= u

WalkOK(s) ==
    step[s] \in {"walking", "compare"} =>
        /\ token[s] = None => step[s] = "walking" /\ found[s] = {} /\ pages[s] = 0
        /\ token[s] # None =>
              /\ token[s] <= since[s]
              /\ \A j \in remote : token[s] <= place[j] /\ place[j] <= since[s] => j \in Known(s)
              /\ \A i \in found[s] \cup page[s] :
                    token[s] <= place[i] /\ (place[i] <= since[s] \/ place[i] \in breaks)
              /\ \A k \in page[s] : /\ Within(s, k, since[s])
                                    /\ \A i \in found[s] : Within(s, k, place[i])

(* A break between two places, once s has written what it found.           *)
Ends(s, lo, hi) == Broken(lo, hi) \/ (lo < token[s] /\ token[s] <= hi)

WriteOK(s) ==
    step[s] = "writing" =>
        /\ token[s] \in Nat
        /\ \A j \in remote \ Local(s) :
              /\ place[j] <= since[s] => Ends(s, place[j], since[s])
              /\ \A i \in found[s] : place[j] < place[i] => Ends(s, place[j], place[i])

SyncedOK(s) ==
    step[s] = "synced" =>
        \A j \in remote \ stored : place[j] <= since[s] => Broken(place[j], since[s])

SyncOK(s) == WalkOK(s) /\ WriteOK(s) /\ SyncedOK(s)

(* What is listed from a place up, and that it fills n pages.              *)
From(c) == {k \in remote : place[k] >= c}

Fills(c, n) == n * PageSize <= Cardinality(From(c))

(* While nothing is removed: what was added is there, and a walk has its   *)
(* pages above its token, a break the window.                              *)
CountedOf(s) ==
    token[s] \notin {None, End} =>
        /\ step[s] \in {"walking", "compare"} => Fills(token[s], pages[s])
        /\ step[s] = "writing" => Fills(token[s], Window)

Counted ==
    removals = 0 =>
        /\ \A i \in Items : place[i] # 0 => i \in remote
        /\ \A c \in breaks : Fills(c, Window)
        /\ \A s \in Syncs : CountedOf(s)

IInv ==
    /\ TypeOK /\ Placed /\ NoGap /\ Counted
    /\ \A s \in Syncs : Rested(s) /\ SyncOK(s)

USE DEF Steps, End

-----------------------------------------------------------------------------
(* Counting *)

(* A set of natural numbers that is not empty has a least one. *)
LEMMA LeastNumber ==
    ASSUME NEW T \in SUBSET Nat, T # {}
    PROVE  \E x \in T : \A y \in T : x <= y
<1> DEFINE R == OpToRel(<, Nat)
<1>1. IsWellFoundedOn(R, Nat)
    BY NatLessThanWellFounded
<1>2. \A x, y \in Nat : y < x => <<y, x>> \in R
    BY DEF OpToRel
<1> HIDE DEF R
<1>3. PICK x \in T : \A y \in T : ~(<<y, x>> \in R)
    BY <1>1, WFMin
<1>4. ASSUME NEW y \in T PROVE x <= y
    <2>1. x \in Nat /\ y \in Nat /\ ~(y < x)
        BY <1>2, <1>3
    <2> QED BY <2>1
<1> QED BY <1>4

(* More pages hold more items, one more by a page. *)
LEMMA PagesGrow ==
    ASSUME NEW m \in Nat, NEW n \in Nat, m <= n
    PROVE  m * PageSize <= n * PageSize /\ m * PageSize \in Nat
<1>1. PageSize \in Nat
    BY CollectionAssumption
<1>2. PICK d \in Nat : n = m + d
    <2>1. n - m \in Nat /\ n = m + (n - m)
        OBVIOUS
    <2> QED BY <2>1
<1>3. n * PageSize = m * PageSize + d * PageSize /\ d * PageSize \in Nat
      /\ m * PageSize \in Nat
    BY <1>1, <1>2
<1> QED BY <1>3

LEMMA OneMorePage ==
    ASSUME NEW n \in Nat
    PROVE  n * PageSize \in Nat /\ (n + 1) * PageSize = n * PageSize + PageSize
BY CollectionAssumption

(* Sets of items are finite and a subset is no larger. *)
LEMMA ItemsCount ==
    ASSUME NEW A \in SUBSET Items, NEW B \in SUBSET A
    PROVE  /\ IsFiniteSet(A) /\ Cardinality(A) \in Nat /\ Cardinality(B) \in Nat
           /\ Cardinality(B) <= Cardinality(A)
<1>1. IsFiniteSet(A)
    BY CollectionAssumption, FS_Subset
<1> QED BY <1>1, FS_Subset, FS_CardinalityType

(* Disjoint parts of a set count up to no more than the set. *)
LEMMA PartsCount ==
    ASSUME NEW C \in SUBSET Items, NEW A \in SUBSET C, NEW B \in SUBSET C, A \cap B = {}
    PROVE  Cardinality(A) + Cardinality(B) <= Cardinality(C)
<1>1. IsFiniteSet(A) /\ IsFiniteSet(B) /\ A \cup B \in SUBSET C
    BY ItemsCount
<1>2. Cardinality(A \cup B) = Cardinality(A) + Cardinality(B) - Cardinality(A \cap B)
    BY <1>1, FS_Union
<1>3. Cardinality(A \cap B) = 0
    BY FS_EmptySet
<1>4. Cardinality(A \cup B) <= Cardinality(C)
    BY <1>1, ItemsCount
<1>5. Cardinality(A) \in Nat /\ Cardinality(B) \in Nat
    BY ItemsCount
<1> QED BY <1>2, <1>3, <1>4, <1>5

(* The newest items of S are newer than its others, and n of them if there *)
(* are others.                                                             *)
LEMMA NewestFacts ==
    ASSUME TypeOK, Placed, NEW S \in SUBSET Items, NEW n \in Nat
    PROVE  /\ Newest(S, n) \subseteq S
           /\ \A i \in S \ Newest(S, n), k \in Newest(S, n) : place[i] < place[k]
           /\ Newest(S, n) # S => n <= Cardinality(Newest(S, n))
<1> DEFINE N == Newest(S, n)
           Newer(i) == {j \in S : place[j] > place[i]}
<1>1. N \subseteq S /\ \A i \in S : i \in N <=> Cardinality(Newer(i)) < n
    BY DEF Newest
<1>2. \A i \in Items : place[i] \in Nat
    BY DEF TypeOK
<1>3. ASSUME NEW i \in S \ N, NEW k \in N PROVE place[i] < place[k]
    <2> SUFFICES ASSUME ~ place[i] < place[k] PROVE FALSE
        OBVIOUS
    <2>1. i \in S /\ k \in S
        BY <1>1
    <2>2. Newer(i) \subseteq Newer(k) /\ Newer(k) \subseteq Items
        BY <1>2, <2>1
    <2>3. Cardinality(Newer(k)) < n /\ ~ Cardinality(Newer(i)) < n
        BY <1>1, <2>1
    <2> HIDE DEF Newer
    <2> QED BY <2>2, <2>3, ItemsCount
<1>4. ASSUME N # S PROVE n <= Cardinality(N)
    <2> DEFINE D == {top - place[i] : i \in S \ N}
    <2>1. D \in SUBSET Nat /\ D # {}
        <3>1. \A i \in S \ N : place[i] \in Nat /\ place[i] <= top /\ top \in Nat
            BY <1>2 DEF TypeOK, Placed
        <3>2. \A i \in S \ N : top - place[i] \in Nat
            BY <3>1
        <3>3. \E i \in S \ N : TRUE
            BY <1>1, <1>4
        <3> HIDE DEF N
        <3> QED BY <3>2, <3>3
    <2>2. PICK x \in D : \A y \in D : x <= y
        BY <2>1, LeastNumber
    <2>3. PICK i \in S \ N : x = top - place[i]
        BY <2>2
    <2>4. ASSUME NEW j \in S \ N PROVE place[j] <= place[i]
        <3>1. top - place[i] <= top - place[j]
            BY <2>2, <2>3
        <3>2. top \in Nat /\ place[i] \in Nat /\ place[j] \in Nat
            BY <1>2, <2>3 DEF TypeOK
        <3> QED BY <3>1, <3>2
    <2>5. Newer(i) \subseteq N /\ N \subseteq Items
        BY <1>1, <1>2, <2>4
    <2>6. ~ Cardinality(Newer(i)) < n
        BY <1>1, <2>3
    <2> HIDE DEF Newer, N, D
    <2> QED BY <2>5, <2>6, ItemsCount
<1> QED BY <1>1, <1>3, <1>4

(* An answer is the upper part of what it was to list, down to its token.  *)
LEMMA AfterFacts ==
    ASSUME TypeOK, Placed, NEW S \in SUBSET Items, NEW n \in Nat, NEW t,
           After(S, Newest(S, n), t)
    PROVE  /\ t \in Nat
           /\ \A j \in Newest(S, n) : t <= place[j]
           /\ \A j \in S : t <= place[j] => j \in Newest(S, n)
           /\ t # End => /\ n <= Cardinality(Newest(S, n))
                         /\ \E last \in Newest(S, n) : t = place[last]
<1>1. \A i \in Items : place[i] \in Nat
    BY DEF TypeOK
<1>2. CASE Newest(S, n) = S
    BY <1>1, <1>2 DEF After
<1>3. CASE Newest(S, n) # S
    <2>1. PICK last \in Newest(S, n) :
             t = place[last] /\ \A j \in Newest(S, n) : t <= place[j]
        BY <1>3 DEF After
    <2>2. \A j \in S \ Newest(S, n) : place[j] < t
        BY <2>1, NewestFacts
    <2> QED BY <1>1, <1>3, <2>1, <2>2, NewestFacts
<1> QED BY <1>2, <1>3

-----------------------------------------------------------------------------
(* The steps *)

(* There are options to start with. *)
LEMMA AnOption == (CHOOSE o \in Options : TRUE) \in Options
BY CollectionAssumption

(* The empty collection satisfies the invariant. *)
LEMMA InitIInv == Init => IInv
<1> SUFFICES ASSUME Init PROVE IInv
    OBVIOUS
<1>1. TypeOK
    BY AnOption DEF Init, TypeOK
<1>2. Placed
    BY DEF Init, Placed, PlacedOf
<1>3. NoGap /\ Counted
    BY DEF Init, NoGap, Counted, CountedOf
<1>4. \A s \in Syncs : Rested(s) /\ SyncOK(s)
    BY DEF Init, Rested, SyncOK, WalkOK, WriteOK, SyncedOK
<1> QED BY <1>1, <1>2, <1>3, <1>4 DEF IInv

(* Nothing happens to sync q. *)
Same(q) ==
    /\ step'[q] = step[q] /\ opt'[q] = opt[q]
    /\ token'[q] = token[q] /\ pages'[q] = pages[q] /\ page'[q] = page[q]
    /\ found'[q] = found[q] /\ since'[q] = since[q]

(* A sync that does nothing stays in order when the store and the breaks   *)
(* grow and items are removed.                                             *)
LEMMA Frame ==
    ASSUME NEW q \in Syncs, Same(q), remote' \subseteq remote, place' = place, top' = top,
           stored \subseteq stored', breaks \subseteq breaks'
    PROVE  /\ SyncOK(q) => SyncOK(q)'
           /\ Rested(q) => Rested(q)'
           /\ PlacedOf(q) => PlacedOf(q)'
           /\ remote' = remote /\ CountedOf(q) => CountedOf(q)'
<1>1. WalkOK(q) => WalkOK(q)'
    BY DEF Same, WalkOK, Known, Local, Within
<1>2. WriteOK(q) => WriteOK(q)'
    BY DEF Same, WriteOK, Local, Ends, Broken
<1>3. SyncedOK(q) => SyncedOK(q)'
    BY DEF Same, SyncedOK, Broken
<1> QED BY <1>1, <1>2, <1>3 DEF Same, SyncOK, Rested, PlacedOf, CountedOf, Fills, From

(* A step of one sync: it is enough to look at that sync, and at what its  *)
(* write adds to the store and the breaks.                                 *)
LEMMA OneSync ==
    ASSUME IInv, NEW s \in Syncs, \A q \in Syncs \ {s} : Same(q),
           UNCHANGED <<removals, listing>>, TypeOK',
           stored \subseteq stored', breaks \subseteq breaks',
           \A i \in stored' : place[i] # 0,
           NoGap', SyncOK(s)', Rested(s)', PlacedOf(s)',
           removals = 0 => CountedOf(s)' /\ \A c \in breaks' : Fills(c, Window)
    PROVE  IInv'
<1>1. UNCHANGED <<removals, remote, place, top>>
    BY DEF listing
<1>2. \A q \in Syncs \ {s} :
         SyncOK(q)' /\ Rested(q)' /\ PlacedOf(q)' /\ (removals = 0 => CountedOf(q)')
    BY <1>1, Frame DEF IInv, Placed, Counted
<1>3. Placed'
    BY <1>1, <1>2 DEF IInv, Placed
<1>4. Counted'
    BY <1>1, <1>2 DEF IInv, Counted, Fills, From
<1> QED BY <1>2, <1>3, <1>4 DEF IInv

(* The store and the breaks stay as they are, and with them its gaps.      *)
LEMMA NoGapStays ==
    NoGap /\ UNCHANGED <<remote, place, stored, breaks>> => NoGap'
BY DEF NoGap, Broken

(* An item is added, or comes back. *)
LEMMA AddStep ==
    ASSUME IInv, NEW i \in Items, Add(i)
    PROVE  IInv'
<1>1. /\ i \notin remote /\ remote' = remote \cup {i} /\ top' = top + 1
      /\ place' = [place EXCEPT ![i] = top + 1] /\ stored' = stored
      /\ breaks \subseteq breaks' /\ UNCHANGED <<bounds, cache, walk>>
    BY DEF Add
<1>2. /\ place[i] # 0 => top + 1 \in breaks'
      /\ \A s \in Syncs : i \in page[s] => place[i] \in breaks'
      /\ \A c \in breaks' : c \in breaks \/ (c = top + 1 /\ place[i] # 0)
                            \/ (c = place[i] /\ \E s \in Syncs : i \in page[s])
    BY DEF Add
<1>3. /\ top \in Nat /\ place \in [Items -> Nat] /\ remote \subseteq Items /\ stored \subseteq Items
      /\ breaks \subseteq Nat
      /\ \A s \in Syncs : /\ since[s] \in Nat /\ found[s] \subseteq Items
                          /\ page[s] \subseteq Items /\ (token[s] # None => token[s] \in Nat)
    BY DEF IInv, TypeOK
<1>4. /\ place'[i] = top + 1
      /\ \A j \in Items : j # i => place'[j] = place[j]
      /\ \A j \in Items : place[j] \in Nat /\ place[j] <= top
    BY <1>1, <1>3 DEF IInv, Placed
<1>5. UNCHANGED <<step, opt, token, pages, page, found, since, removals>>
    BY <1>1 DEF walk, bounds
<1>6. TypeOK'
    <2>1. top + 1 \in Nat /\ place[i] \in Nat
        BY <1>3
    <2>2. breaks' \subseteq Nat
        BY <1>2, <1>3, <2>1
    <2> QED BY <1>1, <1>3, <2>1, <2>2 DEF IInv, TypeOK, bounds, walk
<1>7. Placed'
    <2>1. \A j \in Items : place'[j] <= top'
        BY <1>1, <1>3, <1>4
    <2>2. \A j \in Items : place[j] # 0 => place'[j] # 0
        BY <1>3, <1>4
    <2>3. \A j \in remote' \cup stored' : place'[j] # 0
        BY <1>1, <1>3, <1>4, <2>2 DEF IInv, Placed
    <2>4. ASSUME NEW s \in Syncs PROVE PlacedOf(s)'
        <3>1. since[s] <= top /\ \A j \in found[s] \cup page[s] : place[j] # 0
            BY DEF IInv, Placed, PlacedOf
        <3> QED BY <1>1, <1>3, <1>5, <2>2, <3>1 DEF PlacedOf
    <2> QED BY <2>1, <2>3, <2>4 DEF Placed
<1>8. NoGap'
    <2> SUFFICES ASSUME NEW k \in stored, NEW j \in remote' \ stored, place'[j] < place'[k]
                 PROVE  \E c \in breaks' : place'[j] < c /\ c <= place'[k]
        BY <1>1 DEF NoGap, Broken
    <2>1. CASE k = i
        BY <1>1, <1>2, <1>3, <1>4, <2>1 DEF IInv, Placed
    <2>2. CASE k # i
        <3>1. place'[k] = place[k] /\ j \in Items /\ k \in Items
            BY <1>1, <1>3, <1>4, <2>2
        <3>2. j # i
            BY <1>3, <1>4, <3>1
        <3>3. j \in remote \ stored /\ place'[j] = place[j]
            BY <1>1, <1>4, <3>1, <3>2
        <3>4. Broken(place[j], place[k])
            BY <3>1, <3>3 DEF IInv, NoGap
        <3> QED BY <1>1, <3>1, <3>3, <3>4 DEF Broken
    <2> QED BY <2>1, <2>2
<1>9. ASSUME NEW s \in Syncs PROVE Rested(s)'
    BY <1>5 DEF IInv, Rested
<1>10. ASSUME NEW s \in Syncs PROVE SyncOK(s)'
    <2>1. since[s] <= top /\ \A j \in found[s] \cup page[s] : place[j] # 0
        BY DEF IInv, Placed, PlacedOf
    <2>2. WalkOK(s) /\ WriteOK(s) /\ SyncedOK(s)
        BY DEF IInv, SyncOK
    <2>3. ~ place'[i] <= since[s]
        BY <1>3, <1>4, <2>1
    <2>4. WalkOK(s)'
        <3> SUFFICES ASSUME step[s] \in {"walking", "compare"}, token[s] # None
                     PROVE  /\ token[s] <= since[s]
                            /\ \A j \in remote' : token[s] <= place'[j] /\ place'[j] <= since[s]
                                                  => j \in Known(s)
                            /\ \A j \in found[s] \cup page[s] :
                                  token[s] <= place'[j]
                                  /\ (place'[j] <= since[s] \/ place'[j] \in breaks')
                            /\ \A k \in page[s] : /\ Within(s, k, since[s])'
                                                  /\ \A j \in found[s] : Within(s, k, place[j])'
            BY <1>1, <1>5, <2>2 DEF WalkOK, Known, Local
        <3>1. token[s] \in Nat /\ token[s] <= since[s] /\ token[s] <= top
            BY <1>3, <2>1, <2>2 DEF WalkOK
        <3>2. \A j \in remote' : token[s] <= place'[j] /\ place'[j] <= since[s] => j \in Known(s)
            BY <1>1, <1>3, <1>4, <2>2, <2>3 DEF WalkOK
        <3>3. ASSUME NEW j \in found[s] \cup page[s]
              PROVE  token[s] <= place'[j] /\ (place'[j] <= since[s] \/ place'[j] \in breaks')
            <4>1. token[s] <= place[j] /\ (place[j] <= since[s] \/ place[j] \in breaks)
                  /\ place[j] # 0 /\ j \in Items
                BY <1>3, <2>1, <2>2 DEF WalkOK
            <4> QED BY <1>1, <1>2, <1>3, <1>4, <3>1, <4>1
        <3>4. ASSUME NEW k \in page[s] PROVE Within(s, k, since[s])'
            <4>1. Within(s, k, since[s]) /\ since[s] \in Nat /\ since[s] <= since[s]
                BY <1>3, <2>2 DEF WalkOK
            <4>2. Within(s, k, since[s])' <=> (place'[k] <= since[s]
                     \/ \E c \in breaks' : token[s] <= c /\ c <= since[s])
                BY <1>5 DEF Within
            <4>3. Within(s, k, since[s])
                BY <4>1
            <4>4. \/ place[k] <= since[s] /\ k # i
                  \/ place[k] <= since[s] /\ k = i
                  \/ \E c \in breaks : token[s] <= c /\ c <= since[s]
                BY <4>3 DEF Within
            <4>5. token[s] <= place[k]
                BY <2>2 DEF WalkOK
            <4> QED BY <1>1, <1>2, <1>3, <1>4, <4>2, <4>4, <4>5
        <3>5. ASSUME NEW k \in page[s], NEW j \in found[s] PROVE Within(s, k, place[j])'
            <4>1. Within(s, k, place[j]) /\ token[s] <= place[k]
                BY <2>2 DEF WalkOK
            <4>2. place[j] <= place'[j] /\ place'[j] \in Nat /\ place[j] \in Nat
                BY <1>3, <1>4
            <4>3. Within(s, k, place[j])' <=> (place'[k] <= place'[j]
                     \/ \E c \in breaks' : token[s] <= c /\ c <= place'[j])
                BY <1>5 DEF Within
            <4>4. \/ place[k] <= place[j] /\ k # i
                  \/ place[k] <= place[j] /\ k = i
                  \/ \E c \in breaks : token[s] <= c /\ c <= place[j]
                BY <4>1 DEF Within
            <4>5. CASE place[k] <= place[j] /\ k # i
                BY <1>3, <1>4, <4>2, <4>3, <4>5
            <4>6. CASE place[k] <= place[j] /\ k = i
                <5>1. place[k] \in breaks' /\ place[k] <= place'[j]
                    BY <1>2, <1>3, <4>2, <4>6
                <5> QED BY <4>1, <4>3, <5>1
            <4>7. CASE \E c \in breaks : token[s] <= c /\ c <= place[j]
                BY <1>1, <1>3, <4>2, <4>3, <4>7
            <4> QED BY <4>4, <4>5, <4>6, <4>7
        <3> QED BY <3>1, <3>2, <3>3, <3>4, <3>5
    <2>5. WriteOK(s)'
        <3> SUFFICES ASSUME step[s] = "writing", NEW j \in remote' \ Local(s)
                     PROVE  /\ place'[j] <= since[s] => Ends(s, place[j], since[s])'
                            /\ \A k \in found[s] :
                                  place'[j] < place'[k] => Ends(s, place[j], place[k])'
            BY <1>1, <1>5, <2>2 DEF WriteOK, Local
        <3>1. CASE j = i
            BY <1>3, <1>4, <2>3, <3>1
        <3>2. CASE j # i
            <4>1. j \in remote \ Local(s) /\ place'[j] = place[j] /\ j \in Items
                BY <1>1, <1>3, <1>4, <3>2
            <4>2. place[j] <= since[s] => Ends(s, place[j], since[s])
                BY <2>2, <4>1 DEF WriteOK
            <4>3. ASSUME NEW k \in found[s], place'[j] < place'[k]
                  PROVE  Ends(s, place[j], place[k])'
                <5>1. CASE k = i
                    <6>1. top + 1 \in breaks' /\ place[j] < top + 1
                        BY <1>2, <1>3, <1>4, <2>1, <4>1, <5>1
                    <6> QED BY <1>3, <1>4, <4>1, <5>1, <6>1 DEF Ends, Broken
                <5>2. CASE k # i
                    <6>1. place'[k] = place[k]
                        BY <1>3, <1>4, <5>2
                    <6>2. Ends(s, place[j], place[k])
                        BY <2>2, <4>1, <4>3, <6>1 DEF WriteOK
                    <6> QED BY <1>1, <1>5, <4>1, <6>1, <6>2 DEF Ends, Broken
                <5> QED BY <5>1, <5>2
            <4> QED BY <1>1, <1>5, <4>1, <4>2, <4>3 DEF Ends, Broken
        <3> QED BY <3>1, <3>2
    <2>6. SyncedOK(s)'
        <3> SUFFICES ASSUME step[s] = "synced", NEW j \in remote' \ stored, place'[j] <= since[s]
                     PROVE  Broken(place[j], since[s])'
            BY <1>1, <1>5 DEF SyncedOK
        <3>1. j \in remote /\ place'[j] = place[j]
            BY <1>1, <1>3, <1>4, <2>3
        <3>2. Broken(place[j], since[s])
            BY <2>2, <3>1 DEF SyncedOK
        <3> QED BY <1>1, <1>5, <3>1, <3>2 DEF Broken
    <2> QED BY <2>4, <2>5, <2>6 DEF SyncOK
<1>11. Counted'
    <2> SUFFICES ASSUME removals = 0 PROVE Counted'
        BY <1>5 DEF Counted
    <2>1. /\ \A j \in Items : place[j] # 0 => j \in remote
          /\ \A c \in breaks : Fills(c, Window)
          /\ \A s \in Syncs : CountedOf(s)
        BY DEF IInv, Counted
    <2>2. place[i] = 0 /\ \A s \in Syncs : i \notin page[s]
        BY <1>1, <2>1 DEF IInv, Placed, PlacedOf
    <2>3. breaks' = breaks
        BY <1>1, <1>2, <2>2
    <2>4. ASSUME NEW c \in Nat, NEW n \in Nat, Fills(c, n) PROVE Fills(c, n)'
        <3>1. From(c) \subseteq From(c)' /\ From(c)' \subseteq Items
            BY <1>1, <1>3, <1>4 DEF From
        <3>2. Cardinality(From(c)) <= Cardinality(From(c)')
              /\ Cardinality(From(c)) \in Nat /\ Cardinality(From(c)') \in Nat
            BY <3>1, ItemsCount
        <3>3. n * PageSize \in Nat
            BY OneMorePage
        <3> QED BY <2>4, <3>2, <3>3 DEF Fills
    <2>5. \A c \in breaks : Fills(c, Window)'
        BY <1>3, <2>1, <2>4, WindowAssumption
    <2>6. ASSUME NEW s \in Syncs PROVE CountedOf(s)'
        <3>1. pages[s] \in Nat /\ Window \in Nat
            BY WindowAssumption DEF IInv, TypeOK
        <3>2. token'[s] = token[s] /\ step'[s] = step[s] /\ pages'[s] = pages[s]
            BY <1>5
        <3>3. CASE token[s] \in {None, End}
            BY <3>2, <3>3 DEF CountedOf
        <3>4. CASE token[s] \notin {None, End}
            <4>1. token[s] \in Nat
                BY <1>3, <3>4
            <4>2. /\ Fills(token[s], pages[s]) => Fills(token[s], pages[s])'
                  /\ Fills(token[s], Window) => Fills(token[s], Window)'
                BY <2>4, <3>1, <3>2, <4>1 DEF Fills, From
            <4> QED BY <2>1, <3>2, <3>4, <4>2 DEF CountedOf
        <3> QED BY <3>3, <3>4
    <2>7. \A j \in Items : place'[j] # 0 => j \in remote'
        BY <1>1, <1>4, <2>1
    <2> QED BY <2>3, <2>5, <2>6, <2>7 DEF Counted
<1> QED BY <1>6, <1>7, <1>8, <1>9, <1>10, <1>11 DEF IInv

(* An item is removed; it stays local. *)
LEMMA RemoveStep ==
    ASSUME IInv, NEW i \in Items, Remove(i)
    PROVE  IInv'
<1>1. remote' \subseteq remote /\ removals' \in Nat /\ removals' # 0
    BY DEF Remove, IInv, TypeOK
<1>2. UNCHANGED <<place, top, stored, breaks, step, opt, token, pages, page, found, since>>
    BY DEF Remove, walk
<1>3. TypeOK'
    BY <1>1 DEF Remove, IInv, TypeOK, walk
<1>4. NoGap'
    BY <1>1, <1>2 DEF IInv, NoGap, Broken
<1>5. \A s \in Syncs : Rested(s)' /\ SyncOK(s)' /\ PlacedOf(s)'
    BY <1>1, <1>2, Frame DEF IInv, Same, Placed
<1>6. Placed'
    BY <1>1, <1>2, <1>5 DEF IInv, Placed
<1> QED BY <1>1, <1>3, <1>4, <1>5, <1>6 DEF IInv, Counted

(* Time passes. *)
LEMMA TickStep == IInv /\ (Tick \/ UNCHANGED vars) => IInv'
<1> SUFFICES ASSUME IInv, Tick \/ UNCHANGED vars PROVE IInv'
    OBVIOUS
<1>1. UNCHANGED <<removals, remote, place, top, stored, breaks, step, opt, token, pages, page,
                  found, since>>
    BY DEF Tick, vars, bounds, listing, walk
<1>2. TypeOK'
    <2>1. now' \in Nat /\ UNCHANGED <<failures, cache, opt>>
        BY DEF IInv, TypeOK, Tick, vars, bounds, walk
    <2> QED BY <1>1, <2>1 DEF IInv, TypeOK
<1>3. NoGap'
    BY <1>1, NoGapStays DEF IInv
<1>4. \A s \in Syncs : /\ Rested(s)' /\ SyncOK(s)' /\ PlacedOf(s)'
                       /\ CountedOf(s) => CountedOf(s)'
    BY <1>1, Frame DEF IInv, Same, Placed
<1>5. Placed'
    BY <1>1, <1>4 DEF IInv, Placed
<1>6. Counted'
    BY <1>1, <1>4 DEF IInv, Counted, Fills, From
<1> QED BY <1>2, <1>3, <1>4, <1>5, <1>6 DEF IInv

(* What a sync that ended leaves is in order, if its success is covered.   *)
LEMMA AtRest ==
    ASSUME NEW s \in Syncs, step'[s] \in {"idle", "walking", "bird", "synced"},
           token'[s] = None, pages'[s] = 0, page'[s] = {}, found'[s] = {},
           step'[s] = "walking" => opt'[s].mode # "bird",
           step'[s] = "bird" => opt'[s].mode # "xurl",
           SyncedOK(s)', since'[s] <= top'
    PROVE  SyncOK(s)' /\ Rested(s)' /\ PlacedOf(s)' /\ CountedOf(s)'
<1>1. WalkOK(s)' /\ WriteOK(s)'
    BY DEF WalkOK, WriteOK
<1> QED BY <1>1 DEF SyncOK, Rested, PlacedOf, CountedOf

(* A crash forgets the walks, and nothing that was stored. *)
LEMMA CrashStep == IInv /\ Crash => IInv'
<1> SUFFICES ASSUME IInv, Crash PROVE IInv'
    OBVIOUS
<1>1. UNCHANGED <<now, removals, remote, place, top, stored, cache, breaks>> /\ failures' \in Nat
    BY DEF Crash, listing, IInv, TypeOK
<1>2. \A s \in Syncs : /\ step'[s] = "idle" /\ token'[s] = None /\ pages'[s] = 0
                       /\ page'[s] = {} /\ found'[s] = {} /\ since'[s] = 0
    BY DEF Crash
<1>3. TypeOK'
    BY <1>1, AnOption DEF Crash, IInv, TypeOK
<1>4. NoGap'
    BY <1>1, NoGapStays DEF IInv
<1>5. \A s \in Syncs : Rested(s)' /\ SyncOK(s)' /\ PlacedOf(s)' /\ CountedOf(s)'
    <2>1. top' \in Nat /\ \A s \in Syncs : SyncedOK(s)'
        BY <1>1, <1>2 DEF IInv, TypeOK, SyncedOK
    <2> QED BY <1>2, <2>1, AtRest
<1>6. Placed'
    BY <1>1, <1>5 DEF IInv, Placed
<1>7. Counted'
    BY <1>1, <1>5 DEF IInv, Counted, Fills, From
<1> QED BY <1>3, <1>4, <1>5, <1>6, <1>7 DEF IInv

(* A sync starts, or is answered from the cache. *)
LEMMA StartStep ==
    ASSUME IInv, NEW s \in Syncs, NEW o \in Options, Start(s, o)
    PROVE  IInv'
<1>1. UNCHANGED <<bounds, listing, stored, cache, breaks, token, pages, page, found>>
    BY DEF Start
<1>2. /\ step[s] \in {"idle", "synced"} /\ since'[s] = 0
      /\ \/ step'[s] = "idle"
         \/ step'[s] = "walking" /\ opt'[s] = o /\ o.mode # "bird"
         \/ step'[s] = "bird" /\ opt'[s] = o /\ o.mode = "bird"
    BY DEF Start, IInv, TypeOK
<1>3. TypeOK'
    BY <1>1 DEF Start, IInv, TypeOK, bounds, listing
<1>4. \A q \in Syncs \ {s} : Same(q)
    BY <1>1 DEF Start, Same, IInv, TypeOK
<1>5. NoGap'
    BY <1>1, NoGapStays DEF IInv, listing
<1>6. SyncOK(s)' /\ Rested(s)' /\ PlacedOf(s)' /\ CountedOf(s)'
    <2>1. token'[s] = None /\ pages'[s] = 0 /\ page'[s] = {} /\ found'[s] = {}
        BY <1>1, <1>2 DEF IInv, Rested
    <2>2. SyncedOK(s)' /\ since'[s] <= top' /\ step'[s] \in {"idle", "walking", "bird", "synced"}
        BY <1>1, <1>2 DEF SyncedOK, IInv, TypeOK, listing
    <2>3. /\ step'[s] = "walking" => opt'[s].mode # "bird"
          /\ step'[s] = "bird" => opt'[s].mode # "xurl"
        BY <1>2
    <2> QED BY <2>1, <2>2, <2>3, AtRest
<1>7. UNCHANGED removals /\ \A i \in stored' : place[i] # 0
    BY <1>1 DEF IInv, Placed, bounds
<1>8. removals = 0 => CountedOf(s)' /\ \A c \in breaks' : Fills(c, Window)
    BY <1>1, <1>6 DEF IInv, Counted
<1> QED BY <1>1, <1>3, <1>4, <1>5, <1>6, <1>7, <1>8, OneSync

(* A page is read: with it everything from its token up is known.          *)
LEMMA FetchStep ==
    ASSUME IInv, NEW s \in Syncs, Fetch(s)
    PROVE  IInv'
<1> DEFINE rest == Below(token[s])
           next == Newest(rest, PageSize)
<1>1. /\ step[s] = "walking" /\ UNCHANGED <<bounds, listing, stored, cache, opt, found, breaks>>
      /\ step' = [step EXCEPT ![s] = "compare"] /\ page' = [page EXCEPT ![s] = next]
      /\ pages' = [pages EXCEPT ![s] = @ + 1]
      /\ since' = IF token[s] = None THEN [since EXCEPT ![s] = top] ELSE since
    BY DEF Fetch
<1>2. PICK t : After(rest, next, t) /\ token' = [token EXCEPT ![s] = t]
    BY DEF Fetch
<1>3. /\ TypeOK /\ Placed /\ place \in [Items -> Nat] /\ top \in Nat /\ since[s] \in Nat
      /\ token[s] \in Nat \cup {None} /\ pages[s] \in Nat /\ found[s] \subseteq Items
      /\ remote \subseteq Items /\ PageSize \in Nat /\ None \notin Nat
    BY CollectionAssumption DEF IInv, TypeOK
<1>4. /\ rest \subseteq remote /\ \A j \in rest : token[s] # None => place[j] < token[s]
      /\ \A j \in remote : token[s] = None \/ place[j] < token[s] => j \in rest
    BY DEF Below
<1>5. /\ next \subseteq rest /\ t \in Nat /\ \A j \in next : t <= place[j]
      /\ \A j \in rest : t <= place[j] => j \in next
      /\ t # End => /\ PageSize <= Cardinality(next)
                    /\ \E last \in next : t = place[last]
    BY <1>2, <1>3, <1>4, NewestFacts, AfterFacts
<1> HIDE DEF rest, next
<1>6. /\ step'[s] = "compare" /\ page'[s] = next /\ pages'[s] = pages[s] + 1 /\ token'[s] = t
      /\ found'[s] = found[s] /\ opt'[s] = opt[s] /\ since'[s] \in Nat
      /\ since'[s] = IF token[s] = None THEN top ELSE since[s]
    BY <1>1, <1>2, <1>3 DEF IInv, TypeOK
<1>7. UNCHANGED <<removals, remote, place, top, stored, breaks>>
    BY <1>1 DEF bounds, listing
<1>8. TypeOK'
    <2>1. next \subseteq Items
        BY <1>3, <1>4, <1>5
    <2>2. /\ step' \in [Syncs -> Steps] /\ page' \in [Syncs -> SUBSET Items]
          /\ pages' \in [Syncs -> Nat] /\ token' \in [Syncs -> Nat \cup {None}]
          /\ since' \in [Syncs -> Nat]
        BY <1>1, <1>2, <1>3, <1>5, <2>1 DEF TypeOK
    <2> QED BY <1>1, <1>3, <2>2 DEF TypeOK, bounds, listing
<1>9. \A q \in Syncs \ {s} : Same(q)
    BY <1>1, <1>2 DEF Same, IInv, TypeOK
<1>10. /\ token[s] = None => found[s] = {} /\ pages[s] = 0
       /\ token[s] # None =>
             /\ token[s] <= since[s]
             /\ \A j \in remote : token[s] <= place[j] /\ place[j] <= since[s] => j \in Local(s)
             /\ \A i \in found[s] :
                   token[s] <= place[i] /\ (place[i] <= since[s] \/ place[i] \in breaks)
       /\ page[s] = {} /\ opt[s].mode # "bird"
    BY <1>1 DEF IInv, SyncOK, WalkOK, Known, Rested
<1>11. \A j \in Items : place[j] \in Nat /\ place[j] <= top
    BY <1>3 DEF Placed
<1>12. \A k \in next : k \in Items /\ place[k] <= since'[s]
    <2>1. CASE token[s] = None
        BY <1>3, <1>4, <1>5, <1>6, <1>11, <2>1
    <2>2. CASE token[s] # None
        <3>1. \A k \in next : k \in Items /\ place[k] < token[s]
            BY <1>3, <1>4, <1>5, <2>2
        <3> QED BY <1>3, <1>6, <1>10, <1>11, <2>2, <3>1
    <2> QED BY <2>1, <2>2
<1>13. t <= since'[s] /\ (token[s] # None => t <= token[s])
    <2>1. CASE t = End
        BY <1>3, <1>6, <2>1
    <2>2. CASE t # End
        <3>1. PICK last \in next : t = place[last]
            BY <1>5, <2>2
        <3>2. t <= since'[s]
            BY <1>12, <3>1
        <3>3. token[s] # None => t < token[s]
            BY <1>4, <1>5, <3>1
        <3> QED BY <1>3, <1>5, <3>2, <3>3
    <2> QED BY <2>1, <2>2
<1>14. WalkOK(s)'
    <2>1. \A j \in remote : t <= place[j] /\ place[j] <= since'[s] => j \in Known(s)'
        <3> SUFFICES ASSUME NEW j \in remote, t <= place[j], place[j] <= since'[s]
                     PROVE  j \in next \cup Local(s)
            BY <1>6, <1>7 DEF Known, Local
        <3>1. CASE j \in rest
            BY <1>5, <3>1
        <3>2. CASE j \notin rest
            <4>1. token[s] # None /\ ~ place[j] < token[s]
                BY <1>4, <3>2
            <4> QED BY <1>3, <1>6, <1>10, <1>11, <4>1
        <3> QED BY <3>1, <3>2
    <2>2. ASSUME NEW i \in found[s] \cup next
          PROVE  t <= place[i] /\ (place[i] <= since'[s] \/ place[i] \in breaks)
        <3>1. CASE i \in next
            BY <1>5, <1>12, <3>1
        <3>2. CASE i \in found[s]
            <4>1. token[s] # None /\ token[s] \in Nat
                BY <1>3, <1>10, <3>2
            <4>2. token[s] <= place[i] /\ (place[i] <= since[s] \/ place[i] \in breaks)
                  /\ place[i] \in Nat
                BY <1>3, <1>10, <1>11, <3>2, <4>1
            <4> QED BY <1>5, <1>6, <1>13, <4>1, <4>2
        <3> QED BY <3>1, <3>2
    <2>3. ASSUME NEW k \in next, NEW i \in found[s] PROVE place[k] <= place[i]
        <3>1. token[s] # None /\ token[s] \in Nat
            BY <1>3, <1>10
        <3>2. place[k] < token[s] /\ token[s] <= place[i] /\ place[i] \in Nat /\ place[k] \in Nat
            BY <1>3, <1>4, <1>5, <1>10, <1>11, <3>1
        <3> QED BY <3>1, <3>2
    <2>4. \A k \in page'[s] : /\ Within(s, k, since[s])'
                              /\ \A i \in found'[s] : Within(s, k, place[i])'
        BY <1>6, <1>7, <1>12, <2>3 DEF Within
    <2>5. t # None
        BY <1>3, <1>5
    <2> QED BY <1>6, <1>7, <1>13, <2>1, <2>2, <2>4, <2>5 DEF WalkOK
<1>15. SyncOK(s)' /\ Rested(s)'
    BY <1>6, <1>10, <1>14 DEF SyncOK, WriteOK, SyncedOK, Rested
<1>16. PlacedOf(s)'
    <2>1. /\ since[s] <= top /\ \A i \in found[s] : place[i] # 0
          /\ \A i \in next : place[i] # 0
        BY <1>3, <1>4, <1>5 DEF Placed, PlacedOf
    <2> QED BY <1>3, <1>6, <1>7, <2>1 DEF PlacedOf
<1>17. ASSUME removals = 0 PROVE CountedOf(s)'
    <2> SUFFICES ASSUME t # End PROVE Fills(t, pages[s] + 1)
        BY <1>6, <1>7 DEF CountedOf, Fills, From
    <2>1. /\ next \subseteq From(t) /\ From(t) \subseteq Items
          /\ PageSize <= Cardinality(next)
        BY <1>3, <1>4, <1>5, <1>11 DEF From
    <2>2. CASE token[s] = None
        <3>1. (pages[s] + 1) * PageSize = PageSize
            BY <1>3, <1>10, <2>2
        <3> QED BY <1>3, <2>1, <3>1, ItemsCount DEF Fills
    <2>3. CASE token[s] # None
        <3>1. Fills(token[s], pages[s])
            <4>1. token[s] # End
                <5>1. PICK last \in next : t = place[last]
                    BY <1>5
                <5>2. place[last] < token[s] /\ place[last] \in Nat
                    BY <1>3, <1>4, <1>5, <1>11, <2>3, <5>1
                <5> QED BY <1>3, <5>2
            <4> QED BY <1>1, <1>17, <2>3, <4>1 DEF IInv, Counted, CountedOf
        <3>2. From(token[s]) \cup next \subseteq From(t) /\ From(token[s]) \cap next = {}
              /\ From(token[s]) \subseteq Items /\ next \subseteq Items
            <4>1. ASSUME NEW j \in From(token[s]) PROVE j \in From(t) /\ j \notin next
                <5>1. j \in remote /\ place[j] >= token[s] /\ place[j] \in Nat
                    BY <1>3, <1>11 DEF From
                <5> QED BY <1>3, <1>4, <1>5, <1>13, <2>3, <5>1 DEF From
            <4> QED BY <1>3, <2>1, <4>1 DEF From
        <3>3. Cardinality(From(token[s])) + Cardinality(next) <= Cardinality(From(t))
            BY <2>1, <3>2, PartsCount
        <3>4. (pages[s] + 1) * PageSize = pages[s] * PageSize + PageSize
              /\ pages[s] * PageSize \in Nat
            BY <1>3, OneMorePage
        <3>5. /\ Cardinality(From(token[s])) \in Nat /\ Cardinality(next) \in Nat
              /\ Cardinality(From(t)) \in Nat
            BY <2>1, <3>2, ItemsCount
        <3>6. pages[s] * PageSize <= Cardinality(From(token[s]))
            BY <3>1 DEF Fills
        <3>7. pages[s] * PageSize + PageSize <= Cardinality(From(t))
            BY <1>3, <2>1, <3>3, <3>4, <3>5, <3>6
        <3> QED BY <3>4, <3>7 DEF Fills
    <2> QED BY <2>2, <2>3
<1>18. NoGap' /\ \A i \in stored' : place[i] # 0
    BY <1>3, <1>7, NoGapStays DEF IInv, Placed
<1>19. removals = 0 => CountedOf(s)' /\ \A c \in breaks' : Fills(c, Window)
    BY <1>7, <1>17 DEF IInv, Counted
<1> QED BY <1>1, <1>7, <1>8, <1>9, <1>15, <1>16, <1>18, <1>19, OneSync DEF listing

(* A page is compared: what is left out of the answer is local. A walk     *)
(* that ends there can only break off at its token, or where the store     *)
(* does.                                                                   *)
LEMMA CompareStep ==
    ASSUME IInv, NEW s \in Syncs, Compare(s)
    PROVE  IInv'
<1> DEFINE t == token[s]
           ends == t = End \/ Saturated(s) \/ Limited(s)
           grown == IF Saturated(s) THEN found[s] ELSE found[s] \cup Kept(s)
<1>1. /\ step[s] = "compare" /\ UNCHANGED <<bounds, listing, stored, cache, opt, pages, since, breaks>>
      /\ page' = [page EXCEPT ![s] = {}] /\ found' = [found EXCEPT ![s] = grown]
      /\ token' = IF Saturated(s) THEN [token EXCEPT ![s] = End] ELSE token
      /\ step' = [step EXCEPT ![s] = IF ends THEN "writing" ELSE "walking"]
    <2>1. found' = [found EXCEPT ![s] = IF Saturated(s) THEN @ ELSE @ \cup Kept(s)]
        BY DEF Compare
    <2>2. found' = [found EXCEPT ![s] = grown]
        BY <2>1 DEF IInv, TypeOK
    <2> QED BY <2>2 DEF Compare
<1>2. /\ TypeOK /\ Placed /\ NoGap /\ place \in [Items -> Nat] /\ since[s] \in Nat
      /\ t \in Nat \cup {None} /\ pages[s] \in Nat /\ None \notin Nat
      /\ page[s] \subseteq Items /\ found[s] \subseteq Items /\ remote \subseteq Items
      /\ stored \subseteq Items /\ breaks \subseteq Nat /\ opt[s] \in Options
    BY CollectionAssumption DEF IInv, TypeOK
<1>3. /\ grown \subseteq found[s] \cup page[s] /\ found[s] \subseteq grown
      /\ page[s] \subseteq grown \cup stored
      /\ Saturated(s) => grown = found[s] /\ page[s] # {} /\ page[s] \subseteq stored
    BY DEF Kept, Saturated
<1> HIDE DEF ends, grown
<1>4. /\ page'[s] = {} /\ found'[s] = grown /\ pages'[s] = pages[s] /\ opt'[s] = opt[s]
      /\ since'[s] = since[s] /\ token'[s] = IF Saturated(s) THEN End ELSE t
      /\ step'[s] = IF ends THEN "writing" ELSE "walking"
    BY <1>1, <1>2 DEF TypeOK
<1>5. UNCHANGED <<removals, remote, place, top, stored, breaks>>
    BY <1>1 DEF bounds, listing
<1>6. TypeOK'
    <2>1. grown \subseteq Items
        BY <1>2, <1>3
    <2>2. /\ step' \in [Syncs -> Steps] /\ page' \in [Syncs -> SUBSET Items]
          /\ found' \in [Syncs -> SUBSET Items] /\ token' \in [Syncs -> Nat \cup {None}]
        BY <1>1, <1>2, <2>1 DEF TypeOK
    <2> QED BY <1>1, <1>2, <2>2 DEF TypeOK, bounds, listing
<1>7. \A q \in Syncs \ {s} : Same(q)
    BY <1>1 DEF Same, IInv, TypeOK
<1>8. /\ t \in Nat /\ t <= since[s]
      /\ \A j \in remote : t <= place[j] /\ place[j] <= since[s] => j \in Known(s)
      /\ \A i \in found[s] \cup page[s] :
            t <= place[i] /\ (place[i] <= since[s] \/ place[i] \in breaks)
      /\ \A k \in page[s] : /\ Within(s, k, since[s])
                            /\ \A i \in found[s] : Within(s, k, place[i])
      /\ opt[s].mode # "bird"
    BY <1>1, <1>2 DEF IInv, SyncOK, WalkOK, Rested
<1>9. \A j \in remote : t <= place[j] /\ place[j] <= since[s] => j \in grown \cup stored
    BY <1>3, <1>8 DEF Known, Local
<1>10. \A i \in grown : i \in Items /\ place[i] \in Nat /\ t <= place[i]
                        /\ (place[i] <= since[s] \/ place[i] \in breaks)
    BY <1>2, <1>3, <1>8
<1>11. ASSUME ~ ends PROVE WalkOK(s)'
    <2>1. ~ Saturated(s)
        BY <1>11 DEF ends
    <2>2. token'[s] = t /\ token'[s] # None
        BY <1>2, <1>4, <1>8, <2>1
    <2> QED BY <1>4, <1>5, <1>8, <1>9, <1>10, <2>2 DEF WalkOK, Known, Local
<1>12. ASSUME ends, NEW j \in remote, j \notin grown \cup stored, NEW u \in Nat, place[j] < u,
              t <= u, Saturated(s) => \A k \in page[s] : Within(s, k, u),
              place[j] < t \/ Broken(place[j], u)
       PROVE  Broken(place[j], u) \/ (place[j] < token'[s] /\ token'[s] <= u)
    <2>1. place[j] \in Nat
        BY <1>2
    <2>2. CASE place[j] < t /\ ~ Saturated(s)
        BY <1>4, <1>12, <2>2
    <2>3. CASE place[j] < t /\ Saturated(s)
        <3>1. PICK k \in page[s] : k \in stored
            BY <1>3, <2>3
        <3>2. place[k] \in Nat /\ t <= place[k] /\ Within(s, k, u)
            BY <1>2, <1>8, <1>12, <2>3, <3>1
        <3>3. PICK b \in breaks : place[j] < b /\ b <= place[k]
            BY <1>2, <1>8, <1>12, <2>1, <2>3, <3>1, <3>2 DEF NoGap, Broken
        <3>4. CASE place[k] <= u
            <4>1. b \in Nat /\ b <= u
                BY <1>2, <1>12, <3>2, <3>3, <3>4
            <4> QED BY <3>3, <4>1 DEF Broken
        <3>5. CASE ~ place[k] <= u
            <4>1. PICK c \in breaks : t <= c /\ c <= u
                BY <3>2, <3>5 DEF Within
            <4>2. c \in Nat /\ t \in Nat /\ place[j] < t
                BY <1>2, <1>8, <2>3
            <4>3. place[j] < c /\ c <= u
                BY <2>1, <4>1, <4>2
            <4> QED BY <4>3 DEF Broken
        <3> QED BY <3>4, <3>5
    <2> QED BY <1>12, <2>2, <2>3
<1>13. ASSUME ends PROVE WriteOK(s)'
    <2> SUFFICES ASSUME NEW j \in remote, j \notin grown \cup stored
                 PROVE  /\ place[j] <= since[s] =>
                              Broken(place[j], since[s])
                              \/ (place[j] < token'[s] /\ token'[s] <= since[s])
                        /\ \A i \in grown : place[j] < place[i] =>
                              Broken(place[j], place[i])
                              \/ (place[j] < token'[s] /\ token'[s] <= place[i])
        BY <1>4, <1>5, <1>8 DEF WriteOK, Local, Ends, Broken
    <2>1. place[j] \in Nat
        BY <1>2
    <2>2. place[j] <= since[s] => place[j] < t /\ place[j] < since[s]
        BY <1>2, <1>8, <1>9, <2>1
    <2>3. Saturated(s) => \A k \in page[s] : Within(s, k, since[s])
        BY <1>8
    <2>4. ASSUME place[j] <= since[s]
          PROVE  Broken(place[j], since[s]) \/ (place[j] < token'[s] /\ token'[s] <= since[s])
        BY <1>2, <1>8, <1>12, <1>13, <2>2, <2>3, <2>4
    <2>5. ASSUME NEW i \in grown, place[j] < place[i]
          PROVE  Broken(place[j], place[i]) \/ (place[j] < token'[s] /\ token'[s] <= place[i])
        <3>1. place[i] \in Nat /\ t <= place[i]
              /\ (place[i] <= since[s] \/ place[i] \in breaks)
            BY <1>10
        <3>2. Saturated(s) => \A k \in page[s] : Within(s, k, place[i])
            BY <1>3, <1>8
        <3>3. place[j] < t \/ Broken(place[j], place[i])
            <4>1. CASE place[j] <= since[s]
                BY <2>2, <4>1
            <4>2. CASE ~ place[j] <= since[s]
                <5>1. place[i] \in breaks
                    BY <1>2, <2>1, <2>5, <3>1, <4>2
                <5> QED BY <2>5, <3>1, <5>1 DEF Broken
            <4> QED BY <4>1, <4>2
        <3> QED BY <1>12, <1>13, <2>5, <3>1, <3>2, <3>3
    <2> QED BY <2>4, <2>5
<1>14. SyncOK(s)' /\ Rested(s)'
    <2>1. WalkOK(s)' /\ WriteOK(s)' /\ SyncedOK(s)'
        <3>1. CASE ends
            BY <1>4, <1>13, <3>1 DEF WalkOK, SyncedOK
        <3>2. CASE ~ ends
            BY <1>4, <1>11, <3>2 DEF WriteOK, SyncedOK
        <3> QED BY <3>1, <3>2
    <2> QED BY <1>4, <1>8, <2>1 DEF SyncOK, Rested
<1>15. PlacedOf(s)'
    BY <1>2, <1>3, <1>4, <1>5 DEF Placed, PlacedOf
<1>16. ASSUME removals = 0 PROVE CountedOf(s)'
    <2> SUFFICES ASSUME token'[s] \notin {None, End}
                 PROVE  /\ ~ ends => Fills(t, pages[s])
                        /\ ends => Fills(t, Window)
        BY <1>4, <1>5 DEF CountedOf, Fills, From
    <2>1. ~ Saturated(s) /\ t \notin {None, End}
        BY <1>4
    <2>2. Fills(t, pages[s])
        BY <1>1, <1>16, <2>1 DEF IInv, Counted, CountedOf
    <2>3. ASSUME ends PROVE Fills(t, Window)
        <3>1. Limited(s)
            BY <2>1, <2>3 DEF ends
        <3>2. Window \in Nat /\ Limit(opt[s]) \in Nat /\ Window <= pages[s]
            <4>1. Limit(opt[s]) # None /\ pages[s] >= Limit(opt[s])
                BY <3>1 DEF Limited
            <4>2. Limit(opt[s]) \in Nat
                BY <1>2, <4>1, CollectionAssumption DEF Limit, MaxPages
            <4>3. Window \in Nat /\ Limit(opt[s]) >= Window
                BY <1>2, <1>8, <4>1, WindowAssumption DEF Reaches
            <4> QED BY <1>2, <4>1, <4>2, <4>3
        <3>3. Window * PageSize <= pages[s] * PageSize /\ Window * PageSize \in Nat
              /\ pages[s] * PageSize \in Nat
            BY <1>2, <3>2, PagesGrow, OneMorePage
        <3>4. pages[s] * PageSize <= Cardinality(From(t)) /\ Cardinality(From(t)) \in Nat
            <4>1. From(t) \subseteq Items
                BY <1>2 DEF From
            <4> QED BY <2>2, <4>1, ItemsCount DEF Fills
        <3> QED BY <3>3, <3>4 DEF Fills
    <2> QED BY <2>2, <2>3
<1>17. NoGap' /\ \A i \in stored' : place[i] # 0
    BY <1>2, <1>5, NoGapStays DEF Placed
<1>18. removals = 0 => CountedOf(s)' /\ \A c \in breaks' : Fills(c, Window)
    BY <1>5, <1>16 DEF IInv, Counted
<1> QED BY <1>1, <1>5, <1>6, <1>7, <1>14, <1>15, <1>17, <1>18, OneSync DEF listing

(* Bird answers in place of the pages; its answer breaks off where it ends. *)
LEMMA BirdStep ==
    ASSUME IInv, NEW s \in Syncs, Bird(s)
    PROVE  IInv'
<1> DEFINE limit == BirdLimit(opt[s])
           n == limit * PageSize
           answer == IF limit = None THEN remote ELSE Newest(remote, n)
<1>1. /\ step[s] = "bird" /\ UNCHANGED <<bounds, listing, stored, cache, opt, pages, page, breaks>>
      /\ step' = [step EXCEPT ![s] = "writing"] /\ found' = [found EXCEPT ![s] = answer]
      /\ since' = [since EXCEPT ![s] = top]
    BY DEF Bird
<1>2. PICK t : After(remote, answer, t) /\ token' = [token EXCEPT ![s] = t]
    BY DEF Bird
<1>3. /\ TypeOK /\ Placed /\ top \in Nat /\ remote \subseteq Items /\ opt[s] \in Options
      /\ None \notin Nat /\ PageSize \in Nat /\ page[s] = {} /\ pages[s] = 0
      /\ \A j \in Items : place[j] \in Nat /\ place[j] <= top
    BY <1>1, CollectionAssumption DEF IInv, TypeOK, Placed, Rested
<1>4. limit # None => /\ limit \in Nat /\ n \in Nat /\ Window \in Nat /\ Window <= limit
    <2> SUFFICES ASSUME limit # None
                 PROVE  limit \in Nat /\ n \in Nat /\ Window \in Nat /\ Window <= limit
        OBVIOUS
    <2>1. limit \in Nat
        BY <1>3, CollectionAssumption DEF BirdLimit
    <2>2. opt[s].mode # "xurl"
        BY <1>1 DEF IInv, Rested
    <2>3. Window \in Nat /\ limit >= Window
        BY <1>3, <2>2, WindowAssumption DEF Reaches
    <2> HIDE DEF limit
    <2> QED BY <2>1, <2>3, OneMorePage
<1> HIDE DEF limit, n
<1>5. /\ answer \subseteq remote /\ t \in Nat /\ \A j \in answer : t <= place[j]
      /\ \A j \in remote : t <= place[j] => j \in answer
      /\ t # End => /\ limit # None /\ n <= Cardinality(answer)
                    /\ \E last \in answer : t = place[last]
    <2>1. CASE limit = None
        BY <1>2, <1>3, <2>1 DEF After
    <2>2. CASE limit # None
        <3>1. answer = Newest(remote, n) /\ n \in Nat
            BY <1>4, <2>2
        <3> QED BY <1>2, <1>3, <2>2, <3>1, NewestFacts, AfterFacts
    <2> QED BY <2>1, <2>2
<1> HIDE DEF answer
<1>6. /\ step'[s] = "writing" /\ found'[s] = answer /\ since'[s] = top /\ token'[s] = t
      /\ page'[s] = {} /\ opt'[s] = opt[s]
    BY <1>1, <1>2, <1>3 DEF TypeOK
<1>7. UNCHANGED <<removals, remote, place, top, stored, breaks>>
    BY <1>1 DEF bounds, listing
<1>8. TypeOK'
    <2>1. answer \subseteq Items
        BY <1>3, <1>5
    <2>2. /\ step' \in [Syncs -> Steps] /\ found' \in [Syncs -> SUBSET Items]
          /\ token' \in [Syncs -> Nat \cup {None}] /\ since' \in [Syncs -> Nat]
        BY <1>1, <1>2, <1>3, <1>5, <2>1 DEF TypeOK
    <2> QED BY <1>1, <1>3, <2>2 DEF TypeOK, bounds, listing
<1>9. \A q \in Syncs \ {s} : Same(q)
    BY <1>1, <1>2 DEF Same, IInv, TypeOK
<1>10. t <= top
    BY <1>3, <1>5
<1>11. WriteOK(s)'
    <2>1. \A j \in remote : j \notin answer => place[j] < t
        BY <1>3, <1>5
    <2> QED BY <1>5, <1>6, <1>7, <1>10, <2>1 DEF WriteOK, Local, Ends
<1>12. SyncOK(s)' /\ Rested(s)'
    BY <1>6, <1>11 DEF SyncOK, WalkOK, SyncedOK, Rested
<1>13. PlacedOf(s)'
    BY <1>3, <1>5, <1>6, <1>7 DEF Placed, PlacedOf
<1>14. ASSUME removals = 0 PROVE CountedOf(s)'
    <2> SUFFICES ASSUME t # End PROVE Fills(t, Window)
        BY <1>6, <1>7 DEF CountedOf, Fills, From
    <2>1. answer \subseteq From(t) /\ From(t) \subseteq Items
        BY <1>3, <1>5 DEF From
    <2>2. /\ Cardinality(answer) <= Cardinality(From(t))
          /\ Cardinality(answer) \in Nat /\ Cardinality(From(t)) \in Nat
        BY <2>1, ItemsCount
    <2>3. Window * PageSize <= n /\ Window * PageSize \in Nat /\ n \in Nat
        BY <1>4, <1>5, PagesGrow DEF n
    <2> QED BY <1>5, <2>2, <2>3 DEF Fills
<1>15. NoGap' /\ \A i \in stored' : place[i] # 0
    BY <1>3, <1>7, NoGapStays DEF IInv, Placed
<1>16. removals = 0 => CountedOf(s)' /\ \A c \in breaks' : Fills(c, Window)
    BY <1>7, <1>14 DEF IInv, Counted
<1> QED BY <1>1, <1>7, <1>8, <1>9, <1>12, <1>13, <1>15, <1>16, OneSync DEF listing

(* The end of a sync: how it ends is left to the caller.                   *)
LEMMA FinishFacts ==
    ASSUME TypeOK, NEW s \in Syncs, NEW how \in Steps, Finish(s, how)
    PROVE  /\ step'[s] = how /\ token'[s] = None /\ pages'[s] = 0 /\ page'[s] = {}
           /\ found'[s] = {} /\ since'[s] = IF how = "synced" THEN since[s] ELSE 0
           /\ \A q \in Syncs \ {s} : Same(q)
           /\ step' \in [Syncs -> Steps] /\ opt' \in [Syncs -> Options]
           /\ token' \in [Syncs -> Nat \cup {None}] /\ pages' \in [Syncs -> Nat]
           /\ page' \in [Syncs -> SUBSET Items] /\ found' \in [Syncs -> SUBSET Items]
           /\ since' \in [Syncs -> Nat]
BY AnOption DEF Finish, Same, TypeOK

(* A failure that ends a sync or hands it over to bird.                    *)
LEMMA FailureStep ==
    ASSUME IInv, NEW s \in Syncs, PageFails(s) \/ Fails(s)
    PROVE  IInv'
<1>1. UNCHANGED <<now, removals, listing, stored, cache, breaks>> /\ failures' \in Nat
    BY DEF PageFails, Fails, IInv, TypeOK
<1>2. /\ \/ step'[s] = "bird" /\ opt'[s].mode # "xurl"
         \/ step'[s] = "idle"
      /\ token'[s] = None /\ pages'[s] = 0 /\ page'[s] = {} /\ found'[s] = {} /\ since'[s] = 0
      /\ \A q \in Syncs \ {s} : Same(q)
      /\ step' \in [Syncs -> Steps] /\ opt' \in [Syncs -> Options]
      /\ token' \in [Syncs -> Nat \cup {None}] /\ pages' \in [Syncs -> Nat]
      /\ page' \in [Syncs -> SUBSET Items] /\ found' \in [Syncs -> SUBSET Items]
      /\ since' \in [Syncs -> Nat]
    <2>1. CASE Finish(s, "idle")
        BY <2>1, FinishFacts DEF IInv
    <2>2. CASE ~ Finish(s, "idle")
        BY <2>2 DEF PageFails, Fails, Same, IInv, TypeOK
    <2> QED BY <2>1, <2>2
<1>3. TypeOK'
    BY <1>1, <1>2 DEF IInv, TypeOK, listing
<1>4. UNCHANGED <<remote, place, top>>
    BY <1>1 DEF listing
<1>5. SyncOK(s)' /\ Rested(s)' /\ PlacedOf(s)' /\ CountedOf(s)'
    <2>1. SyncedOK(s)' /\ since'[s] <= top' /\ step'[s] \in {"idle", "walking", "bird", "synced"}
          /\ step'[s] # "walking"
        BY <1>2, <1>4 DEF SyncedOK, IInv, TypeOK
    <2> QED BY <1>2, <2>1, AtRest
<1>6. NoGap' /\ \A i \in stored' : place[i] # 0
    BY <1>1, <1>4, NoGapStays DEF IInv, Placed
<1>7. removals = 0 => CountedOf(s)' /\ \A c \in breaks' : Fills(c, Window)
    BY <1>1, <1>5 DEF IInv, Counted
<1> QED BY <1>1, <1>2, <1>3, <1>5, <1>6, <1>7, OneSync

(* What was found is stored: the new breaks are where the answer ended.    *)
LEMMA WriteStep ==
    ASSUME IInv, NEW s \in Syncs, Write(s)
    PROVE  IInv'
<1>1. /\ step[s] = "writing" /\ Finish(s, "synced") /\ UNCHANGED <<bounds, listing>>
      /\ stored' = stored \cup found[s] /\ breaks' = breaks \cup ({token[s]} \ {End})
    BY DEF Write
<1>2. UNCHANGED <<now, failures, removals, remote, place, top>>
    BY <1>1 DEF bounds, listing
<1>3. TypeOK /\ Placed /\ NoGap /\ WriteOK(s) /\ found[s] \subseteq Items /\ opt[s] \in Options
      /\ token[s] \in Nat /\ \A j \in Items : place[j] \in Nat
    BY <1>1 DEF IInv, TypeOK, SyncOK, WriteOK
<1>4. TypeOK'
    <2>1. cache' \in [Keys -> [items : SUBSET Items, at : Nat] \cup {None}]
        <3>1. [items |-> found[s], at |-> now] \in [items : SUBSET Items, at : Nat]
            BY <1>3 DEF TypeOK
        <3>2. cache' = [cache EXCEPT ![Key(opt[s])] = [items |-> found[s], at |-> now]]
            BY DEF Write
        <3> QED BY <1>3, <3>1, <3>2 DEF TypeOK
    <2>2. stored' \subseteq Items /\ breaks' \subseteq Nat
        BY <1>1, <1>3 DEF TypeOK
    <2> QED BY <1>1, <1>2, <1>3, <2>1, <2>2, FinishFacts DEF TypeOK
<1>5. \A lo, hi \in Nat : Ends(s, lo, hi) => \E c \in breaks' : lo < c /\ c <= hi
    <2> SUFFICES ASSUME NEW lo \in Nat, NEW hi \in Nat, Ends(s, lo, hi)
                 PROVE  \E c \in breaks' : lo < c /\ c <= hi
        OBVIOUS
    <2>1. CASE Broken(lo, hi)
        BY <1>1, <2>1 DEF Broken
    <2>2. CASE lo < token[s] /\ token[s] <= hi
        BY <1>1, <1>3, <2>2
    <2> QED BY <2>1, <2>2 DEF Ends
<1>6. NoGap'
    <2> SUFFICES ASSUME NEW i \in stored', NEW j \in remote \ stored', place[j] < place[i]
                 PROVE  \E c \in breaks' : place[j] < c /\ c <= place[i]
        BY <1>2 DEF NoGap, Broken
    <2>1. j \in remote \ Local(s) /\ j \in remote \ stored /\ place[j] \in Nat
          /\ place[i] \in Nat
        BY <1>1, <1>3 DEF Local, TypeOK
    <2>2. CASE i \in stored
        BY <1>1, <1>3, <2>1, <2>2 DEF NoGap, Broken
    <2>3. CASE i \in found[s]
        BY <1>1, <1>3, <1>5, <2>1, <2>3 DEF WriteOK
    <2> QED BY <1>1, <2>2, <2>3
<1>7. SyncedOK(s)'
    <2> SUFFICES ASSUME NEW j \in remote \ stored', place[j] <= since[s]
                 PROVE  \E c \in breaks' : place[j] < c /\ c <= since[s]
        BY <1>1, <1>2, FinishFacts, <1>3 DEF SyncedOK, Broken
    <2>1. j \in remote \ Local(s) /\ place[j] \in Nat /\ since[s] \in Nat
        BY <1>1, <1>3 DEF Local, TypeOK
    <2> QED BY <1>1, <1>3, <1>5, <2>1 DEF WriteOK
<1>8. SyncOK(s)' /\ Rested(s)' /\ PlacedOf(s)' /\ CountedOf(s)'
    <2>1. /\ step'[s] = "synced" /\ token'[s] = None /\ pages'[s] = 0 /\ page'[s] = {}
          /\ found'[s] = {} /\ since'[s] = since[s]
        BY <1>1, <1>3, FinishFacts
    <2>2. since'[s] <= top'
        BY <1>2, <1>3, <2>1 DEF Placed, PlacedOf
    <2> QED BY <1>7, <2>1, <2>2, AtRest
<1>9. \A i \in stored' : place[i] # 0
    BY <1>1, <1>3 DEF Placed, PlacedOf
<1>10. ASSUME removals = 0 PROVE \A c \in breaks' : Fills(c, Window)
    <2>1. /\ \A c \in breaks : Fills(c, Window)
          /\ token[s] # End => Fills(token[s], Window)
        BY <1>1, <1>3, <1>10, CollectionAssumption DEF IInv, Counted, CountedOf
    <2> QED BY <1>1, <2>1
<1>11. \A q \in Syncs \ {s} : Same(q)
    BY <1>1, <1>3, FinishFacts
<1> QED BY <1>1, <1>2, <1>4, <1>6, <1>8, <1>9, <1>10, <1>11, OneSync

(* Every step keeps the invariant. *)
LEMMA NextIInv == IInv /\ [Next]_vars => IInv'
<1> SUFFICES ASSUME IInv, [Next]_vars PROVE IInv'
    OBVIOUS
<1>1. CASE Tick \/ UNCHANGED vars
    BY <1>1, TickStep
<1>2. CASE Crash
    BY <1>2, CrashStep
<1>3. ASSUME NEW i \in Items, Add(i) \/ Remove(i) PROVE IInv'
    BY <1>3, AddStep, RemoveStep
<1>4. ASSUME NEW s \in Syncs, NEW o \in Options, Start(s, o) PROVE IInv'
    BY <1>4, StartStep
<1>5. ASSUME NEW s \in Syncs,
             Fetch(s) \/ Compare(s) \/ PageFails(s) \/ Bird(s) \/ Write(s) \/ Fails(s)
      PROVE  IInv'
    BY <1>5, FetchStep, CompareStep, FailureStep, BirdStep, WriteStep
<1> QED BY <1>1, <1>2, <1>3, <1>4, <1>5 DEF Next

(* The invariant of the walks holds in every reachable state. *)
THEOREM IInvHolds == Spec => []IInv
BY InitIInv, NextIInv, PTL DEF Spec

(* The state of the syncs has its types for all parameters.                *)
THEOREM CollectionTypes == Spec => []TypeOK
<1>1. IInv => TypeOK
    BY DEF IInv
<1> QED BY <1>1, IInvHolds, PTL

(* While nothing is removed every break lies below the window, and what    *)
(* is not local lies below a break.                                        *)
LEMMA WindowFollows == IInv => WindowIsLocal
<1> SUFFICES ASSUME IInv, removals = 0, NEW s \in Syncs, NEW j \in remote,
                    step[s] = "synced", place[j] <= since[s],
                    Cardinality({k \in remote : place[k] > place[j]}) < Window * PageSize,
                    j \notin stored
             PROVE  FALSE
    BY DEF WindowIsLocal
<1> DEFINE newer == {k \in remote : place[k] > place[j]}
<1>1. PICK c \in breaks : place[j] < c /\ c <= since[s]
    BY DEF IInv, SyncOK, SyncedOK, Broken
<1>2. Window * PageSize <= Cardinality(From(c))
    BY <1>1 DEF IInv, Counted, Fills
<1>3. From(c) \subseteq newer /\ newer \subseteq Items
    <2>1. c \in Nat /\ remote \subseteq Items /\ \A k \in remote : place[k] \in Nat
        BY DEF IInv, TypeOK
    <2> QED BY <1>1, <2>1 DEF From
<1>4. Cardinality(newer) < Window * PageSize
    OBVIOUS
<1> HIDE DEF newer
<1>5. Cardinality(From(c)) <= Cardinality(newer) /\ Cardinality(From(c)) \in Nat
      /\ Cardinality(newer) \in Nat
    BY <1>3, ItemsCount
<1>6. Window * PageSize \in Nat
    BY OneMorePage, WindowAssumption
<1> QED BY <1>2, <1>4, <1>5, <1>6

(* What is local has no gap but at a break, a sync has stored what it was  *)
(* answered for down to the first break, and on a stable account the       *)
(* window is local: with any mixture of options, syncs side by side,       *)
(* failures, crashes, and items that come, go and come back.               *)
THEOREM EarlyStopHolds == Spec => []EarlyStopIsSound
<1>1. IInv => NoGap /\ SyncCovers
    BY DEF IInv, SyncCovers, SyncOK, SyncedOK
<1>2. IInv => EarlyStopIsSound
    BY <1>1, WindowFollows DEF EarlyStopIsSound
<1> QED BY <1>2, IInvHolds, PTL

(* The cache holds only what is stored, whichever writes fail.             *)
THEOREM CacheIsStoredHolds == Spec => []CacheIsStored
<1>1. Init => CacheIsStored
    BY DEF Init, CacheIsStored
<1>2. IInv /\ CacheIsStored /\ [Next]_vars => CacheIsStored'
    <2> SUFFICES ASSUME IInv, CacheIsStored, [Next]_vars PROVE CacheIsStored'
        OBVIOUS
    <2>1. ASSUME NEW s \in Syncs, Write(s) PROVE CacheIsStored'
        <3>1. stored' = stored \cup found[s] /\ found[s] \subseteq Items
              /\ cache' = [cache EXCEPT ![Key(opt[s])] = [items |-> found[s], at |-> now]]
            BY <2>1 DEF Write, IInv, TypeOK
        <3> QED BY <3>1 DEF CacheIsStored, IInv, TypeOK
    <2>2. CASE UNCHANGED <<stored, cache>>
        BY <2>2 DEF CacheIsStored
    <2>3. (\E s \in Syncs : Write(s)) \/ UNCHANGED <<stored, cache>>
        BY DEF Next, vars, Tick, Crash, Add, Remove, Start, Fetch, Compare, PageFails, Bird,
               Fails
    <2> QED BY <2>1, <2>2, <2>3
<1> QED BY <1>1, <1>2, IInvHolds, PTL DEF Spec
=============================================================================
