--------------------------- MODULE CollectionSync ---------------------------
(***************************************************************************)
(* Synchronisation of a collection, likes or bookmarks: syncTimeline-      *)
(* CollectionEffect over runSyncPlanEffect and runCachedLiveSyncEffect     *)
(* (src/lib/timeline-collections-live.ts, sync-plan.ts and                 *)
(* live-sync-engine.ts). A sync answers from the cache, or walks the       *)
(* collection page by page from the newest item and stores what it found   *)
(* in one write, with the cache. With early stop a page that is local      *)
(* already ends the walk. If xurl fails, bird is asked in one call.        *)
(* Several syncs of one collection run side by side, while items come, go  *)
(* and come back. Items that went stay local.                              *)
(***************************************************************************)
EXTENDS Integers, FiniteSets

CONSTANTS
    Syncs, Items,
    Options,        \* records [mode, early, all, max, refresh]
    PageSize,       \* items of a page
    DefaultCap,     \* DEFAULT_EARLY_STOP_MAX_PAGES
    Window,         \* pages that every one of Options reaches back
    Ttl,            \* cacheTtlMs
    MaxTop, MaxTime, MaxFailures, MaxRemovals,  \* bounds; a crash is a failure
    None

VARIABLES
    now, failures, removals,
    remote,         \* the collection as the service has it
    place,          \* place[i]: its place in the order of adding, 0 if it never was
    top,            \* the place of the item that was added last
    stored,         \* tweet_collections: the items that are local
    cache,          \* cache[k]: [items, at] of a cache key, or None
    step,           \* step[s]: where sync s is
    opt,            \* opt[s]: its options
    token,          \* token[s]: the place its walk has come to, or None
    pages,          \* pages[s]: pages it has read
    page,           \* page[s]: the page it has read but not compared
    found,          \* found[s]: what it is going to store
    since,          \* since[s]: top when it was first answered (history)
    breaks          \* places at which what is local may break off (history)

bounds == <<now, failures, removals>>
listing == <<remote, place, top>>
walk == <<step, opt, token, pages, page, found, since>>
vars == <<bounds, listing, stored, cache, walk, breaks>>

\* Where a sync is; it is idle again when it failed or answered from the cache.
Steps == {"idle", "walking", "compare", "bird", "writing", "synced"}

\* The token of a walk that has come to the end of the listing.
End == 0

\* The limit of the pages a walk by xurl may read, with early stop's own.
MaxPages(o) ==
    IF o.early /\ ~o.all /\ o.max = None /\ o.mode # "bird" THEN DefaultCap ELSE o.max

\* `all` and early stop lift the limit of one page.
Limit(o) == IF o.all \/ o.early THEN MaxPages(o) ELSE 1

\* Bird pages itself: everything, or one page, or up to the explicit limit;
\* it knows neither early stop nor its limit.
BirdLimit(o) == IF o.max = None /\ ~o.all THEN 1 ELSE o.max

Reaches(limit, n) == limit = None \/ limit >= n

ASSUME CollectionAssumption ==
    /\ IsFiniteSet(Items) /\ PageSize \in Nat \ {0} /\ DefaultCap \in Nat \ {0}
    /\ None \notin Nat
    /\ Options # {}
    /\ Options \subseteq [mode : {"xurl", "auto", "bird"}, early : BOOLEAN,
                          all : BOOLEAN, max : (Nat \ {0}) \cup {None}, refresh : BOOLEAN]

ASSUME WindowAssumption ==
    /\ Window \in Nat
    /\ \A o \in Options : /\ o.mode # "bird" => Reaches(Limit(o), Window)
                          /\ o.mode # "xurl" => Reaches(BirdLimit(o), Window)

\* The cache key: not whether to refresh, and the limit as xurl takes it.
Key(o) == [mode |-> o.mode, early |-> o.early, all |-> o.all, max |-> MaxPages(o)]

Keys == {Key(o) : o \in Options}

TypeOK ==
    /\ now \in Nat /\ failures \in Nat /\ removals \in Nat
    /\ remote \subseteq Items /\ place \in [Items -> Nat] /\ top \in Nat
    /\ stored \subseteq Items
    /\ cache \in [Keys -> [items : SUBSET Items, at : Nat] \cup {None}]
    /\ step \in [Syncs -> Steps]
    /\ opt \in [Syncs -> Options]
    /\ token \in [Syncs -> Nat \cup {None}]
    /\ pages \in [Syncs -> Nat]
    /\ page \in [Syncs -> SUBSET Items]
    /\ found \in [Syncs -> SUBSET Items]
    /\ since \in [Syncs -> Nat]
    /\ breaks \subseteq Nat

Init ==
    /\ now = 0 /\ failures = 0 /\ removals = 0
    /\ remote = {} /\ place = [i \in Items |-> 0] /\ top = 0
    /\ stored = {}
    /\ cache = [k \in Keys |-> None]
    /\ step = [s \in Syncs |-> "idle"]
    /\ opt = [s \in Syncs |-> CHOOSE o \in Options : TRUE]
    /\ token = [s \in Syncs |-> None]
    /\ pages = [s \in Syncs |-> 0]
    /\ page = [s \in Syncs |-> {}]
    /\ found = [s \in Syncs |-> {}]
    /\ since = [s \in Syncs |-> 0]
    /\ breaks = {}

-----------------------------------------------------------------------------
(* The service *)

\* An item is added, the newest. If it comes back it may be local although
\* what is below it now is not: there the local items may break off, and at
\* its old place if a sync has read it there and not yet compared it.
Add(i) ==
    /\ i \notin remote /\ top < MaxTop
    /\ top' = top + 1
    /\ place' = [place EXCEPT ![i] = top + 1]
    /\ remote' = remote \cup {i}
    /\ breaks' = breaks \cup {b \in {top + 1} : place[i] # 0}
                        \cup {b \in {place[i]} : \E s \in Syncs : i \in page[s]}
    /\ UNCHANGED <<bounds, stored, cache, walk>>

Remove(i) ==
    /\ removals < MaxRemovals /\ i \in remote
    /\ removals' = removals + 1
    /\ remote' = remote \ {i}
    /\ UNCHANGED <<now, failures, place, top, stored, cache, walk, breaks>>

Tick ==
    /\ now < MaxTime
    /\ now' = now + 1
    /\ UNCHANGED <<failures, removals, listing, stored, cache, walk, breaks>>

\* What a token leaves to be listed.
Below(t) == {i \in remote : t # None => place[i] < t}

\* The n newest items of S.
Newest(S, n) == {i \in S : Cardinality({j \in S : place[j] > place[i]}) < n}

\* Where the listing goes on after its items A, the newest of S.
After(S, A, t) ==
    IF A = S THEN t = End
    ELSE \E last \in A : t = place[last] /\ \A j \in A : t <= place[j]

-----------------------------------------------------------------------------
(* A sync *)

Fresh(o) == cache[Key(o)] # None /\ now - cache[Key(o)].at <= Ttl

\* Start a sync: answer from the cache, or go and ask.
Start(s, o) ==
    /\ step[s] \in {"idle", "synced"}
    /\ IF o.refresh \/ ~Fresh(o)
       THEN /\ step' = [step EXCEPT ![s] = IF o.mode = "bird" THEN "bird" ELSE "walking"]
            /\ opt' = [opt EXCEPT ![s] = o]
       ELSE step' = [step EXCEPT ![s] = "idle"] /\ UNCHANGED opt
    /\ since' = [since EXCEPT ![s] = 0]
    /\ UNCHANGED <<token, pages, page, found>>
    /\ UNCHANGED <<bounds, listing, stored, cache, breaks>>

\* One page of xurl is read, with the token of the next.
Fetch(s) ==
    LET rest == Below(token[s])
        next == Newest(rest, PageSize)
    IN  /\ step[s] = "walking"
        /\ step' = [step EXCEPT ![s] = "compare"]
        /\ page' = [page EXCEPT ![s] = next]
        /\ pages' = [pages EXCEPT ![s] = @ + 1]
        /\ \E t \in {End} \cup {place[i] : i \in next} :
              After(rest, next, t) /\ token' = [token EXCEPT ![s] = t]
        /\ since' = IF token[s] = None THEN [since EXCEPT ![s] = top] ELSE since
        /\ UNCHANGED <<bounds, listing, stored, cache, opt, found, breaks>>

\* Every item of a page with items is local: the walk ends there.
Saturated(s) == opt[s].early /\ page[s] # {} /\ page[s] \subseteq stored

\* What of a page goes into the answer: all, or without what is local.
Kept(s) == IF opt[s].early THEN page[s] \ stored ELSE page[s]

Limited(s) == Limit(opt[s]) # None /\ pages[s] >= Limit(opt[s])

\* The page is compared with the store: the walk ends, or goes on. A walk
\* that ends at local items is complete and reports no next token.
Compare(s) ==
    /\ step[s] = "compare"
    /\ page' = [page EXCEPT ![s] = {}]
    /\ found' = [found EXCEPT ![s] = IF Saturated(s) THEN @ ELSE @ \cup Kept(s)]
    /\ token' = IF Saturated(s) THEN [token EXCEPT ![s] = End] ELSE token
    /\ step' = [step EXCEPT ![s] =
           IF token[s] = End \/ Saturated(s) \/ Limited(s) THEN "writing" ELSE "walking"]
    /\ UNCHANGED <<bounds, listing, stored, cache, opt, pages, since, breaks>>

\* Forget the walk of a sync that ended.
Finish(s, how) ==
    /\ step' = [step EXCEPT ![s] = how]
    /\ opt' = [opt EXCEPT ![s] = CHOOSE o \in Options : TRUE]
    /\ token' = [token EXCEPT ![s] = None]
    /\ pages' = [pages EXCEPT ![s] = 0]
    /\ page' = [page EXCEPT ![s] = {}]
    /\ found' = [found EXCEPT ![s] = {}]
    /\ since' = IF how = "synced" THEN since ELSE [since EXCEPT ![s] = 0]

PageFailsKeeping(s) ==  \* mutant: what was read before the failure is stored
    /\ step[s] = "walking" /\ token[s] # None /\ failures < MaxFailures
    /\ failures' = failures + 1
    /\ step' = [step EXCEPT ![s] = "writing"]
    /\ UNCHANGED <<now, removals, listing, stored, cache, opt, token, pages, page,
                   found, since, breaks>>

\* A page or its comparison fails: the walk is given up, and bird asked when
\* the mode allows.
PageFails(s) ==
    /\ step[s] \in {"walking", "compare"} /\ failures < MaxFailures
    /\ failures' = failures + 1
    /\ IF opt[s].mode = "auto"
       THEN /\ step' = [step EXCEPT ![s] = "bird"]
            /\ token' = [token EXCEPT ![s] = None]
            /\ pages' = [pages EXCEPT ![s] = 0]
            /\ page' = [page EXCEPT ![s] = {}]
            /\ found' = [found EXCEPT ![s] = {}]
            /\ since' = [since EXCEPT ![s] = 0]
            /\ UNCHANGED opt
       ELSE Finish(s, "idle")
    /\ UNCHANGED <<now, removals, listing, stored, cache, breaks>>

\* The answer of bird; the token is where it ends.
Bird(s) ==
    LET limit == BirdLimit(opt[s])
        answer == IF limit = None THEN remote ELSE Newest(remote, limit * PageSize)
    IN  /\ step[s] = "bird"
        /\ step' = [step EXCEPT ![s] = "writing"]
        /\ found' = [found EXCEPT ![s] = answer]
        /\ \E t \in {End} \cup {place[i] : i \in answer} :
              After(remote, answer, t) /\ token' = [token EXCEPT ![s] = t]
        /\ since' = [since EXCEPT ![s] = top]
        /\ UNCHANGED <<bounds, listing, stored, cache, opt, pages, page, breaks>>

\* The queued write: the items and the cache in one transaction. What is
\* local may break off where the answer ended.
Write(s) ==
    /\ step[s] = "writing"
    /\ stored' = stored \cup found[s]
    /\ cache' = [cache EXCEPT ![Key(opt[s])] = [items |-> found[s], at |-> now]]
    /\ breaks' = breaks \cup ({token[s]} \ {End})
    /\ Finish(s, "synced")
    /\ UNCHANGED <<bounds, listing>>

FailsCached(s) ==  \* mutant: the cache is written beside the transaction
    /\ step[s] \in {"bird", "writing"} /\ failures < MaxFailures
    /\ failures' = failures + 1
    /\ cache' = [cache EXCEPT ![Key(opt[s])] = [items |-> found[s], at |-> now]]
    /\ Finish(s, "idle")
    /\ UNCHANGED <<now, removals, listing, stored, breaks>>

\* Bird fails as well, or the transaction, which is rolled back.
Fails(s) ==
    /\ step[s] \in {"bird", "writing"} /\ failures < MaxFailures
    /\ failures' = failures + 1
    /\ Finish(s, "idle")
    /\ UNCHANGED <<now, removals, listing, stored, cache, breaks>>

\* The process ends; the database stays.
Crash ==
    /\ failures < MaxFailures
    /\ failures' = failures + 1
    /\ step' = [s \in Syncs |-> "idle"]
    /\ opt' = [s \in Syncs |-> CHOOSE o \in Options : TRUE]
    /\ token' = [s \in Syncs |-> None]
    /\ pages' = [s \in Syncs |-> 0]
    /\ page' = [s \in Syncs |-> {}]
    /\ found' = [s \in Syncs |-> {}]
    /\ since' = [s \in Syncs |-> 0]
    /\ UNCHANGED <<now, removals, listing, stored, cache, breaks>>

Next ==
    \/ Tick \/ Crash
    \/ \E i \in Items : Add(i) \/ Remove(i)
    \/ \E s \in Syncs :
          \/ \E o \in Options : Start(s, o)
          \/ Fetch(s) \/ Compare(s) \/ PageFails(s) \/ Bird(s) \/ Write(s) \/ Fails(s)

Spec == Init /\ [][Next]_vars

-----------------------------------------------------------------------------
\* What is local may break off between the places lo and hi.
Broken(lo, hi) == \E c \in breaks : lo < c /\ c <= hi

(* An item that is not local although a newer one is lies below a break: a *)
(* place where an answer ended short of the collection's end, by a limit   *)
(* of pages, or where an item came back. Early stop, failures and syncs    *)
(* side by side make no gap of their own.                                  *)
NoGap ==
    \A i \in stored, j \in remote \ stored :
        place[j] < place[i] => Broken(place[j], place[i])

(* A sync that went well has stored what the collection had when it was    *)
(* first answered and still has, down to the first break.                  *)
SyncCovers ==
    \A s \in Syncs : step[s] = "synced" =>
        \A j \in remote \ stored : place[j] <= since[s] => Broken(place[j], since[s])

(* What docs/sync.md promises of `--max-pages` with `--early-stop` on a    *)
(* stable account: while nothing is removed, every sync that went well     *)
(* leaves the newest pages local, as many as any of the options reaches.   *)
WindowIsLocal ==
    removals = 0 =>
        \A s \in Syncs, j \in remote :
            /\ step[s] = "synced" /\ place[j] <= since[s]
            /\ Cardinality({k \in remote : place[k] > place[j]}) < Window * PageSize
            => j \in stored

(* Ending a walk at a page of local items loses nothing: not now, and not  *)
(* for later walks, whatever the options, the failures and the changes of  *)
(* the collection.                                                         *)
EarlyStopIsSound == NoGap /\ SyncCovers /\ WindowIsLocal

(* The cache only ever answers with items that are in the store.           *)
CacheIsStored == \A k \in Keys : cache[k] # None => cache[k].items \subseteq stored
=============================================================================
