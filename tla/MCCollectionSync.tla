--------------------------- MODULE MCCollectionSync ---------------------------
(* Pages of one item, and what the account job and the command line ask.   *)
EXTENDS CollectionSync, TLC

CONSTANTS s1, s2, i1, i2, i3

TwoSyncs == {s1, s2}
ThreeItems == {i1, i2, i3}
Interchangeable == Permutations(TwoSyncs) \cup Permutations(ThreeItems)

\* The account job: --all --max-pages 2 --early-stop, never from the cache.
Job == [mode |-> "auto", early |-> TRUE, all |-> TRUE, max |-> 2, refresh |-> TRUE]

\* --early-stop alone, which gets the default cap.
Capped == [mode |-> "xurl", early |-> TRUE, all |-> FALSE, max |-> None,
           refresh |-> FALSE]

JobAndCapped == {Job, Capped}
=============================================================================
