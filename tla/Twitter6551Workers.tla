------------------------- MODULE Twitter6551Workers -------------------------
(***************************************************************************)
(* What Twitter6551Failover and Twitter6551Inbox share: the workers of     *)
(* src/lib/twitter-6551.ts, the clock they read, and a count of the writes *)
(* that have failed. A worker object is used again once it is quiet: what  *)
(* the manager creates next.                                               *)
(***************************************************************************)
EXTENDS Integers

CONSTANTS
    Workers,        \* worker objects
    MaxTime,        \* bound on the clock
    MaxFailures,    \* bound on failing writes
    None

Time == 0 .. MaxTime

ASSUME WorkersAssumption ==
    /\ MaxTime \in Nat /\ MaxFailures \in Nat
    /\ None \notin Workers \cup Int

VARIABLES
    now,            \* the clock
    failures        \* failed writes so far
=============================================================================
