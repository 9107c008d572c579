-------------------------- MODULE MCTwillotHistory --------------------------
(* TwillotHistory on small sets; the bounds are given in the .cfg files.   *)
EXTENDS TwillotHistory

MCCursors == Posts
MCBatches == BatchIds
=============================================================================
