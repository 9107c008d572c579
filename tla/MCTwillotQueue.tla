--------------------------- MODULE MCTwillotQueue ---------------------------
(* TwillotQueue on small sets; the constants are given in the .cfg files.  *)
EXTENDS TwillotQueue, TLC

(* Job keys and batch identifiers are interchangeable: nothing orders them. *)
Symmetry == Permutations(Jobs) \cup Permutations(Batches)
=============================================================================
