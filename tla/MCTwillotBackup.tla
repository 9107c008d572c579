--------------------------- MODULE MCTwillotBackup ---------------------------
(* TwillotBackup on small sets; the constants are given in the .cfg files. *)
EXTENDS TwillotBackup, TLC

(* Nothing orders the batch identifiers. *)
BatchSymmetry == Permutations(Batches)
=============================================================================
