------------------------ MODULE MCTwitter6551State ------------------------
(* Two days with a budget of two. Every account starts with the row of an  *)
(* older version, one failure after a paid fallback, which may be of       *)
(* another watch list; the usage it left is known or does not validate.    *)
EXTENDS Twitter6551State, TLC

CONSTANTS w1, t1

OneWorker == {w1}
OneTool == {t1}

SomeOldUses == {1, Corrupt}
OldRow == {[scope |-> "two", fails |-> 1, countedAt |-> 0, paidAt |-> 0]}
=============================================================================
