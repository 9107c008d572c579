------------------------- MODULE MCTwitter6551Inbox -------------------------
(* Two events of two accounts, one malformed, and pages of one row, so     *)
(* that equal arrival times meet a page's end.                             *)
EXTENDS Twitter6551Inbox, TLC

CONSTANTS w1, w2

TwoWorkers == {w1, w2}

TwoHandles == (2 :> "ann") @@ (3 :> "bob")
AnnAndBob == {{"ann"}, {"ann", "bob"}}
=============================================================================
