------------------------------ MODULE MCWebSync ------------------------------
(* Two jobs over two accounts, and three writes.                           *)
EXTENDS WebSync

CONSTANTS w1, w2, w3, d1, j1, j2

Three == {w1, w2, w3}
TwoJobs == {j1, j2}
=============================================================================
