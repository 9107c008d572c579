---------------------- MODULE MCTwitter6551Failover ----------------------
(* Two workers: an old one, and its successor or a manual one.            *)
EXTENDS Twitter6551Failover

CONSTANTS w1, w2

TwoWorkers == {w1, w2}
=============================================================================
