---------------------------- MODULE MCNetworkLog ----------------------------
(* NetworkLog with redirects and a buffer shorter than what is recorded.    *)
EXTENDS NetworkLog, TLC

Symmetric == Permutations(Requests)
=============================================================================
