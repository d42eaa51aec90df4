---------------------------- MODULE MCWsClient ----------------------------
(* Instances of WsClient for TLC. *)
EXTENDS WsClient, TLC

CONSTANTS c1, c2, k1, k2, q1

Symmetric == Permutations({c1, c2}) \cup Permutations({k1, k2})
=============================================================================
