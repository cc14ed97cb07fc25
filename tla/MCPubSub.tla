------------------------------ MODULE MCPubSub ------------------------------
(* PubSub with interchangeable user threads. *)
EXTENDS PubSub, TLC

CONSTANTS u1, u2

Symmetry == Permutations({u1, u2})
=============================================================================
