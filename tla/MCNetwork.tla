------------------------------ MODULE MCNetwork ------------------------------
(* Small instances of Network for TLC. *)
EXTENDS Network, TLC

Symmetry == Permutations(Sockets) \union Permutations(Queues)
=============================================================================
