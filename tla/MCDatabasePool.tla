--------------------------- MODULE MCDatabasePool ---------------------------
(* Instances of DatabasePool for TLC. *)
EXTENDS DatabasePool, TLC

\* Threads are interchangeable.
Symmetry == Permutations(Threads)
=============================================================================
