----------------------------- MODULE MCAccounts -----------------------------
(* Instances of Accounts for TLC. *)
EXTENDS Accounts, TLC

\* Worker threads are interchangeable, and so are ids none of which is taken.
Symmetry == Permutations(Workers) \union Permutations(Users)

\* Bound: accounts are guessed at and moderated one at a time.
OneTarget ==
  /\ Cardinality({u \in Users : attempts[u] > 0}) <= 1
  /\ Cardinality({u \in Users : attempts[u] > 0 \/ ~active[u] \/ banned[u]}) <= 1
=============================================================================
