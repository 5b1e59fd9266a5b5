---------------------------- MODULE MCCharacters ----------------------------
(* Instances of Characters for TLC. *)
EXTENDS Characters, TLC

Symmetry ==
  Permutations(Workers) \union Permutations(Users) \union Permutations(Ids)
    \union Permutations(Names)
=============================================================================
