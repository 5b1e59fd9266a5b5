--------------------------- MODULE MCLoginServer ---------------------------
(* Instances of LoginServer for TLC. *)
EXTENDS LoginServer
=============================================================================
