--------------------------- MODULE MCVersionGate ---------------------------
(* An instance of VersionGate for TLC: ints of three bits. *)
EXTENDS VersionGate

CONSTANTS A, B, C

Numbers == {-4, -1, 0, 1, 3}

\* Every version of three numbers, and texts that are shorter, longer or wrong.
MCClaims ==
  [key : {A}, segments : [1..3 -> Numbers]]
    \union [key : {B}, segments : {<<0, 1>>, <<0, 1, 1, Junk>>, <<0, Junk, 1>>}]
    \union [key : {C}, segments : {<<>>}]
    \union [key : {Other}, segments : {<<Junk>>}]

MCLowest  == <<0, 1, 0>>
MCHighest == <<1, 0, 1>>
=============================================================================
