---------------------------- MODULE MCCharacters ----------------------------
(* Paths on the line for Characters. *)
EXTENDS Characters

Walks == {<<1, 2>>, <<2, 0>>}
=============================================================================
