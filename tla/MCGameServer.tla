---------------------------- MODULE MCGameServer ----------------------------
(* GameServer for TLC: connections and tokens are interchangeable. *)
EXTENDS GameServer, TLC

Symmetry == Permutations(Conns) \cup Permutations(Stamps)
=============================================================================
