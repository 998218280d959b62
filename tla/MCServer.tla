------------------------------ MODULE MCServer -------------------------------
(* TLC instances of Server: addresses and messages are interchangeable in the
   safety runs. *)
EXTENDS Server, TLC

Interchangeable == Permutations(Conns) \cup Permutations(Msgs)

=============================================================================
