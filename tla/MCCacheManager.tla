--------------------------- MODULE MCCacheManager ---------------------------
(* TLC instances of CacheManager: threads and players are interchangeable in
   the safety runs. *)
EXTENDS CacheManager, TLC

Interchangeable == Permutations(Players) \cup Permutations(Clients)

Holds(d, v) == \E s \in Sections : d[s] = v
Instead(d, v, w) == [s \in Sections |-> IF d[s] = v THEN w ELSE d[s]]

(* A quote or a NUL ends the SQL text too early: no valid statement.  An escape
   sequence is stored as other bytes: here those of a record without it, or of no
   record. *)
MCStored ==
  [d \in Data |->
     CASE Holds(d, "quote") \/ Holds(d, "nul") \/ Holds(d, "torn") -> Broken
       [] Holds(d, "garbling") -> Unreadable
       [] OTHER -> Instead(d, "escape", "plain")]

(* What comes before the first NUL may be a shorter record, or none. *)
MCCut ==
  [d \in Data |-> IF Holds(d, "torn") THEN Unreadable ELSE Instead(d, "nul", "plain")]

=============================================================================
