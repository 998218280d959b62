---------------------------- MODULE PlayerStore -----------------------------
(***************************************************************************)
(* What the cache promises its callers: one current record per player, and *)
(* a durable row that only ever moves to what the encoding makes of a      *)
(* current record.  A save moves any set of players at once; losing the    *)
(* process falls back to the durable rows.                                 *)
(***************************************************************************)
CONSTANTS
  Players, Records,
  Encoded,          \* the row a record is stored as, or Refused
  Refused,
  Values            \* of rows: records, no row, and bytes that are no record

VARIABLES current, durable

storeVars == <<current, durable>>

Init == durable \in [Players -> Values] /\ current = durable

Write(p, d) ==
  /\ current' = [current EXCEPT ![p] = d]
  /\ UNCHANGED durable

Encodable(p) == current[p] \in Records /\ Encoded[current[p]] # Refused

Save(S) ==
  /\ \A p \in S : Encodable(p)
  /\ durable' = [p \in Players |-> IF p \in S THEN Encoded[current[p]] ELSE durable[p]]
  /\ UNCHANGED current

Lose == current' = durable /\ UNCHANGED durable

Next ==
  \/ \E p \in Players, d \in Records : Write(p, d)
  \/ \E S \in SUBSET Players : Save(S)
  \/ Lose

Spec == Init /\ [][Next]_storeVars

=============================================================================
