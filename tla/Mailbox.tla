------------------------------ MODULE Mailbox --------------------------------
(***************************************************************************)
(* What a message server promises the application about a connection:      *)
(* frames come in the order in which they were sent, one that is read is   *)
(* read once, a message goes to the application, a heartbeat is answered.  *)
(* Of what arrives together only the first frame counts, and a connection  *)
(* may break.  Where reads split frames, one may be lost, or be read as    *)
(* something that was never sent; never is another one read in its place.  *)
(* Nothing happens to a connection that is not open.                       *)
(***************************************************************************)
EXTENDS Naturals, Sequences

CONSTANTS
  Conns, Msgs, Heartbeat, Empty,
  Garbage,    \* what was never sent
  Splits      \* reads may split frames

Frames == Msgs \cup {Heartbeat, Empty}

VARIABLES
  open,     \* connections
  coming,   \* per connection: frames sent and not read
  got,      \* messages given to the application
  posted    \* messages and answers given to the connection

mailVars == <<open, coming, got, posted>>

Nothing == [c \in Conns |-> <<>>]

Init == open = {} /\ coming = Nothing /\ got = Nothing /\ posted = Nothing

Accept(c) ==
  /\ c \notin open /\ open' = open \cup {c}
  /\ coming' = [coming EXCEPT ![c] = <<>>]
  /\ got' = [got EXCEPT ![c] = <<>>]
  /\ posted' = [posted EXCEPT ![c] = <<>>]

Send(c, f) ==
  /\ c \in open
  /\ coming' = [coming EXCEPT ![c] = Append(@, f)]
  /\ UNCHANGED <<open, got, posted>>

(* What a read makes of the frames that it takes. *)
Handed(c) ==
  {Head(coming[c])} \cup IF Splits THEN {Empty, Heartbeat, Garbage} ELSE {}

(* The first n frames arrive together. *)
Read(c, n, f) ==
  /\ c \in open /\ n \in 1..Len(coming[c]) /\ f \in Handed(c)
  /\ coming' = [coming EXCEPT ![c] = SubSeq(@, n + 1, Len(@))]
  /\ got' = IF f \in Msgs \cup {Garbage} THEN [got EXCEPT ![c] = Append(@, f)] ELSE got
  /\ posted' = IF f = Heartbeat THEN [posted EXCEPT ![c] = Append(@, f)] ELSE posted
  /\ UNCHANGED open

Post(c, m) ==
  /\ c \in open
  /\ posted' = [posted EXCEPT ![c] = Append(@, m)]
  /\ UNCHANGED <<open, coming, got>>

Break(c) ==
  /\ c \in open
  /\ coming' = [coming EXCEPT ![c] = <<>>]
  /\ UNCHANGED <<open, got, posted>>

Close(C) ==
  /\ C \subseteq open /\ open' = open \ C
  /\ UNCHANGED <<coming, got, posted>>

Next ==
  \/ \E c \in Conns :
       \/ Accept(c) \/ Break(c)
       \/ \E f \in Frames : Send(c, f)
       \/ \E n \in 1..Len(coming[c]) : \E f \in Handed(c) : Read(c, n, f)
       \/ \E m \in Msgs : Post(c, m)
  \/ \E C \in SUBSET Conns : Close(C)

Spec == Init /\ [][Next]_mailVars

=============================================================================
