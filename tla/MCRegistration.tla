--------------------------- MODULE MCRegistration ---------------------------
(* Registration for TLC: interchangeable instances; requests for one phone,
   some of which are refused. *)
EXTENDS Registration, TLC

Symmetry == Permutations(Servers)

Send(p, e, t) == [kind |-> "send", phone |-> p, email |-> e, type |-> t]
Register(p, k, right) ==
  [kind |-> "register", phone |-> p, email |-> Nothing, code |-> k, right |-> right]

MCRequests ==
  LET p == CHOOSE x \in Phones : x \in Valid
      e == CHOOSE x \in Emails : TRUE
      k == CHOOSE x \in Codes : TRUE IN
  {Send(p, Nothing, 1), Send(p, Nothing, 2), Send(p, e, 1), Send(Nothing, e, 1),
   Register(p, k, Fields), Register(p, k, Fields \ {"confirm"}),
   [kind |-> "activate"]}
=============================================================================
