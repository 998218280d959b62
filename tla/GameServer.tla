----------------------------- MODULE GameServer -----------------------------
(***************************************************************************)
(* game::GameServer over network::Server and UserManager.  The server's    *)
(* loop hands one message at a time to onMessage, in the order of its      *)
(* connection.  A message is the fields of its encoding: 1 (a text or an   *)
(* integer), 2 (a text), and whether 3 and 4, which only a RegisterRequest *)
(* has, are UTF-8.  A proto3 message parses as any type whose text fields  *)
(* are UTF-8; a field of another number or wire type is passed over.       *)
(***************************************************************************)
EXTENDS UserManager, Sequences, Functions

CONSTANTS
  Conns,       \* connections
  Garbled,     \* strings that are not UTF-8
  Names, Passwords,  \* that callers use
  MaxRequests  \* bound: requests of all connections

ASSUME GameAssumption ==
  /\ Garbled \subseteq Strings \ {Empty}
  /\ Names \cup Passwords \subseteq Strings
  /\ Strings \cap (Nat \cup Tokens) = {}
  /\ MaxRequests \in Nat

VARIABLES
  inbox,    \* per connection: requests on their way
  answers,  \* per connection: what was sent, in order
  asked     \* history, per connection: the kinds of the requests sent

connVars == <<inbox, answers, asked>>
vars == <<users, nextId, returned, given, inbox, answers, asked>>

Text == Texts \ Garbled
Message == [one : Strings \cup Nat, two : Texts, rest : BOOLEAN]
Kinds == {"register", "login", "heartbeat"}

Init ==
  /\ UsersInit
  /\ inbox = [c \in Conns |-> <<>>]
  /\ answers = [c \in Conns |-> <<>>]
  /\ asked = [c \in Conns |-> <<>>]

-----------------------------------------------------------------------------
(* A field that is an integer on the wire, read as text, is missing. *)
AsText(f) == IF f \in Strings THEN f ELSE Empty
AsNumber(f) == IF f \in Strings THEN 0 ELSE f

ParsesAsRegister(m) == AsText(m.one) \in Text /\ m.two \in Text /\ m.rest
ParsesAsLogin(m) == AsText(m.one) \in Text /\ m.two \in Text
ParsesAsHeartbeat(m) == m.two \in Text

Take(c) == inbox[c] # <<>> /\ inbox' = [inbox EXCEPT ![c] = Tail(@)]

(* sendResponse: code 200 is ok; network::Server::send keeps the order. *)
SendResponse(c, kind, result) ==
  answers' = [answers EXCEPT ![c] =
                Append(@, [kind |-> kind, ok |-> result.ok, id |-> result.id])]

(* handleRegister. *)
HandleRegister(c) ==
  LET m == Head(inbox[c]) IN
  /\ Take(c) /\ ParsesAsRegister(m)
  /\ RegisterUser(AsText(m.one), m.two)
  /\ SendResponse(c, "register", returned')
  /\ UNCHANGED asked

(* handleLogin. *)
HandleLogin(c) ==
  LET m == Head(inbox[c]) IN
  /\ Take(c) /\ ~ParsesAsRegister(m) /\ ParsesAsLogin(m)
  /\ \E stamp \in Stamps : LoginUser(AsText(m.one), m.two, stamp)
  /\ SendResponse(c, "login", returned')
  /\ UNCHANGED asked

(* Seeded fault: onMessage does not return after the branch of a login. *)
HandleHeartbeatToo(c) ==
  LET m == Head(inbox[c]) IN
  /\ inbox[c] # <<>> /\ ~ParsesAsRegister(m) /\ ParsesAsHeartbeat(m)
  /\ inbox' = IF ParsesAsLogin(m) THEN inbox ELSE [inbox EXCEPT ![c] = Tail(@)]
  /\ ValidateToken(AsNumber(m.one), m.two)
  /\ SendResponse(c, "heartbeat", returned')
  /\ UNCHANGED asked

(* handleHeartbeat. *)
HandleHeartbeat(c) ==
  LET m == Head(inbox[c]) IN
  /\ Take(c) /\ ~ParsesAsLogin(m) /\ ParsesAsHeartbeat(m)
  /\ ValidateToken(AsNumber(m.one), m.two)
  /\ SendResponse(c, "heartbeat", returned')
  /\ UNCHANGED asked

(* The end of onMessage: a message of no known type gets no answer. *)
HandleUnknown(c) ==
  /\ Take(c) /\ ~ParsesAsHeartbeat(Head(inbox[c]))
  /\ UNCHANGED <<userVars, answers, asked>>

OnMessage(c) ==
  HandleRegister(c) \/ HandleLogin(c) \/ HandleHeartbeat(c) \/ HandleUnknown(c)

-----------------------------------------------------------------------------
(* The clients, and other parts of the process that use the UserManager. *)
Request(c, kind, m) ==
  /\ FoldFunction(LAMBDA q, n : Len(q) + n, 0, asked) < MaxRequests
  /\ asked' = [asked EXCEPT ![c] = Append(@, kind)]
  /\ inbox' = [inbox EXCEPT ![c] = Append(@, m)]
  /\ UNCHANGED <<userVars, answers>>

SomeToken == {users[id].token : id \in DOMAIN users}

(* A register request has two more texts, which may not be UTF-8 either. *)
ClientRequests(c) ==
  \/ \E name \in Names, password \in Passwords, rest \in {TRUE, Garbled = {}} :
       Request(c, "register", [one |-> name, two |-> password, rest |-> rest])
  \/ \E name \in Names, password \in Passwords :
       Request(c, "login", [one |-> name, two |-> password, rest |-> TRUE])
  \/ \E id \in DOMAIN users, token \in SomeToken :
       Request(c, "heartbeat", [one |-> id, two |-> token, rest |-> TRUE])

InProcess ==
  /\ \/ \E name \in Names, password \in Passwords :
          \/ RegisterUser(name, password)
          \/ \E stamp \in Stamps : LoginUser(name, password, stamp)
     \/ \E id \in Nat \cap (0..MaxUsers), token \in SomeToken \cup {Empty} :
          ValidateToken(id, token)
  /\ UNCHANGED connVars

Next ==
  \/ \E c \in Conns : ClientRequests(c) \/ OnMessage(c)
  \/ InProcess

Spec == Init /\ [][Next]_vars

-----------------------------------------------------------------------------
Answer == [kind : Kinds, ok : BOOLEAN, id : Nat]

TypeOK ==
  /\ UsersTypeOK
  /\ inbox \in [Conns -> Seq(Message)]
  /\ answers \in [Conns -> Seq(Answer)]
  /\ asked \in [Conns -> Seq(Kinds)]

(* No two users have one name, whoever registers them: a login finds at most
   one user, in whatever order the map is searched. *)
UniqueNames ==
  \A i, j \in DOMAIN users : users[i].username = users[j].username => i = j

(* A successful registration names a user that exists, and no other answer,
   on any connection, ever names it as new. *)
RegisteredOnce ==
  \A c, d \in Conns :
    \A i \in DOMAIN answers[c], j \in DOMAIN answers[d] :
      LET a == answers[c][i]  b == answers[d][j] IN
      /\ a.ok => a.id \in DOMAIN users
      /\ /\ a.kind = "register" /\ a.ok
         /\ b.kind = "register" /\ b.ok
         /\ a.id = b.id
         => c = d /\ i = j

(* Names and announced ids lead to one user each. *)
NamesAreSound == TypeOK /\ UniqueNames /\ RegisteredOnce

(* No request is answered twice: answers never run ahead of the requests. *)
OneAnswerEach ==
  \A c \in Conns : Len(answers[c]) + Len(inbox[c]) <= Len(asked[c])

(* Whatever happens in between, a token is valid for its user only until the
   next login of that user: validateToken accepts what the last login gave.
   Of a user who has not logged in it accepts the empty text, which is the
   token that registerUser leaves in his record, and no other. *)
LastLoginCounts ==
  [][\A id \in DOMAIN users, token \in SomeToken \cup {Empty} :
       ValidateToken(id, token) /\ returned'.ok =>
         IF id \in DOMAIN given THEN token = given[id] ELSE token = Empty]_vars

-----------------------------------------------------------------------------
(* What the protocol file and the comments of onMessage say, and the code
   does not do: the answer to a request is of the kind of the request. *)
RequestsAreUnderstood ==
  \A c \in Conns : \A i \in DOMAIN answers[c] : answers[c][i].kind = asked[c][i]
=============================================================================
