-------------------------- MODULE GameServerProofs --------------------------
(***************************************************************************)
(* Proofs about GameServer, for any strings, connections and bounds.       *)
(***************************************************************************)
EXTENDS GameServer, TLAPS

(* Every id in use is smaller than the next one: a new user takes a new id. *)
IdsAreBelow == \A id \in DOMAIN users : id < nextId

UsersInv == UsersTypeOK /\ IdsAreBelow /\ UniqueNames

(* What an operation of the UserManager does to the ids. *)
IdsGrow ==
  /\ DOMAIN users \subseteq DOMAIN users'
  /\ returned' \in [ok : BOOLEAN, id : Nat, token : Texts]
  /\ returned'.ok => returned'.id \in DOMAIN users'

ConnTypeOK ==
  /\ inbox \in [Conns -> Seq(Message)]
  /\ answers \in [Conns -> Seq(Answer)]
  /\ asked \in [Conns -> Seq(Kinds)]

-----------------------------------------------------------------------------
(* AddUser with a new id and a new name keeps the invariant of the users. *)
LEMMA AddUserLemma ==
  ASSUME UsersInv, NEW name \in Strings, NEW password \in Texts,
         \A id \in DOMAIN users : users[id].username # name,
         NewUser(name, password)
  PROVE  /\ UsersInv' /\ IdsGrow
         /\ returned'.ok /\ returned'.id = nextId /\ returned'.id \notin DOMAIN users
<1> USE UserAssumption
<1> DEFINE u == [username |-> name, password |-> password, token |-> Empty]
<1>1. u \in User
  BY DEF User, Texts
<1>2. /\ users' = [i \in DOMAIN users \cup {nextId} |-> IF i = nextId THEN u ELSE users[i]]
      /\ given' = given
      /\ nextId' = nextId + 1
      /\ returned' = [ok |-> TRUE, id |-> nextId, token |-> Empty]
  BY DEF NewUser, AddUser
<1>3. nextId \notin DOMAIN users /\ nextId \in Nat \ {0} /\ DOMAIN given \subseteq DOMAIN users
  BY DEF UsersInv, IdsAreBelow, UsersTypeOK
<1>4. UsersTypeOK'
  <2>1. users' \in [DOMAIN users' -> User]
    BY <1>1, <1>2 DEF UsersInv, UsersTypeOK
  <2>2. DOMAIN users' \subseteq Nat \ {NoUser}
    BY <1>2, <1>3 DEF UsersInv, UsersTypeOK, NoUser
  <2>3. given' \in [DOMAIN given' -> Tokens] /\ DOMAIN given' \subseteq DOMAIN users'
    BY <1>2, <1>3 DEF UsersInv, UsersTypeOK
  <2>4. returned' \in [ok : BOOLEAN, id : Nat, token : Texts]
    BY <1>2, <1>3 DEF Texts
  <2> QED BY <2>1, <2>2, <2>3, <2>4, <1>2, <1>3 DEF UsersTypeOK
<1>5. IdsAreBelow'
  BY <1>2, <1>3 DEF UsersInv, UsersTypeOK, IdsAreBelow
<1>6. UniqueNames'
  BY <1>2, <1>3 DEF UsersInv, UniqueNames
<1>7. IdsGrow
  BY <1>2, <1>4 DEF IdsGrow, UsersTypeOK
<1> QED BY <1>2, <1>3, <1>4, <1>5, <1>6, <1>7 DEF UsersInv

(* A refusal changes nothing. *)
LEMMA RefusedLemma ==
  ASSUME UsersInv, returned' = Refused, UNCHANGED <<users, nextId, given>>
  PROVE  UsersInv' /\ IdsGrow /\ ~returned'.ok
<1>1. returned' \in [ok : BOOLEAN, id : Nat, token : Texts] /\ ~returned'.ok
  BY UserAssumption DEF Refused, NoUser, Texts
<1>2. UsersTypeOK' /\ IdsAreBelow' /\ UniqueNames'
  BY <1>1 DEF UsersInv, UsersTypeOK, IdsAreBelow, UniqueNames
<1> QED BY <1>1, <1>2 DEF UsersInv, IdsGrow

LEMMA RegisterUserLemma ==
  ASSUME UsersInv, NEW name \in Strings, NEW password \in Texts,
         RegisterUser(name, password)
  PROVE  /\ UsersInv' /\ IdsGrow
         /\ returned'.ok => returned'.id \notin DOMAIN users
<1>1. CASE \E id \in DOMAIN users : users[id].username = name
  <2>1. returned' = Refused /\ UNCHANGED <<users, nextId, given>>
    BY <1>1 DEF RegisterUser
  <2> QED BY <2>1, RefusedLemma
<1>2. CASE \A id \in DOMAIN users : users[id].username # name
  <2>1. NewUser(name, password)
    BY <1>2 DEF RegisterUser
  <2> QED BY <1>2, <2>1, AddUserLemma
<1> QED BY <1>1, <1>2

LEMMA LoginUserLemma ==
  ASSUME UsersInv, NEW name \in Strings, NEW password \in Texts, NEW stamp \in Stamps,
         LoginUser(name, password, stamp)
  PROVE  UsersInv' /\ IdsGrow
<1>1. CASE Matching(name, password) = {} /\ returned' = Refused
           /\ UNCHANGED <<users, nextId, given>>
  BY <1>1, RefusedLemma
<1>2. CASE \E id \in Matching(name, password) :
             /\ StoreToken(id, <<id, stamp>>)
             /\ given' = [i \in DOMAIN given \cup {id} |->
                            IF i = id THEN <<id, stamp>> ELSE given[i]]
             /\ returned' = [ok |-> TRUE, id |-> id, token |-> <<id, stamp>>]
             /\ UNCHANGED nextId
  <2>1. PICK id \in Matching(name, password) :
             /\ users' = [users EXCEPT ![id].token = <<id, stamp>>]
             /\ given' = [i \in DOMAIN given \cup {id} |->
                            IF i = id THEN <<id, stamp>> ELSE given[i]]
             /\ returned' = [ok |-> TRUE, id |-> id, token |-> <<id, stamp>>]
             /\ UNCHANGED nextId
    BY <1>2 DEF StoreToken
  <2>2. id \in DOMAIN users /\ id \in Nat /\ <<id, stamp>> \in Tokens
    BY DEF Matching, UsersInv, UsersTypeOK, Texts, Tokens
  <2>3. DOMAIN users' = DOMAIN users
    BY <2>1 DEF UsersInv, UsersTypeOK
  <2>4. \A i \in DOMAIN users :
          /\ users'[i] \in User
          /\ users'[i].username = users[i].username
    BY <2>1, <2>2 DEF UsersInv, UsersTypeOK, User, Texts
  <2>5. users' \in [DOMAIN users' -> User]
    BY <2>1, <2>3, <2>4 DEF UsersInv, UsersTypeOK
  <2>6. given' \in [DOMAIN given' -> Tokens] /\ DOMAIN given' \subseteq DOMAIN users'
    BY <2>1, <2>2, <2>3 DEF UsersInv, UsersTypeOK
  <2>7. UsersTypeOK' /\ IdsGrow
    BY <2>1, <2>2, <2>3, <2>5, <2>6 DEF UsersInv, UsersTypeOK, IdsGrow, Texts
  <2>8. IdsAreBelow' /\ UniqueNames'
    BY <2>1, <2>3, <2>4 DEF UsersInv, IdsAreBelow, UniqueNames
  <2> QED BY <2>7, <2>8 DEF UsersInv
<1> QED BY <1>1, <1>2 DEF LoginUser

LEMMA ValidateTokenLemma ==
  ASSUME UsersInv, NEW id \in Nat, NEW token \in Texts, ValidateToken(id, token)
  PROVE  UsersInv' /\ IdsGrow
BY UserAssumption
   DEF ValidateToken, ValidToken, UsersInv, UsersTypeOK, IdsAreBelow, UniqueNames,
       IdsGrow, Refused, NoUser, Texts

(* The fields that onMessage reads. *)
LEMMA FieldsLemma ==
  ASSUME NEW m \in Message
  PROVE  AsText(m.one) \in Strings /\ AsNumber(m.one) \in Nat /\ m.two \in Texts
BY UserAssumption DEF Message, AsText, AsNumber

(* The callers of the UserManager pass strings, ids and tokens. *)
LEMMA InProcessLemma ==
  ASSUME UsersInv, InProcess
  PROVE  UsersInv' /\ IdsGrow /\ UNCHANGED connVars
<1>1. CASE \E name \in Names, password \in Passwords :
             \/ RegisterUser(name, password)
             \/ \E stamp \in Stamps : LoginUser(name, password, stamp)
  <2>1. PICK name \in Names, password \in Passwords :
             \/ RegisterUser(name, password)
             \/ \E stamp \in Stamps : LoginUser(name, password, stamp)
    BY <1>1
  <2>2. name \in Strings /\ password \in Texts
    BY GameAssumption DEF Texts
  <2> QED BY <2>1, <2>2, RegisterUserLemma, LoginUserLemma DEF InProcess
<1>2. CASE \E id \in Nat \cap (0..MaxUsers), token \in SomeToken \cup {Empty} :
             ValidateToken(id, token)
  <2>1. SomeToken \cup {Empty} \subseteq Texts
    BY UserAssumption DEF SomeToken, UsersInv, UsersTypeOK, User, Texts
  <2> QED BY <1>2, <2>1, ValidateTokenLemma DEF InProcess
<1> QED BY <1>1, <1>2 DEF InProcess

-----------------------------------------------------------------------------
(* The invariant: users and the types of the connections. *)
Inv == UsersInv /\ ConnTypeOK

LEMMA RequestLemma ==
  ASSUME Inv, NEW c \in Conns, ClientRequests(c)
  PROVE  \E kind \in Kinds, m \in Message :
           /\ asked' = [asked EXCEPT ![c] = Append(@, kind)]
           /\ inbox' = [inbox EXCEPT ![c] = Append(@, m)]
           /\ UNCHANGED <<userVars, answers>>
<1>1. CASE \E name \in Names, password \in Passwords, rest \in {TRUE, Garbled = {}} :
             Request(c, "register", [one |-> name, two |-> password, rest |-> rest])
  BY <1>1, GameAssumption DEF Request, Message, Kinds, Texts
<1>2. CASE \E name \in Names, password \in Passwords :
             Request(c, "login", [one |-> name, two |-> password, rest |-> TRUE])
  BY <1>2, GameAssumption DEF Request, Message, Kinds, Texts
<1>3. CASE \E id \in DOMAIN users, token \in SomeToken :
             Request(c, "heartbeat", [one |-> id, two |-> token, rest |-> TRUE])
  <2>1. SomeToken \subseteq Texts /\ DOMAIN users \subseteq Nat
    BY DEF SomeToken, Inv, UsersInv, UsersTypeOK, User
  <2> QED BY <1>3, <2>1 DEF Request, Message, Kinds
<1> QED BY <1>1, <1>2, <1>3 DEF ClientRequests

(* A step of onMessage: a message is taken; then either nothing else happens,
   or an operation of the UserManager and one answer. *)
LEMMA OnMessageLemma ==
  ASSUME Inv, NEW c \in Conns, OnMessage(c)
  PROVE  /\ UsersInv' /\ asked' = asked
         /\ inbox[c] # <<>> /\ inbox' = [inbox EXCEPT ![c] = Tail(@)]
         /\ \/ UNCHANGED <<userVars, answers>>
            \/ /\ IdsGrow
               /\ \E kind \in Kinds :
                    /\ SendResponse(c, kind, returned')
                    /\ kind = "register" /\ returned'.ok => returned'.id \notin DOMAIN users
<1> DEFINE m == Head(inbox[c])
<1>0. ASSUME inbox[c] # <<>>
      PROVE  AsText(m.one) \in Strings /\ AsNumber(m.one) \in Nat /\ m.two \in Texts
  <2>1. m \in Message
    BY <1>0 DEF Inv, ConnTypeOK
  <2> QED BY <2>1, FieldsLemma
<1>1. CASE HandleRegister(c)
  <2>1. RegisterUser(AsText(m.one), m.two) /\ inbox[c] # <<>>
    BY <1>1 DEF HandleRegister, Take
  <2>2. UsersInv' /\ IdsGrow /\ (returned'.ok => returned'.id \notin DOMAIN users)
    BY <2>1, <1>0, RegisterUserLemma DEF Inv
  <2> QED BY <1>1, <2>2 DEF HandleRegister, Take, Kinds
<1>2. CASE HandleLogin(c)
  <2>1. inbox[c] # <<>> /\ \E stamp \in Stamps : LoginUser(AsText(m.one), m.two, stamp)
    BY <1>2 DEF HandleLogin, Take
  <2>2. UsersInv' /\ IdsGrow
    BY <2>1, <1>0, LoginUserLemma DEF Inv
  <2> QED BY <1>2, <2>2 DEF HandleLogin, Take, Kinds
<1>3. CASE HandleHeartbeat(c)
  <2>1. inbox[c] # <<>> /\ ValidateToken(AsNumber(m.one), m.two)
    BY <1>3 DEF HandleHeartbeat, Take
  <2>2. UsersInv' /\ IdsGrow
    BY <2>1, <1>0, ValidateTokenLemma DEF Inv
  <2> QED BY <1>3, <2>2 DEF HandleHeartbeat, Take, Kinds
<1>4. CASE HandleUnknown(c)
  <2>1. UNCHANGED userVars
    BY <1>4 DEF HandleUnknown
  <2>2. UsersInv'
    BY <2>1 DEF userVars, Inv, UsersInv, UsersTypeOK, IdsAreBelow, UniqueNames
  <2> QED BY <1>4, <2>2 DEF HandleUnknown, Take
<1> QED BY <1>1, <1>2, <1>3, <1>4 DEF OnMessage

LEMMA AnswerLemma ==
  ASSUME Inv, NEW c \in Conns, NEW kind \in Kinds, IdsGrow,
         SendResponse(c, kind, returned')
  PROVE  /\ answers' \in [Conns -> Seq(Answer)]
         /\ answers'[c] = Append(answers[c],
              [kind |-> kind, ok |-> returned'.ok, id |-> returned'.id])
         /\ \A d \in Conns : d # c => answers'[d] = answers[d]
<1> DEFINE new == [kind |-> kind, ok |-> returned'.ok, id |-> returned'.id]
<1>1. new \in Answer
  BY DEF IdsGrow, Answer
<1>2. answers' = [answers EXCEPT ![c] = Append(@, new)] /\ answers \in [Conns -> Seq(Answer)]
  BY DEF SendResponse, Inv, ConnTypeOK
<1> QED BY <1>1, <1>2

LEMMA InitInv == Init => Inv
<1> SUFFICES ASSUME Init PROVE Inv
  OBVIOUS
<1>1. UsersInv
  BY UserAssumption DEF Init, UsersInit, UsersInv, UsersTypeOK, IdsAreBelow, UniqueNames,
     Refused, NoUser, Texts
<1>2. ConnTypeOK
  BY DEF Init, ConnTypeOK
<1> QED BY <1>1, <1>2 DEF Inv

LEMMA NextInv == Inv /\ [Next]_vars => Inv'
<1> SUFFICES ASSUME Inv, [Next]_vars PROVE Inv'
  OBVIOUS
<1>1. ASSUME NEW c \in Conns, ClientRequests(c) PROVE Inv'
  <2>1. PICK kind \in Kinds, m \in Message :
           /\ asked' = [asked EXCEPT ![c] = Append(@, kind)]
           /\ inbox' = [inbox EXCEPT ![c] = Append(@, m)]
           /\ UNCHANGED <<userVars, answers>>
    BY <1>1, RequestLemma
  <2>2. ConnTypeOK'
    BY <2>1 DEF Inv, ConnTypeOK
  <2>3. UsersInv'
    BY <2>1 DEF userVars, Inv, UsersInv, UsersTypeOK, IdsAreBelow, UniqueNames
  <2> QED BY <2>2, <2>3 DEF Inv
<1>2. ASSUME NEW c \in Conns, OnMessage(c) PROVE Inv'
  <2>1. answers' \in [Conns -> Seq(Answer)]
    BY <1>2, OnMessageLemma, AnswerLemma DEF Inv, ConnTypeOK
  <2>2. inbox[c] # <<>> /\ inbox' = [inbox EXCEPT ![c] = Tail(@)] /\ asked' = asked
    BY <1>2, OnMessageLemma
  <2>3. inbox' \in [Conns -> Seq(Message)]
    BY <2>2 DEF Inv, ConnTypeOK
  <2> QED BY <1>2, <2>1, <2>2, <2>3, OnMessageLemma DEF Inv, ConnTypeOK
<1>3. CASE InProcess
  BY <1>3, InProcessLemma DEF Inv, ConnTypeOK, connVars
<1>4. CASE UNCHANGED vars
  BY <1>4 DEF vars, Inv, ConnTypeOK, UsersInv, UsersTypeOK, IdsAreBelow, UniqueNames
<1> QED BY <1>1, <1>2, <1>3, <1>4 DEF Next

(* Types, for any number of users, connections and requests. *)
THEOREM GameTypeCorrect == Spec => []TypeOK
<1>1. Inv => TypeOK
  BY DEF Inv, UsersInv, ConnTypeOK, TypeOK
<1> QED BY <1>1, InitInv, NextInv, PTL DEF Spec

(* No two users have one name. *)
THEOREM UniqueNamesHolds == Spec => []UniqueNames
<1>1. Inv => UniqueNames
  BY DEF Inv, UsersInv
<1> QED BY <1>1, InitInv, NextInv, PTL DEF Spec

-----------------------------------------------------------------------------
(* An id is announced as new at most once, on all connections together. *)
THEOREM RegisteredOnceHolds == Spec => []RegisteredOnce
<1>1. Init => RegisteredOnce
  BY DEF Init, RegisteredOnce
<1>2. Inv /\ Inv' /\ RegisteredOnce /\ [Next]_vars => RegisteredOnce'
  <2> SUFFICES ASSUME Inv, Inv', RegisteredOnce, [Next]_vars PROVE RegisteredOnce'
    OBVIOUS
  <2>1. ASSUME DOMAIN users \subseteq DOMAIN users', answers' = answers
        PROVE  RegisteredOnce'
    BY <2>1 DEF RegisteredOnce
  <2>2. ASSUME NEW c \in Conns, OnMessage(c) PROVE RegisteredOnce'
    <3>1. CASE UNCHANGED <<userVars, answers>>
      BY <3>1, <2>1 DEF userVars
    <3>2. CASE IdsGrow /\ \E kind \in Kinds :
                    /\ SendResponse(c, kind, returned')
                    /\ kind = "register" /\ returned'.ok => returned'.id \notin DOMAIN users
      <4>1. PICK kind \in Kinds :
                    /\ SendResponse(c, kind, returned')
                    /\ kind = "register" /\ returned'.ok => returned'.id \notin DOMAIN users
        BY <3>2
      <4> DEFINE new == [kind |-> kind, ok |-> returned'.ok, id |-> returned'.id]
      <4>2. /\ answers'[c] = Append(answers[c], new)
            /\ \A d \in Conns : d # c => answers'[d] = answers[d]
        BY <3>2, <4>1, AnswerLemma
      <4>3. \A d \in Conns : answers[d] \in Seq(Answer)
        BY DEF Inv, ConnTypeOK
      <4>4. \A d \in Conns : \A i \in DOMAIN answers'[d] :
              \/ i \in DOMAIN answers[d] /\ answers'[d][i] = answers[d][i]
              \/ d = c /\ i = Len(answers[c]) + 1 /\ answers'[d][i] = new
        BY <4>2, <4>3
      <4>5. DOMAIN users \subseteq DOMAIN users'
        BY <3>2 DEF IdsGrow
      <4>6. \A d \in Conns : \A i \in DOMAIN answers'[d] :
              answers'[d][i].ok => answers'[d][i].id \in DOMAIN users'
        BY <4>4, <4>5, <3>2 DEF RegisteredOnce, IdsGrow
      <4>7. \A d \in Conns : \A i \in DOMAIN answers[d] :
              answers[d][i].ok => answers[d][i].id \in DOMAIN users
        BY DEF RegisteredOnce
      <4>8. new.kind = "register" /\ new.ok => new.id \notin DOMAIN users
        BY <4>1
      <4>9. ASSUME NEW d \in Conns, NEW e \in Conns,
                   NEW i \in DOMAIN answers'[d], NEW j \in DOMAIN answers'[e],
                   answers'[d][i].kind = "register", answers'[d][i].ok,
                   answers'[e][j].kind = "register", answers'[e][j].ok,
                   answers'[d][i].id = answers'[e][j].id
            PROVE  d = e /\ i = j
        <5>1. CASE /\ i \in DOMAIN answers[d] /\ answers'[d][i] = answers[d][i]
                   /\ j \in DOMAIN answers[e] /\ answers'[e][j] = answers[e][j]
          BY <5>1, <4>9 DEF RegisteredOnce
        <5>2. CASE /\ d = c /\ i = Len(answers[c]) + 1 /\ answers'[d][i] = new
                   /\ j \in DOMAIN answers[e] /\ answers'[e][j] = answers[e][j]
          BY <5>2, <4>7, <4>8, <4>9
        <5>3. CASE /\ i \in DOMAIN answers[d] /\ answers'[d][i] = answers[d][i]
                   /\ e = c /\ j = Len(answers[c]) + 1 /\ answers'[e][j] = new
          BY <5>3, <4>7, <4>8, <4>9
        <5>4. CASE /\ d = c /\ i = Len(answers[c]) + 1
                   /\ e = c /\ j = Len(answers[c]) + 1
          BY <5>4
        <5> QED BY <4>4, <5>1, <5>2, <5>3, <5>4
      <4> QED BY <4>6, <4>9 DEF RegisteredOnce
    <3> QED BY <2>2, <3>1, <3>2, OnMessageLemma
  <2>3. ASSUME NEW c \in Conns, ClientRequests(c) PROVE RegisteredOnce'
    BY <2>1, <2>3, RequestLemma DEF userVars
  <2>4. CASE InProcess
    BY <2>1, <2>4, InProcessLemma DEF Inv, IdsGrow, connVars
  <2>5. CASE UNCHANGED vars
    BY <2>1, <2>5 DEF vars
  <2> QED BY <2>2, <2>3, <2>4, <2>5 DEF Next
<1> QED BY <1>1, <1>2, InitInv, NextInv, PTL DEF Spec

(* Taking a message and answering it at most once, and sending one more. *)
LEMMA LengthLemma ==
  ASSUME NEW answer \in Seq(Answer), NEW message \in Seq(Message), NEW kind \in Seq(Kinds),
         Len(answer) + Len(message) <= Len(kind)
  PROVE  /\ \A a \in Answer : message # <<>> =>
              /\ Len(answer) + Len(Tail(message)) <= Len(kind)
              /\ Len(Append(answer, a)) + Len(Tail(message)) <= Len(kind)
         /\ \A m \in Message, k \in Kinds :
              Len(answer) + Len(Append(message, m)) <= Len(Append(kind, k))
<1>1. Len(answer) \in Nat /\ Len(message) \in Nat /\ Len(kind) \in Nat
  OBVIOUS
<1>2. message # <<>> => Len(Tail(message)) = Len(message) - 1
  OBVIOUS
<1>3. \A a \in Answer : Len(Append(answer, a)) = Len(answer) + 1
  OBVIOUS
<1>4. \A m \in Message : Len(Append(message, m)) = Len(message) + 1
  OBVIOUS
<1>5. \A k \in Kinds : Len(Append(kind, k)) = Len(kind) + 1
  OBVIOUS
<1> QED BY <1>1, <1>2, <1>3, <1>4, <1>5

(* Requests and answers stay in step: no request is answered twice. *)
THEOREM OneAnswerEachHolds == Spec => []OneAnswerEach
<1>1. Init => OneAnswerEach
  BY DEF Init, OneAnswerEach
<1>2. Inv /\ OneAnswerEach /\ [Next]_vars => OneAnswerEach'
  <2> SUFFICES ASSUME Inv, OneAnswerEach, [Next]_vars PROVE OneAnswerEach'
    OBVIOUS
  <2>0. \A d \in Conns : /\ inbox[d] \in Seq(Message) /\ answers[d] \in Seq(Answer)
                         /\ asked[d] \in Seq(Kinds)
    BY DEF Inv, ConnTypeOK
  <2>1. ASSUME NEW c \in Conns, OnMessage(c) PROVE OneAnswerEach'
    <3>1. /\ inbox[c] # <<>> /\ asked' = asked
          /\ inbox' = [inbox EXCEPT ![c] = Tail(@)]
      BY <2>1, OnMessageLemma
    <3>2. /\ inbox'[c] = Tail(inbox[c])
          /\ \A d \in Conns : d # c => inbox'[d] = inbox[d]
      BY <3>1 DEF Inv, ConnTypeOK
    <3>3. /\ answers'[c] = answers[c] \/ \E a \in Answer : answers'[c] = Append(answers[c], a)
          /\ \A d \in Conns : d # c => answers'[d] = answers[d]
      <4>1. CASE answers' = answers
        BY <4>1
      <4>2. CASE \E kind \in Kinds : IdsGrow /\ SendResponse(c, kind, returned')
        <5>1. PICK kind \in Kinds : IdsGrow /\ SendResponse(c, kind, returned')
          BY <4>2
        <5> DEFINE a == [kind |-> kind, ok |-> returned'.ok, id |-> returned'.id]
        <5>2. a \in Answer
          BY <5>1 DEF IdsGrow, Answer
        <5>3. /\ answers'[c] = Append(answers[c], a)
              /\ \A d \in Conns : d # c => answers'[d] = answers[d]
          BY <5>1, AnswerLemma
        <5> QED BY <5>2, <5>3
      <4> QED BY <2>1, <4>1, <4>2, OnMessageLemma
    <3>4. ASSUME NEW d \in Conns PROVE Len(answers'[d]) + Len(inbox'[d]) <= Len(asked'[d])
      <4>1. Len(answers[d]) + Len(inbox[d]) <= Len(asked[d])
        BY DEF OneAnswerEach
      <4>2. CASE d = c
        <5>1. /\ Len(answers[c]) + Len(Tail(inbox[c])) <= Len(asked[c])
              /\ \A a \in Answer :
                   Len(Append(answers[c], a)) + Len(Tail(inbox[c])) <= Len(asked[c])
          <6>1. Len(answers[c]) + Len(inbox[c]) <= Len(asked[c])
            BY <4>1, <4>2
          <6>2. /\ answers[c] \in Seq(Answer) /\ inbox[c] \in Seq(Message)
                /\ asked[c] \in Seq(Kinds)
            BY <2>0
          <6>3. \A a \in Answer : inbox[c] # <<>> =>
                   /\ Len(answers[c]) + Len(Tail(inbox[c])) <= Len(asked[c])
                   /\ Len(Append(answers[c], a)) + Len(Tail(inbox[c])) <= Len(asked[c])
            BY <6>1, <6>2, LengthLemma
          <6>4. [kind |-> "login", ok |-> FALSE, id |-> 0] \in Answer
            BY DEF Answer, Kinds
          <6> QED BY <3>1, <6>3, <6>4
        <5>2. asked'[c] = asked[c]
          BY <3>1
        <5>3. CASE answers'[c] = answers[c]
          BY <3>2, <4>2, <5>1, <5>2, <5>3
        <5>4. CASE \E a \in Answer : answers'[c] = Append(answers[c], a)
          <6>1. PICK a \in Answer : answers'[c] = Append(answers[c], a)
            BY <5>4
          <6>2. Len(Append(answers[c], a)) + Len(Tail(inbox[c])) <= Len(asked[c])
            BY <5>1
          <6>3. inbox'[c] = Tail(inbox[c])
            BY <3>2
          <6> QED BY <4>2, <5>2, <6>1, <6>2, <6>3
        <5> QED BY <3>3, <5>3, <5>4
      <4>3. CASE d # c
        BY <3>1, <3>2, <3>3, <4>1, <4>3
      <4> QED BY <4>2, <4>3
    <3> QED BY <3>4 DEF OneAnswerEach
  <2>2. ASSUME NEW c \in Conns, ClientRequests(c) PROVE OneAnswerEach'
    <3>1. PICK kind \in Kinds, m \in Message :
           /\ asked' = [asked EXCEPT ![c] = Append(@, kind)]
           /\ inbox' = [inbox EXCEPT ![c] = Append(@, m)]
           /\ answers' = answers
      BY <2>2, RequestLemma
    <3>2. /\ asked'[c] = Append(asked[c], kind) /\ inbox'[c] = Append(inbox[c], m)
          /\ \A d \in Conns : d # c => asked'[d] = asked[d] /\ inbox'[d] = inbox[d]
      BY <3>1 DEF Inv, ConnTypeOK
    <3>3. ASSUME NEW d \in Conns PROVE Len(answers'[d]) + Len(inbox'[d]) <= Len(asked'[d])
      <4>1. Len(answers[d]) + Len(inbox[d]) <= Len(asked[d])
        BY DEF OneAnswerEach
      <4>2. CASE d = c
        <5>1. Len(answers[c]) + Len(Append(inbox[c], m)) <= Len(Append(asked[c], kind))
          BY <2>0, <4>1, <4>2, LengthLemma
        <5> QED BY <3>1, <3>2, <4>2, <5>1
      <4>3. CASE d # c
        BY <3>1, <3>2, <4>1, <4>3
      <4> QED BY <4>2, <4>3
    <3> QED BY <3>3 DEF OneAnswerEach
  <2>3. CASE InProcess
    BY <2>3, InProcessLemma DEF Inv, connVars, OneAnswerEach
  <2>4. CASE UNCHANGED vars
    BY <2>4 DEF vars, OneAnswerEach
  <2> QED BY <2>1, <2>2, <2>3, <2>4 DEF Next
<1> QED BY <1>1, <1>2, InitInv, NextInv, PTL DEF Spec

(* Names and announced ids lead to one user each. *)
THEOREM NamesAreSoundHolds == Spec => []NamesAreSound
BY GameTypeCorrect, UniqueNamesHolds, RegisteredOnceHolds, PTL DEF NamesAreSound

-----------------------------------------------------------------------------
(* The token of a user is the one that his last login returned, or empty. *)
TokensAreGiven ==
  \A id \in DOMAIN users :
    users[id].token = IF id \in DOMAIN given THEN given[id] ELSE Empty

LEMMA RegisterKeepsTokens ==
  ASSUME UsersInv, TokensAreGiven, NEW name \in Strings, NEW password \in Texts,
         RegisterUser(name, password)
  PROVE  TokensAreGiven'
<1>1. CASE UNCHANGED <<users, nextId, given>>
  BY <1>1 DEF TokensAreGiven
<1>2. CASE NewUser(name, password)
  <2>1. /\ users' = [i \in DOMAIN users \cup {nextId} |->
                       IF i = nextId
                       THEN [username |-> name, password |-> password, token |-> Empty]
                       ELSE users[i]]
        /\ given' = given
    BY <1>2 DEF NewUser, AddUser
  <2>2. nextId \notin DOMAIN given
    BY DEF UsersInv, UsersTypeOK, IdsAreBelow
  <2>. QED  BY <2>1, <2>2 DEF TokensAreGiven
<1>. QED  BY <1>1, <1>2 DEF RegisterUser

LEMMA LoginKeepsTokens ==
  ASSUME UsersInv, TokensAreGiven, NEW name \in Strings, NEW password \in Texts,
         NEW stamp \in Stamps, LoginUser(name, password, stamp)
  PROVE  TokensAreGiven'
<1>1. CASE UNCHANGED <<users, nextId, given>>
  BY <1>1 DEF TokensAreGiven
<1>2. ASSUME NEW id \in Matching(name, password), StoreToken(id, <<id, stamp>>),
             given' = [i \in DOMAIN given \cup {id} |->
                         IF i = id THEN <<id, stamp>> ELSE given[i]]
      PROVE  TokensAreGiven'
  <2>1. /\ id \in DOMAIN users /\ users \in [DOMAIN users -> User]
    BY DEF Matching, UsersInv, UsersTypeOK
  <2>2. users' = [users EXCEPT ![id].token = <<id, stamp>>]
    BY <1>2 DEF StoreToken
  <2>3. ASSUME NEW i \in DOMAIN users
        PROVE  users'[i].token = IF i \in DOMAIN given' THEN given'[i] ELSE Empty
    BY <1>2, <2>1, <2>2, <2>3 DEF TokensAreGiven, User
  <2>. QED  BY <2>1, <2>2, <2>3 DEF TokensAreGiven
<1>. QED  BY <1>1, <1>2 DEF LoginUser

LEMMA ValidateKeepsTokens ==
  ASSUME TokensAreGiven, NEW id, NEW token, ValidateToken(id, token)
  PROVE  TokensAreGiven'
BY DEF ValidateToken, TokensAreGiven

LEMMA TokensStep ==
  ASSUME Inv, TokensAreGiven, [Next]_vars
  PROVE  TokensAreGiven'
<1>. USE GameAssumption DEF Inv
<1>1. ASSUME NEW c \in Conns, ClientRequests(c)
      PROVE  TokensAreGiven'
  BY <1>1 DEF ClientRequests, Request, userVars, TokensAreGiven
<1>2. ASSUME NEW c \in Conns, OnMessage(c)
      PROVE  TokensAreGiven'
  <2>. DEFINE m == Head(inbox[c])
  <2>1. CASE UNCHANGED userVars
    BY <2>1 DEF userVars, TokensAreGiven
  <2>2. inbox[c] # <<>>
    BY <1>2 DEF OnMessage, HandleRegister, HandleLogin, HandleHeartbeat, HandleUnknown, Take
  <2>3. m \in Message
    BY <2>2 DEF ConnTypeOK
  <2>4. AsText(m.one) \in Strings /\ m.two \in Texts
    BY <2>3, FieldsLemma
  <2>5. CASE RegisterUser(AsText(m.one), m.two)
    BY <2>4, <2>5, RegisterKeepsTokens
  <2>6. ASSUME NEW stamp \in Stamps, LoginUser(AsText(m.one), m.two, stamp)
        PROVE  TokensAreGiven'
    BY <2>4, <2>6, LoginKeepsTokens
  <2>7. CASE ValidateToken(AsNumber(m.one), m.two)
    BY <2>7, ValidateKeepsTokens
  <2>. QED
    BY <1>2, <2>1, <2>5, <2>6, <2>7
    DEF OnMessage, HandleRegister, HandleLogin, HandleHeartbeat, HandleUnknown
<1>3. CASE InProcess
  <2>1. ASSUME NEW name \in Names, NEW password \in Passwords
        PROVE  name \in Strings /\ password \in Texts
    BY DEF Texts
  <2>. QED
    BY <1>3, <2>1, RegisterKeepsTokens, LoginKeepsTokens, ValidateKeepsTokens DEF InProcess
<1>4. CASE UNCHANGED vars
  BY <1>4 DEF vars, TokensAreGiven
<1>. QED  BY <1>1, <1>2, <1>3, <1>4 DEF Next

(* validateToken accepts what the last login of the user returned and nothing
   else, whoever logs in on which connection in between; before the first
   login of the user it accepts the empty text and nothing else. *)
THEOREM LastLoginCountsHolds == Spec => LastLoginCounts
<1>. DEFINE Accepts ==
       \A id \in DOMAIN users, token \in SomeToken \cup {Empty} :
         ValidateToken(id, token) /\ returned'.ok =>
           IF id \in DOMAIN given THEN token = given[id] ELSE token = Empty
<1>1. Init => TokensAreGiven
  BY DEF Init, UsersInit, TokensAreGiven
<1>2. Inv /\ TokensAreGiven /\ [Next]_vars => TokensAreGiven'
  BY TokensStep
<1>3. TokensAreGiven => Accepts
  BY DEF TokensAreGiven, ValidateToken, ValidToken, Refused
<1>4. TokensAreGiven /\ [Next]_vars => [Accepts]_vars
  BY <1>3
<1>. QED  BY <1>1, <1>2, <1>4, InitInv, NextInv, PTL DEF Spec, LastLoginCounts

=============================================================================
