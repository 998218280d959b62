---------------------------- MODULE UserManager ----------------------------
(***************************************************************************)
(* game::UserManager: the users of the game server.  Every operation runs  *)
(* under users_mutex_ from its first statement to its last, and is one     *)
(* step.  A step leaves what it returns in "returned".                     *)
(***************************************************************************)
EXTENDS Naturals, FiniteSets

CONSTANTS
  Strings,   \* usernames, passwords
  Empty,     \* the empty string
  Stamps,    \* time and random number of a token
  MaxUsers   \* bound

ASSUME UserAssumption == Empty \in Strings /\ MaxUsers \in Nat

VARIABLES
  users,     \* users_: id -> user
  nextId,    \* next_user_id_
  returned,  \* what the last operation returned
  given      \* history: what the last login of a user returned, if there was one

userVars == <<users, nextId, returned, given>>

(* generateToken: the id is a part of the token. *)
Tokens == Nat \X Stamps
Texts == Strings \cup Tokens
User == [username : Strings, password : Texts, token : Texts]

NoUser == 0  \* the id in an answer that names nobody
Refused == [ok |-> FALSE, id |-> NoUser, token |-> Empty]

UsersInit ==
  /\ users = [id \in {} |-> Empty]
  /\ nextId = 1
  /\ returned = Refused
  /\ given = [id \in {} |-> Empty]

-----------------------------------------------------------------------------
Known(name) == \E id \in DOMAIN users : users[id].username = name

(* A new user has the empty token: no login has given him one yet. *)
AddUser(id, name, password) ==
  /\ users' = [i \in DOMAIN users \cup {id} |->
                 IF i = id
                 THEN [username |-> name, password |-> password, token |-> Empty]
                 ELSE users[i]]
  /\ returned' = [ok |-> TRUE, id |-> id, token |-> Empty]
  /\ UNCHANGED given

NewUser(name, password) ==
  nextId <= MaxUsers /\ nextId' = nextId + 1 /\ AddUser(nextId, name, password)

(* Seeded fault: a user is known by name and password. *)
RegisterUserByPair(name, password) ==
  IF \E id \in DOMAIN users :
       users[id].username = name /\ users[id].password = password
  THEN returned' = Refused /\ UNCHANGED <<users, nextId, given>>
  ELSE NewUser(name, password)

(* registerUser. *)
RegisterUser(name, password) ==
  IF \E id \in DOMAIN users : users[id].username = name
  THEN returned' = Refused /\ UNCHANGED <<users, nextId, given>>
  ELSE NewUser(name, password)

(* The users that loginUser may come to first in its unordered map. *)
Matching(name, password) ==
  {id \in DOMAIN users :
     users[id].username = name /\ users[id].password = password}

(* Seeded fault: the token of an earlier login is kept. *)
KeepToken(id, token) ==
  users' = [users EXCEPT ![id].token = IF @ = Empty THEN token ELSE @]
(* The token is stored in the map, not in the copy that is returned. *)
StoreToken(id, token) == users' = [users EXCEPT ![id].token = token]

(* loginUser. *)
LoginUser(name, password, stamp) ==
  \/ /\ Matching(name, password) = {}
     /\ returned' = Refused
     /\ UNCHANGED <<users, nextId, given>>
  \/ \E id \in Matching(name, password) :
       /\ StoreToken(id, <<id, stamp>>)
       /\ given' = [i \in DOMAIN given \cup {id} |->
                      IF i = id THEN <<id, stamp>> ELSE given[i]]
       /\ returned' = [ok |-> TRUE, id |-> id, token |-> <<id, stamp>>]
       /\ UNCHANGED nextId

(* validateToken. *)
ValidToken(id, token) == id \in DOMAIN users /\ users[id].token = token

ValidateToken(id, token) ==
  /\ returned' = IF ValidToken(id, token)
                 THEN [ok |-> TRUE, id |-> id, token |-> token] ELSE Refused
  /\ UNCHANGED <<users, nextId, given>>

-----------------------------------------------------------------------------
UsersTypeOK ==
  /\ nextId \in Nat \ {0}
  /\ users \in [DOMAIN users -> User] /\ DOMAIN users \subseteq Nat \ {NoUser}
  /\ given \in [DOMAIN given -> Tokens] /\ DOMAIN given \subseteq DOMAIN users
  /\ returned \in [ok : BOOLEAN, id : Nat, token : Texts]
=============================================================================
