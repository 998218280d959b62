-------------------------- MODULE CharacterManager --------------------------
(***************************************************************************)
(* CharacterManager: who owns a character, and who is told of it.  Threads *)
(* share the manager through one std::mutex; the callbacks of the program  *)
(* run inside it.  A character is an address; addresses are used again.    *)
(* What characters do when they are updated is the module Characters.      *)
(***************************************************************************)
EXTENDS Integers

CONSTANTS
  Threads,
  NoThread,
  Ids,         \* ids of characters
  Objects,     \* addresses of characters
  Null,        \* nullptr
  Free,        \* the content of an address that is not in use
  BareTypes,   \* types that the program passes to createCharacter
  MayRemove,   \* <<thread, id>>: the thread may remove the id
  Stoppers     \* threads that call shutdown

Classes == {"Character", "Player", "NPC"}
Content == [id : Ids, type : {"PLAYER", "NPC", "MONSTER", "PET"}, class : Classes]

ASSUME ManagerAssumption ==
  /\ NoThread \notin Threads
  /\ Null \notin Objects
  /\ Free \notin Content
  /\ BareTypes \subseteq {"PLAYER", "NPC", "MONSTER", "PET"}
  /\ MayRemove \subseteq Threads \X Ids
  /\ Stoppers \subseteq Threads

VARIABLES
  owner,       \* of mutex_
  object,      \* what is at an address
  charactersMap, characters, players, npcs,
  pc,          \* per thread: outside the manager ("idle"), or where in a method
  at,          \* per thread: the character its method works on
  todo,        \* per thread: what its loop over characters_ has still to visit
  kept,        \* per thread and id: the pointer it got last and may still use
  known        \* history: created callbacks less removed callbacks of an address

lists == <<charactersMap, characters, players, npcs>>
managerVars == <<owner, object, lists, pc, at, todo, kept, known>>

ManagerInit ==
  /\ owner = NoThread
  /\ object = [o \in Objects |-> Free]
  /\ charactersMap = [i \in Ids |-> Null]
  /\ characters = {} /\ players = {} /\ npcs = {}
  /\ pc = [t \in Threads |-> "idle"]
  /\ at = [t \in Threads |-> Null]
  /\ todo = [t \in Threads |-> {}]
  /\ kept = [t \in Threads |-> [i \in Ids |-> Null]]
  /\ known = [o \in Objects |-> 0]

-----------------------------------------------------------------------------
(* lock_guard: a method begins, and ends. *)
Enter(t, place) ==
  /\ owner = NoThread /\ pc[t] = "idle"
  /\ owner' = t /\ pc' = [pc EXCEPT ![t] = place]
Leave(t, place) ==
  /\ pc[t] = place
  /\ owner' = NoThread /\ pc' = [pc EXCEPT ![t] = "idle"]
Between(t, place, next) ==
  /\ pc[t] = place /\ pc' = [pc EXCEPT ![t] = next]

(* createCharacter, createPlayer, createNPC: nothing for an id that is in use;
   otherwise up to the callback. *)
Create(t, i, type, class) ==
  /\ charactersMap[i] = Null
  /\ Enter(t, "created")
  /\ \E o \in Objects :
       /\ object[o] = Free
       /\ object' = [object EXCEPT ![o] = [id |-> i, type |-> type, class |-> class]]
       /\ charactersMap' = [charactersMap EXCEPT ![i] = o]
       /\ characters' = characters \cup {o}
       /\ players' = players \cup IF class = "Player" THEN {o} ELSE {}
       /\ npcs' = npcs \cup IF class = "NPC" THEN {o} ELSE {}
       /\ at' = [at EXCEPT ![t] = o]
       /\ known' = [known EXCEPT ![o] = @ + 1]
  /\ UNCHANGED <<todo, kept>>

CreateCharacter(t, i) == \E type \in BareTypes : Create(t, i, type, "Character")
CreatePlayer(t, i) == Create(t, i, "PLAYER", "Player")
CreateNPC(t, i) == Create(t, i, "NPC", "NPC")

(* The callback returns, and the method returns the pointer. *)
Created(t) ==
  /\ Leave(t, "created")
  /\ kept' = [kept EXCEPT ![t][object[at[t]].id] = at[t]]
  /\ at' = [at EXCEPT ![t] = Null]
  /\ UNCHANGED <<object, lists, todo, known>>

-----------------------------------------------------------------------------
(* removeCharacter, up to the callback.  The caller forgets its pointer. *)
Remove(t, i) ==
  /\ <<t, i>> \in MayRemove /\ charactersMap[i] # Null
  /\ Enter(t, "removed")
  /\ at' = [at EXCEPT ![t] = charactersMap[i]]
  /\ kept' = [kept EXCEPT ![t][i] = Null]
  /\ known' = [known EXCEPT ![charactersMap[i]] = @ - 1]
  /\ UNCHANGED <<object, lists, todo>>

(* Seeded fault: the list of the players is forgotten. *)
EraseKeepingPlayer(t) ==
  LET o == at[t] IN
  /\ Between(t, "removed", "erased")
  /\ characters' = characters \ {o}
  /\ npcs' = IF object[o].type = "NPC" THEN npcs \ {o} ELSE npcs
  /\ charactersMap' = [charactersMap EXCEPT ![object[o].id] = Null]
  /\ object' = [object EXCEPT ![o] = Free]
  /\ UNCHANGED <<owner, players, at, todo, kept, known>>
(* The character leaves the lists of its type; erasing the map entry frees it. *)
Erase(t) ==
  LET o == at[t] IN
  /\ Between(t, "removed", "erased")
  /\ characters' = characters \ {o}
  /\ players' = IF object[o].type = "PLAYER" THEN players \ {o} ELSE players
  /\ npcs' = IF object[o].type = "NPC" THEN npcs \ {o} ELSE npcs
  /\ charactersMap' = [charactersMap EXCEPT ![object[o].id] = Null]
  /\ object' = [object EXCEPT ![o] = Free]
  /\ UNCHANGED <<owner, at, todo, kept, known>>

(* The log line after it reads the name of the freed character. *)
Removed(t) ==
  /\ Leave(t, "erased")
  /\ at' = [at EXCEPT ![t] = Null]
  /\ UNCHANGED <<object, lists, todo, kept, known>>

(* Seeded fault: shutdown clears the containers without the callbacks. *)
ShutdownSilently(t) ==
  /\ t \in Stoppers
  /\ Enter(t, "clear")
  /\ kept' = [kept EXCEPT ![t] = [i \in Ids |-> Null]]
  /\ UNCHANGED <<object, lists, at, todo, known>>
(* shutdown: removeAllCharacters inside the mutex. *)
Shutdown(t) ==
  /\ t \in Stoppers
  /\ Enter(t, "clear")
  /\ todo' = [todo EXCEPT ![t] = characters]
  /\ kept' = [kept EXCEPT ![t] = [i \in Ids |-> Null]]
  /\ UNCHANGED <<object, lists, at, known>>

(* removeAllCharacters by itself takes no lock. *)
RemoveAllCharacters(t) ==
  /\ pc[t] = "idle"
  /\ pc' = [pc EXCEPT ![t] = "clearUnlocked"]
  /\ todo' = [todo EXCEPT ![t] = characters]
  /\ kept' = [kept EXCEPT ![t] = [i \in Ids |-> Null]]
  /\ UNCHANGED <<owner, object, lists, at, known>>

Clearing == {"clear", "clearUnlocked"}

(* One round of the loop, with its callback. *)
Announce(t) ==
  /\ pc[t] \in Clearing
  /\ \E o \in todo[t] :
       /\ todo' = [todo EXCEPT ![t] = @ \ {o}]
       /\ known' = [known EXCEPT ![o] = @ - 1]
  /\ UNCHANGED <<owner, object, lists, pc, at, kept>>

(* The lists are cleared and the characters freed, and the method returns. *)
Clear(t) ==
  /\ pc[t] \in Clearing /\ todo[t] = {}
  /\ pc' = [pc EXCEPT ![t] = "idle"]
  /\ owner' = IF pc[t] = "clear" THEN NoThread ELSE owner
  /\ object' = [o \in Objects |->
                  IF \E i \in Ids : charactersMap[i] = o THEN Free ELSE object[o]]
  /\ charactersMap' = [i \in Ids |-> Null]
  /\ characters' = {} /\ players' = {} /\ npcs' = {}
  /\ UNCHANGED <<at, todo, kept, known>>

-----------------------------------------------------------------------------
(* Seeded fault: update works on a copy of the list, outside the mutex. *)
UpdateCopy(t) ==
  /\ owner = NoThread /\ pc[t] = "idle"
  /\ pc' = [pc EXCEPT ![t] = "update"]
  /\ todo' = [todo EXCEPT ![t] = characters]
  /\ UNCHANGED <<owner, object, lists, at, kept, known>>
(* update: every character in turn. *)
Update(t) ==
  /\ Enter(t, "update")
  /\ todo' = [todo EXCEPT ![t] = characters]
  /\ UNCHANGED <<object, lists, at, kept, known>>

UpdateOne(t) ==
  /\ pc[t] = "update"
  /\ \E o \in todo[t] : todo' = [todo EXCEPT ![t] = @ \ {o}]
  /\ UNCHANGED <<owner, object, lists, pc, at, kept, known>>

Updated(t) ==
  /\ todo[t] = {} /\ Leave(t, "update")
  /\ UNCHANGED <<object, lists, at, todo, kept, known>>

(* Whatever a method finds, it gives the caller a pointer past the mutex. *)
Give(t, found) ==
  /\ owner = NoThread /\ pc[t] = "idle"
  /\ kept' = [kept EXCEPT ![t] = [i \in Ids |->
                IF charactersMap[i] \in found THEN charactersMap[i] ELSE @[i]]]
  /\ UNCHANGED <<owner, object, lists, pc, at, todo, known>>

(* getCharacter, getPlayer, getNPC: the type of the character decides the cast. *)
OfType(type) == {o \in characters : object[o].type = type}
Get(t, i) ==
  \E among \in {characters, OfType("PLAYER"), OfType("NPC")} :
    Give(t, among \cap {charactersMap[i]})
(* getCharactersInRange, getPlayersInRange, getNPCsInRange. *)
GetInRange(t) ==
  \E list \in {characters, players, npcs} : \E near \in SUBSET list : Give(t, near)

(* A callback that calls a method of the manager waits for its own mutex. *)
Inside == {"created", "removed", "update", "clear"}
Nested(t) ==
  /\ pc[t] \in Inside /\ owner = t
  /\ pc' = [pc EXCEPT ![t] = "hung"]
  /\ UNCHANGED <<owner, object, lists, at, todo, kept, known>>

ManagerStep(t) ==
  \/ \E i \in Ids : CreateCharacter(t, i) \/ CreatePlayer(t, i) \/ CreateNPC(t, i)
                    \/ Remove(t, i) \/ Get(t, i)
  \/ Created(t) \/ Erase(t) \/ Removed(t)
  \/ Shutdown(t) \/ Announce(t) \/ Clear(t)
  \/ Update(t) \/ UpdateOne(t) \/ Updated(t)
  \/ GetInRange(t) \/ Nested(t)

ManagerNext == \E t \in Threads : ManagerStep(t)

ManagerSpec == ManagerInit /\ [][ManagerNext]_managerVars

(* The same where a thread calls removeAllCharacters by itself. *)
UnlockedSpec ==
  ManagerInit /\ [][ManagerNext \/ \E t \in Threads : RemoveAllCharacters(t)]_managerVars

-----------------------------------------------------------------------------
(* Properties. *)

ManagerTypeOK ==
  /\ owner \in Threads \cup {NoThread}
  /\ object \in [Objects -> Content \cup {Free}]
  /\ charactersMap \in [Ids -> Objects \cup {Null}]
  /\ characters \subseteq Objects /\ players \subseteq Objects /\ npcs \subseteq Objects
  /\ pc \in [Threads -> {"idle", "created", "removed", "erased", "clear",
                         "clearUnlocked", "update", "hung"}]
  /\ at \in [Threads -> Objects \cup {Null}]
  /\ todo \in [Threads -> SUBSET Objects]
  /\ kept \in [Threads -> [Ids -> Objects \cup {Null}]]
  /\ known \in [Objects -> Int]

(* The four containers describe the same characters: the list is what the map
   owns, each under its own id; players_ and npcs_ are those of the classes, and
   a type found in the map may be cast to its class. *)
ContainersAgree ==
  /\ ManagerTypeOK
  /\ characters = {o \in Objects : object[o] # Free}
  /\ \A i \in Ids : charactersMap[i] # Null =>
       charactersMap[i] \in characters /\ object[charactersMap[i]].id = i
  /\ \A o \in characters :
       /\ charactersMap[object[o].id] = o
       /\ o \in players <=> object[o].class = "Player"
       /\ o \in npcs <=> object[o].class = "NPC"
       /\ object[o].type = "PLAYER" <=> object[o].class = "Player"
       /\ object[o].type = "NPC" <=> object[o].class = "NPC"
  /\ players \cup npcs \subseteq characters

(* A program that follows the callbacks knows exactly the characters that exist,
   whenever no method runs: each is announced once, and taken back once, before
   it is freed, whatever is used again in between. *)
CallbacksTrack ==
  /\ \A o \in Objects : known[o] \in {0, 1}
  /\ \A o \in Objects : object[o] = Free => known[o] = 0
  /\ owner = NoThread => \A o \in characters : known[o] = 1

(* No method works on a character that another one frees: what a callback is
   given, and what a loop has still to visit, is there.  And a pointer that a
   caller keeps is good as long as no other thread may remove its id. *)
Removers(i) == Stoppers \cup {t \in Threads : <<t, i>> \in MayRemove}
HeldObjectsLive ==
  \A t \in Threads :
    /\ pc[t] \in {"created", "removed"} => at[t] \in characters
    /\ todo[t] \subseteq characters
    /\ \A i \in Ids : kept[t][i] # Null /\ Removers(i) \subseteq {t} =>
         kept[t][i] \in characters /\ object[kept[t][i]].id = i

(* A pointer that getCharacter returned is to the character it was asked for. *)
KeptPointersLive ==
  \A t \in Threads, i \in Ids : kept[t][i] # Null =>
    object[kept[t][i]] # Free /\ object[kept[t][i]].id = i

(* Nothing is read of a character that has been freed. *)
FreedIsNotRead == \A t \in Threads : at[t] # Null => object[at[t]] # Free

(* A call of the manager comes back. *)
NobodyHangs == \A t \in Threads : pc[t] # "hung"
=============================================================================
