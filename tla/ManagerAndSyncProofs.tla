------------------------ MODULE ManagerAndSyncProofs -------------------------
(***************************************************************************)
(* The containers of CharacterManager agree, its callbacks are exact, and  *)
(* nobody works on a freed character, for any number of threads, ids and   *)
(* addresses.  Then NetworkSync: it loses no mark, makes nobody immortal   *)
(* that no data declared dead, and its echoes do no harm, for any          *)
(* interval, history, clock, data and place among the components.          *)
(***************************************************************************)
EXTENDS CharacterManager, NetworkSync, TLAPS, WellFoundedInduction

(* CharacterManager. *)

(* createCharacter is not asked for a player or an NPC: getPlayer and getNPC
   would cast what it makes to a class it does not have. *)
ProperTypes == BareTypes \subseteq {"MONSTER", "PET"}

(* A thread is inside a method exactly when it owns the mutex. *)
Locked ==
  \A t \in Threads : /\ pc[t] # "clearUnlocked"
                     /\ pc[t] # "idle" <=> owner = t

(* What a method works on exists; its loop has nothing left outside the loops. *)
Working ==
  \A t \in Threads :
    /\ pc[t] \in {"created", "removed"} => at[t] \in characters
    /\ todo[t] \subseteq characters
    /\ pc[t] \notin {"clear", "update", "hung"} => todo[t] = {}

(* The characters a method has taken back but not yet freed. *)
Revoked(t) ==
  CASE pc[t] = "removed" -> {at[t]}
    [] pc[t] = "clear" -> characters \ todo[t]
    [] OTHER -> {}

Known ==
  /\ \A o \in Objects : known[o] \in {0, 1}
  /\ \A o \in Objects : object[o] = Free => known[o] = 0
  /\ \A t \in Threads : \A o \in Revoked(t) : known[o] = 0
  /\ (\A t \in Threads : pc[t] # "hung") =>
       \A o \in characters : known[o] = 0 => \E t \in Threads : o \in Revoked(t)

(* Who removes may remove, and has forgotten its own pointer. *)
Kept ==
  \A t \in Threads :
    /\ pc[t] = "removed" => /\ <<t, object[at[t]].id>> \in MayRemove
                            /\ kept[t][object[at[t]].id] = Null
    /\ pc[t] = "clear" => t \in Stoppers /\ \A i \in Ids : kept[t][i] = Null
    /\ \A i \in Ids : kept[t][i] # Null /\ Removers(i) \subseteq {t} =>
         kept[t][i] \in characters /\ object[kept[t][i]].id = i

ManagerInv == ContainersAgree /\ Locked /\ Working /\ Known /\ Kept


LEMMA InitHolds == ManagerInit => ManagerInv
<1> SUFFICES ASSUME ManagerInit PROVE ManagerInv
  OBVIOUS
<1>. USE ManagerAssumption DEF ManagerInit
<1>1. ManagerTypeOK
  BY DEF ManagerTypeOK
<1>2. ContainersAgree
  BY <1>1 DEF ContainersAgree
<1>3. Locked /\ Working
  BY DEF Locked, Working
<1>4. Known
  BY DEF Known, Revoked
<1>5. Kept
  BY DEF Kept
<1>. QED  BY <1>2, <1>3, <1>4, <1>5 DEF ManagerInv

LEMMA CreateHolds ==
  ASSUME ManagerInv, NEW t \in Threads, NEW i \in Ids,
         NEW type \in {"PLAYER", "NPC", "MONSTER", "PET"}, NEW class \in Classes,
         type = "PLAYER" <=> class = "Player", type = "NPC" <=> class = "NPC",
         Create(t, i, type, class)
  PROVE  ManagerInv'
<1>. USE ManagerAssumption
<1>1. PICK o \in Objects :
        /\ object[o] = Free
        /\ object' = [object EXCEPT ![o] = [id |-> i, type |-> type, class |-> class]]
        /\ charactersMap' = [charactersMap EXCEPT ![i] = o]
        /\ characters' = characters \cup {o}
        /\ players' = players \cup IF class = "Player" THEN {o} ELSE {}
        /\ npcs' = npcs \cup IF class = "NPC" THEN {o} ELSE {}
        /\ at' = [at EXCEPT ![t] = o]
        /\ known' = [known EXCEPT ![o] = @ + 1]
  BY DEF Create
<1>2. /\ charactersMap[i] = Null /\ owner = NoThread /\ pc[t] = "idle"
      /\ owner' = t /\ pc' = [pc EXCEPT ![t] = "created"]
      /\ UNCHANGED <<todo, kept>>
  BY DEF Create, Enter
<1>3. [id |-> i, type |-> type, class |-> class] \in Content
  BY DEF Content
<1>4. ManagerTypeOK'
  BY <1>1, <1>2, <1>3 DEF ManagerInv, ContainersAgree, ManagerTypeOK
<1>5. o \notin characters
  BY <1>1 DEF ManagerInv, ContainersAgree
<1>6. ContainersAgree'
  BY <1>1, <1>2, <1>3, <1>4, <1>5 DEF ManagerInv, ContainersAgree, ManagerTypeOK, Content
<1>7. Locked' /\ Working'
  BY <1>1, <1>2 DEF ManagerInv, Locked, Working, ContainersAgree, ManagerTypeOK
<1>8. \A u \in Threads : pc[u] = "idle" /\ pc'[u] \in {"idle", "created"}
  BY <1>2 DEF ManagerInv, Locked, ContainersAgree, ManagerTypeOK
<1>9. Known'
  <2>1. \A u \in Threads : Revoked(u) = {} /\ Revoked(u)' = {}
    BY <1>8 DEF Revoked
  <2>2. \A p \in characters : known[p] # 0
    BY <1>8, <2>1 DEF ManagerInv, Known
  <2>3. known[o] = 0 /\ known \in [Objects -> Int]
    BY <1>1 DEF ManagerInv, Known, ContainersAgree, ManagerTypeOK
  <2>4. \A p \in Objects : known'[p] = IF p = o THEN 1 ELSE known[p]
    BY <1>1, <2>3
  <2>5. \A p \in Objects : object'[p] = Free => object[p] = Free /\ p # o
    <3>1. object'[o] \in Content /\ \A p \in Objects \ {o} : object'[p] = object[p]
      BY <1>1, <1>3 DEF ManagerInv, ContainersAgree, ManagerTypeOK
    <3>2. object'[o] # Free
      BY <3>1, ManagerAssumption
    <3>. QED  BY <3>1, <3>2
  <2>6. characters \subseteq Objects
    BY DEF ManagerInv, ContainersAgree, ManagerTypeOK
  <2>. QED  BY <1>1, <2>1, <2>2, <2>4, <2>5, <2>6 DEF ManagerInv, Known
<1>10. Kept'
  <2>1. \A u \in Threads : pc'[u] # "removed" /\ pc'[u] # "clear"
    BY <1>8
  <2>2. \A p \in characters : p # o /\ object'[p] = object[p] /\ p \in characters'
    BY <1>1, <1>5 DEF ManagerInv, ContainersAgree, ManagerTypeOK
  <2>3. kept' = kept /\ Kept
    BY <1>2 DEF ManagerInv
  <2>4. ASSUME NEW u \in Threads, NEW j \in Ids, kept'[u][j] # Null, Removers(j) \subseteq {u}
        PROVE  kept'[u][j] \in characters' /\ object'[kept'[u][j]].id = j
    <3>1. kept[u][j] \in characters /\ object[kept[u][j]].id = j
      BY <2>3, <2>4 DEF Kept
    <3>. QED  BY <3>1, <2>2, <2>3
  <2>. QED  BY <2>1, <2>4 DEF Kept
<1>. QED  BY <1>6, <1>7, <1>9, <1>10 DEF ManagerInv

(* A step that changes neither characters nor containers nor announcements. *)
LEMMA QuietHolds ==
  ASSUME ManagerInv, UNCHANGED <<object, lists, known>>,
         owner' \in Threads \cup {NoThread},
         at' \in [Threads -> Objects \cup {Null}],
         Locked', Working', Kept',
         \A t \in Threads : Revoked(t)' = Revoked(t),
         kept' \in [Threads -> [Ids -> Objects \cup {Null}]],
         pc' \in [Threads -> {"idle", "created", "removed", "erased", "clear",
                              "clearUnlocked", "update", "hung"}],
         todo' \in [Threads -> SUBSET Objects],
         \A t \in Threads : pc'[t] # "hung" => pc[t] # "hung"
  PROVE  ManagerInv'
<1>1. ManagerTypeOK'
  BY DEF ManagerInv, ContainersAgree, ManagerTypeOK, lists
<1>2. ContainersAgree'
  BY <1>1 DEF ManagerInv, ContainersAgree, lists
<1>3. Known'
  BY DEF ManagerInv, Known, lists
<1>. QED  BY <1>2, <1>3 DEF ManagerInv

(* A thread enters its method alone. *)
LEMMA Alone ==
  ASSUME ManagerInv, owner = NoThread
  PROVE  \A u \in Threads : pc[u] = "idle" /\ todo[u] = {} /\ Revoked(u) = {}
BY ManagerAssumption DEF ManagerInv, Locked, Working, Revoked

(* While a thread is inside, the others are outside. *)
LEMMA Inside1 ==
  ASSUME ManagerInv, NEW t \in Threads, pc[t] # "idle"
  PROVE  /\ owner = t
         /\ \A u \in Threads \ {t} : pc[u] = "idle" /\ todo[u] = {} /\ Revoked(u) = {}
BY DEF ManagerInv, Locked, Working, Revoked

LEMMA CreatedHolds ==
  ASSUME ManagerInv, NEW t \in Threads, Created(t)
  PROVE  ManagerInv'
<1>. USE DEF Created, Leave
<1>1. pc[t] = "created" /\ at[t] \in characters /\ at[t] \in Objects
  BY DEF ManagerInv, Working, ContainersAgree, ManagerTypeOK
<1>2. object[at[t]] \in Content
  BY <1>1 DEF ManagerInv, ContainersAgree, ManagerTypeOK
<1>3. object[at[t]].id \in Ids
  BY <1>2 DEF Content
<1>4. /\ pc' \in [Threads -> {"idle", "created", "removed", "erased", "clear",
                              "clearUnlocked", "update", "hung"}]
      /\ kept' \in [Threads -> [Ids -> Objects \cup {Null}]]
      /\ at' \in [Threads -> Objects \cup {Null}]
      /\ todo' \in [Threads -> SUBSET Objects]
  BY <1>1, <1>3 DEF ManagerInv, ContainersAgree, ManagerTypeOK
<1>6. \A u \in Threads : pc'[u] = "idle" /\ todo'[u] = {}
  BY <1>1, Inside1 DEF ManagerInv, ContainersAgree, ManagerTypeOK, Working
<1>7. Locked' /\ Working'
  BY <1>6, ManagerAssumption DEF Locked, Working
<1>8. Kept'
  BY <1>1, <1>3, <1>6 DEF ManagerInv, Kept, ContainersAgree, ManagerTypeOK, lists
<1>9. \A u \in Threads : Revoked(u) = {} /\ Revoked(u)' = {}
  BY <1>1, <1>6, Inside1 DEF Revoked
<1>10. \A u \in Threads : pc[u] # "hung"
  BY <1>1, Inside1
<1>. QED  BY <1>4, <1>7, <1>8, <1>9, <1>10, QuietHolds

LEMMA RemoveHolds ==
  ASSUME ManagerInv, NEW t \in Threads, NEW i \in Ids, Remove(t, i)
  PROVE  ManagerInv'
<1>. DEFINE o == charactersMap[i]
<1>. USE ManagerAssumption
<1>1. /\ o # Null /\ owner = NoThread /\ pc[t] = "idle" /\ <<t, i>> \in MayRemove
      /\ owner' = t /\ pc' = [pc EXCEPT ![t] = "removed"]
      /\ at' = [at EXCEPT ![t] = o]
      /\ kept' = [kept EXCEPT ![t][i] = Null]
      /\ known' = [known EXCEPT ![o] = @ - 1]
      /\ UNCHANGED <<object, charactersMap, characters, players, npcs, todo>>
  BY DEF Remove, Enter, lists
<1>2. o \in characters /\ o \in Objects /\ object[o].id = i
  BY <1>1 DEF ManagerInv, ContainersAgree, ManagerTypeOK
<1>. HIDE DEF o
<1>3. \A u \in Threads : pc[u] = "idle" /\ todo[u] = {} /\ Revoked(u) = {}
  BY <1>1, Alone
<1>4. ManagerTypeOK'
  BY <1>1, <1>2 DEF ManagerInv, ContainersAgree, ManagerTypeOK
<1>5. ContainersAgree'
  BY <1>1, <1>4 DEF ManagerInv, ContainersAgree
<1>6. /\ \A u \in Threads : pc'[u] = IF u = t THEN "removed" ELSE "idle"
      /\ at'[t] = o
  BY <1>1, <1>3 DEF ManagerInv, ContainersAgree, ManagerTypeOK
<1>7. Locked' /\ Working'
  BY <1>1, <1>2, <1>3, <1>6 DEF Locked, Working
<1>8. Known'
  <2>1. known[o] = 1 /\ known \in [Objects -> Int]
    BY <1>2, <1>3 DEF ManagerInv, Known, ContainersAgree, ManagerTypeOK
  <2>2. \A p \in Objects : known'[p] = IF p = o THEN 0 ELSE known[p]
    BY <1>1, <2>1
  <2>3. \A u \in Threads : Revoked(u)' = IF u = t THEN {o} ELSE {}
    BY <1>6 DEF Revoked
  <2>4. \A p \in characters : p \in Objects /\ known[p] # 0
    BY <1>3 DEF ManagerInv, Known, ContainersAgree, ManagerTypeOK
  <2>. QED  BY <1>1, <1>2, <2>2, <2>3, <2>4 DEF ManagerInv, Known
<1>9. Kept'
  <2>1. /\ kept'[t][i] = Null
        /\ \A u \in Threads, j \in Ids : kept'[u][j] # Null => kept'[u][j] = kept[u][j]
    <3>1. kept \in [Threads -> [Ids -> Objects \cup {Null}]]
      BY DEF ManagerInv, ContainersAgree, ManagerTypeOK
    <3>2. \A u \in Threads, j \in Ids :
            kept'[u][j] = IF u = t /\ j = i THEN Null ELSE kept[u][j]
      BY <1>1, <3>1
    <3>. QED  BY <3>2
  <2>2. ASSUME NEW u \in Threads, NEW j \in Ids, kept'[u][j] # Null, Removers(j) \subseteq {u}
        PROVE  kept'[u][j] \in characters' /\ object'[kept'[u][j]].id = j
    <3>1. kept'[u][j] = kept[u][j] /\ kept[u][j] # Null
      BY <2>1, <2>2
    <3>2. kept[u][j] \in characters /\ object[kept[u][j]].id = j
      BY <3>1, <2>2 DEF ManagerInv, Kept
    <3>. QED  BY <3>1, <3>2, <1>1
  <2>. QED  BY <1>1, <1>2, <1>6, <2>1, <2>2 DEF Kept
<1>. QED  BY <1>5, <1>7, <1>8, <1>9 DEF ManagerInv

LEMMA EraseHolds ==
  ASSUME ManagerInv, NEW t \in Threads, Erase(t)
  PROVE  ManagerInv'
<1>. DEFINE o == at[t]
<1>. USE ManagerAssumption
<1>1. /\ pc[t] = "removed" /\ pc' = [pc EXCEPT ![t] = "erased"]
      /\ characters' = characters \ {o}
      /\ players' = IF object[o].type = "PLAYER" THEN players \ {o} ELSE players
      /\ npcs' = IF object[o].type = "NPC" THEN npcs \ {o} ELSE npcs
      /\ charactersMap' = [charactersMap EXCEPT ![object[o].id] = Null]
      /\ object' = [object EXCEPT ![o] = Free]
      /\ UNCHANGED <<owner, at, todo, kept, known>>
  BY DEF Erase, Between
<1>2. o \in characters /\ o \in Objects
  BY <1>1 DEF ManagerInv, Working, ContainersAgree, ManagerTypeOK
<1>3. /\ <<t, object[o].id>> \in MayRemove /\ kept[t][object[o].id] = Null
      /\ known[o] = 0
  BY <1>1 DEF ManagerInv, Kept, Known, Revoked
<1>4. Revoked(t) = {o}
  BY <1>1 DEF Revoked
<1>. HIDE DEF o
<1>5. owner = t /\ \A u \in Threads \ {t} : pc[u] = "idle" /\ todo[u] = {} /\ Revoked(u) = {}
  BY <1>1, Inside1
<1>6. \A u \in Threads : pc'[u] = IF u = t THEN "erased" ELSE "idle"
  BY <1>1, <1>5 DEF ManagerInv, ContainersAgree, ManagerTypeOK
<1>7. \A p \in Objects : object'[p] = IF p = o THEN Free ELSE object[p]
  BY <1>1 DEF ManagerInv, ContainersAgree, ManagerTypeOK
<1>8. ManagerTypeOK'
  BY <1>1, <1>2, <1>6 DEF ManagerInv, ContainersAgree, ManagerTypeOK
<1>9. \A p \in characters : p \in Objects /\ object[p].id \in Ids
  BY DEF ManagerInv, ContainersAgree, ManagerTypeOK, Content
<1>10. ContainersAgree'
  <2>1. characters' = {p \in Objects : object'[p] # Free}
    BY <1>1, <1>2, <1>7 DEF ManagerInv, ContainersAgree
  <2>2. \A p \in characters' :
          p # o /\ p \in characters /\ object'[p] = object[p] /\ object[p].id # object[o].id
    BY <1>1, <1>2, <1>7, <1>9 DEF ManagerInv, ContainersAgree
  <2>3. \A j \in Ids : charactersMap'[j] =
          IF j = object[o].id THEN Null ELSE charactersMap[j]
    BY <1>1 DEF ManagerInv, ContainersAgree, ManagerTypeOK
  <2>4. ASSUME NEW j \in Ids, charactersMap'[j] # Null
        PROVE  charactersMap'[j] \in characters' /\ object'[charactersMap'[j]].id = j
    <3>1. /\ j # object[o].id /\ charactersMap'[j] = charactersMap[j]
          /\ charactersMap[j] \in characters /\ object[charactersMap[j]].id = j
      BY <2>3, <2>4 DEF ManagerInv, ContainersAgree
    <3>2. charactersMap[j] \in characters'
      BY <3>1, <1>1
    <3>. QED  BY <3>1, <3>2, <2>2
  <2>5. players' = players \ {o} /\ npcs' = npcs \ {o}
    BY <1>1, <1>2 DEF ManagerInv, ContainersAgree
  <2>6. \A p \in characters' :
       /\ charactersMap'[object'[p].id] = p
       /\ p \in players' <=> object'[p].class = "Player"
       /\ p \in npcs' <=> object'[p].class = "NPC"
       /\ object'[p].type = "PLAYER" <=> object'[p].class = "Player"
       /\ object'[p].type = "NPC" <=> object'[p].class = "NPC"
    BY <2>2, <2>3, <2>5, <1>9 DEF ManagerInv, ContainersAgree
  <2>7. players' \cup npcs' \subseteq characters'
    BY <2>5, <1>1 DEF ManagerInv, ContainersAgree
  <2>. QED  BY <1>8, <2>1, <2>4, <2>6, <2>7 DEF ContainersAgree
<1>11. Locked' /\ Working'
  <2>1. todo[t] = {}
    BY <1>1 DEF ManagerInv, Working
  <2>. QED  BY <1>1, <1>5, <1>6, <2>1 DEF Locked, Working
<1>12. Known'
  <2>1. \A u \in Threads : Revoked(u)' = {}
    BY <1>6 DEF Revoked
  <2>2. \A u \in Threads : pc[u] # "hung"
    BY <1>1, <1>5
  <2>3. \A p \in characters' : known[p] # 0
    BY <1>1, <1>4, <1>5, <2>2 DEF ManagerInv, Known
  <2>. QED  BY <1>1, <1>3, <1>7, <2>1, <2>3 DEF ManagerInv, Known
<1>13. Kept'
  <2>2. ASSUME NEW u \in Threads, NEW j \in Ids, kept[u][j] # Null, Removers(j) \subseteq {u}
        PROVE  kept[u][j] \in characters' /\ object'[kept[u][j]].id = j
    <3>1. kept[u][j] \in characters /\ object[kept[u][j]].id = j
      BY <2>2 DEF ManagerInv, Kept
    <3>2. kept[u][j] # o
      <4>. SUFFICES ASSUME kept[u][j] = o PROVE FALSE
        OBVIOUS
      <4>1. j = object[o].id
        BY <3>1
      <4>2. t \in Removers(j)
        BY <4>1, <1>3 DEF Removers
      <4>. QED  BY <4>1, <4>2, <1>3, <2>2
    <3>. QED  BY <3>1, <3>2, <1>1, <1>7, <1>9
  <2>. QED  BY <1>1, <1>6, <2>2 DEF Kept
<1>. QED  BY <1>10, <1>11, <1>12, <1>13 DEF ManagerInv

(* A quiet step of a thread that is alone: its place and its loop change. *)
LEMMA PlaceHolds ==
  ASSUME ManagerInv, NEW t \in Threads,
         NEW place \in {"idle", "clear", "update"}, NEW loop,
         \A u \in Threads \ {t} : pc[u] = "idle" /\ todo[u] = {},
         UNCHANGED <<object, lists, known>>,
         Revoked(t) = {}, pc[t] # "hung",
         owner' = IF place = "idle" THEN NoThread ELSE t,
         pc' = [pc EXCEPT ![t] = place],
         todo' = [todo EXCEPT ![t] = loop],
         loop \subseteq characters, place = "idle" => loop = {},
         at' \in [Threads -> Objects \cup {Null}],
         kept' \in [Threads -> [Ids -> Objects \cup {Null}]],
         \A u \in Threads, j \in Ids : kept'[u][j] # Null => kept'[u][j] = kept[u][j],
         place = "clear" =>
           t \in Stoppers /\ loop = characters /\ \A j \in Ids : kept'[t][j] = Null
  PROVE  ManagerInv'
<1>. USE ManagerAssumption
<1>1. characters \subseteq Objects
  BY DEF ManagerInv, ContainersAgree, ManagerTypeOK
<1>2. /\ pc' \in [Threads -> {"idle", "created", "removed", "erased", "clear",
                              "clearUnlocked", "update", "hung"}]
      /\ todo' \in [Threads -> SUBSET Objects]
      /\ owner' \in Threads \cup {NoThread}
  BY <1>1 DEF ManagerInv, ContainersAgree, ManagerTypeOK
<1>3. /\ \A u \in Threads : pc'[u] = IF u = t THEN place ELSE "idle"
      /\ \A u \in Threads : todo'[u] = IF u = t THEN loop ELSE {}
  <2>1. DOMAIN pc = Threads /\ DOMAIN todo = Threads
    BY DEF ManagerInv, ContainersAgree, ManagerTypeOK
  <2>2. \A u \in Threads : pc'[u] = IF u = t THEN place ELSE pc[u]
    BY <2>1
  <2>3. \A u \in Threads : todo'[u] = IF u = t THEN loop ELSE todo[u]
    BY <2>1
  <2>. QED  BY <2>2, <2>3
<1>4. Locked'
  BY <1>3 DEF Locked
<1>5. Working'
  BY <1>3 DEF Working, lists
<1>6. Kept'
  <2>1. ASSUME NEW u \in Threads, NEW j \in Ids, kept'[u][j] # Null, Removers(j) \subseteq {u}
        PROVE  kept'[u][j] \in characters' /\ object'[kept'[u][j]].id = j
    <3>1. kept'[u][j] = kept[u][j] /\ kept[u][j] # Null
      BY <2>1
    <3>2. kept[u][j] \in characters /\ object[kept[u][j]].id = j
      BY <3>1, <2>1 DEF ManagerInv, Kept
    <3>. QED  BY <3>1, <3>2 DEF lists
  <2>. QED  BY <1>3, <2>1 DEF Kept
<1>7. \A u \in Threads : Revoked(u) = {} /\ Revoked(u)' = {}
  <2>1. \A u \in Threads \ {t} : Revoked(u) = {} /\ Revoked(u)' = {}
    BY <1>3 DEF Revoked
  <2>2. Revoked(t)' = {}
    <3>1. CASE place = "clear"
      BY <3>1, <1>3 DEF Revoked, lists
    <3>2. CASE place # "clear"
      BY <3>2, <1>3 DEF Revoked
    <3>. QED  BY <3>1, <3>2
  <2>. QED  BY <2>1, <2>2
<1>8. \A u \in Threads : pc[u] # "hung"
  OBVIOUS
<1>. QED  BY <1>2, <1>4, <1>5, <1>6, <1>7, <1>8, QuietHolds

LEMMA RemovedHolds ==
  ASSUME ManagerInv, NEW t \in Threads, Removed(t)
  PROVE  ManagerInv'
<1>. USE ManagerAssumption DEF Removed, Leave
<1>1. \A u \in Threads \ {t} : pc[u] = "idle" /\ todo[u] = {}
  BY Inside1
<1>2. todo[t] = {} /\ Revoked(t) = {}
  BY DEF ManagerInv, Working, Revoked
<1>3. todo' = [todo EXCEPT ![t] = {}]
  BY <1>2 DEF ManagerInv, ContainersAgree, ManagerTypeOK
<1>4. /\ at' \in [Threads -> Objects \cup {Null}]
      /\ kept' \in [Threads -> [Ids -> Objects \cup {Null}]]
  BY DEF ManagerInv, ContainersAgree, ManagerTypeOK
<1>. QED  BY <1>1, <1>2, <1>3, <1>4, PlaceHolds

LEMMA ShutdownHolds ==
  ASSUME ManagerInv, NEW t \in Threads, Shutdown(t)
  PROVE  ManagerInv'
<1>. USE ManagerAssumption DEF Shutdown, Enter
<1>1. \A u \in Threads : pc[u] = "idle" /\ todo[u] = {} /\ Revoked(u) = {}
  BY Alone
<1>2. kept \in [Threads -> [Ids -> Objects \cup {Null}]]
  BY DEF ManagerInv, ContainersAgree, ManagerTypeOK
<1>3. /\ at' \in [Threads -> Objects \cup {Null}]
      /\ kept' \in [Threads -> [Ids -> Objects \cup {Null}]]
  BY <1>2 DEF ManagerInv, ContainersAgree, ManagerTypeOK
<1>4. \A u \in Threads, j \in Ids : kept'[u][j] = IF u = t THEN Null ELSE kept[u][j]
  BY <1>2
<1>. QED  BY <1>1, <1>3, <1>4, PlaceHolds

LEMMA UpdateHolds ==
  ASSUME ManagerInv, NEW t \in Threads, Update(t)
  PROVE  ManagerInv'
<1>. USE ManagerAssumption DEF Update, Enter
<1>1. \A u \in Threads : pc[u] = "idle" /\ todo[u] = {} /\ Revoked(u) = {}
  BY Alone
<1>2. /\ at' \in [Threads -> Objects \cup {Null}]
      /\ kept' \in [Threads -> [Ids -> Objects \cup {Null}]]
  BY DEF ManagerInv, ContainersAgree, ManagerTypeOK
<1>. QED  BY <1>1, <1>2, PlaceHolds

LEMMA UpdateOneHolds ==
  ASSUME ManagerInv, NEW t \in Threads, UpdateOne(t)
  PROVE  ManagerInv'
<1>. USE ManagerAssumption DEF UpdateOne
<1>1. PICK o \in todo[t] : todo' = [todo EXCEPT ![t] = @ \ {o}]
  OBVIOUS
<1>2. owner = t /\ \A u \in Threads \ {t} : pc[u] = "idle" /\ todo[u] = {}
  BY Inside1
<1>3. Revoked(t) = {}
  BY DEF Revoked
<1>4. todo[t] \ {o} \subseteq characters
  BY DEF ManagerInv, Working
<1>5. /\ at' \in [Threads -> Objects \cup {Null}]
      /\ kept' \in [Threads -> [Ids -> Objects \cup {Null}]]
      /\ pc' = [pc EXCEPT ![t] = "update"]
  BY DEF ManagerInv, ContainersAgree, ManagerTypeOK
<1>6. todo' = [todo EXCEPT ![t] = todo[t] \ {o}]
  BY <1>1
<1>. QED  BY <1>2, <1>3, <1>4, <1>5, <1>6, PlaceHolds

LEMMA UpdatedHolds ==
  ASSUME ManagerInv, NEW t \in Threads, Updated(t)
  PROVE  ManagerInv'
<1>. USE ManagerAssumption DEF Updated, Leave
<1>1. \A u \in Threads \ {t} : pc[u] = "idle" /\ todo[u] = {}
  BY Inside1
<1>2. Revoked(t) = {}
  BY DEF Revoked
<1>3. /\ at' \in [Threads -> Objects \cup {Null}]
      /\ kept' \in [Threads -> [Ids -> Objects \cup {Null}]]
      /\ todo' = [todo EXCEPT ![t] = {}]
  BY DEF ManagerInv, ContainersAgree, ManagerTypeOK
<1>. QED  BY <1>1, <1>2, <1>3, PlaceHolds

(* One more character is taken back: it was known, and its thread is at it. *)
LEMMA AnnounceHolds ==
  ASSUME ManagerInv, NEW t \in Threads, Announce(t)
  PROVE  ManagerInv'
<1>. USE ManagerAssumption
<1>1. PICK o \in todo[t] : /\ todo' = [todo EXCEPT ![t] = @ \ {o}]
                           /\ known' = [known EXCEPT ![o] = @ - 1]
  BY DEF Announce
<1>2. pc[t] = "clear" /\ UNCHANGED <<owner, object, lists, pc, at, kept>>
  BY DEF Announce, Clearing, ManagerInv, Locked
<1>3. o \in characters /\ o \in Objects /\ todo[t] \subseteq characters
  BY DEF ManagerInv, Working, ContainersAgree, ManagerTypeOK
<1>4. \A u \in Threads \ {t} : pc[u] = "idle" /\ Revoked(u) = {}
  BY <1>2, Inside1
<1>5. \A u \in Threads : todo'[u] = IF u = t THEN todo[t] \ {o} ELSE todo[u]
  BY <1>1 DEF ManagerInv, ContainersAgree, ManagerTypeOK
<1>6. ContainersAgree'
  <2>1. ManagerTypeOK'
    BY <1>1, <1>2, <1>3 DEF ManagerInv, ContainersAgree, ManagerTypeOK, lists
  <2>. QED  BY <1>2, <2>1 DEF ManagerInv, ContainersAgree, lists
<1>7. Locked' /\ Working' /\ Kept'
  <2>1. Locked'
    BY <1>2 DEF ManagerInv, Locked
  <2>2. Working'
    BY <1>2, <1>5 DEF ManagerInv, Working, lists
  <2>3. Kept'
    BY <1>2 DEF ManagerInv, Kept, lists
  <2>. QED  BY <2>1, <2>2, <2>3
<1>8. Known'
  <2>1. Revoked(t) = characters \ todo[t] /\ Revoked(t)' = Revoked(t) \cup {o}
    BY <1>2, <1>3, <1>5 DEF Revoked, lists
  <2>2. \A u \in Threads \ {t} : Revoked(u)' = {}
    BY <1>2, <1>4 DEF Revoked
  <2>3. \A u \in Threads : pc[u] # "hung"
    BY <1>2, <1>4
  <2>4. \A p \in characters : known[p] = 0 => p \in Revoked(t)
    BY <1>4, <2>3 DEF ManagerInv, Known
  <2>5. known[o] = 1 /\ known \in [Objects -> Int]
    BY <1>3, <2>1, <2>4 DEF ManagerInv, Known, ContainersAgree, ManagerTypeOK
  <2>6. \A p \in Objects : known'[p] = IF p = o THEN 0 ELSE known[p]
    BY <1>1, <2>5
  <2>7. \A p \in Revoked(t) : p \in Objects /\ known[p] = 0
    BY <2>1 DEF ManagerInv, Known, ContainersAgree, ManagerTypeOK
  <2>8. characters \subseteq Objects
    BY DEF ManagerInv, ContainersAgree, ManagerTypeOK
  <2>9. \A u \in Threads : \A p \in Revoked(u)' : known'[p] = 0
    BY <1>3, <2>1, <2>2, <2>6, <2>7
  <2>10. \A p \in characters : known'[p] = 0 => p \in Revoked(t)'
    BY <2>1, <2>4, <2>6, <2>8
  <2>. QED  BY <1>2, <2>6, <2>9, <2>10 DEF ManagerInv, Known, lists
<1>. QED  BY <1>6, <1>7, <1>8 DEF ManagerInv

(* All have been taken back when all are freed. *)
LEMMA ClearHolds ==
  ASSUME ManagerInv, NEW t \in Threads, Clear(t)
  PROVE  ManagerInv'
<1>. USE ManagerAssumption
<1>1. /\ pc[t] = "clear" /\ todo[t] = {}
      /\ pc' = [pc EXCEPT ![t] = "idle"] /\ owner' = NoThread
      /\ object' = [o \in Objects |->
                  IF \E i \in Ids : charactersMap[i] = o THEN Free ELSE object[o]]
      /\ charactersMap' = [i \in Ids |-> Null]
      /\ characters' = {} /\ players' = {} /\ npcs' = {}
      /\ UNCHANGED <<at, todo, kept, known>>
  BY DEF Clear, Clearing, ManagerInv, Locked
<1>2. \A u \in Threads \ {t} : pc[u] = "idle" /\ todo[u] = {}
  BY <1>1, Inside1
<1>3. \A u \in Threads : pc'[u] = "idle" /\ todo'[u] = {}
  BY <1>1, <1>2 DEF ManagerInv, ContainersAgree, ManagerTypeOK
<1>4. \A o \in Objects : object'[o] = Free
  <2>1. \A o \in characters : object[o].id \in Ids /\ charactersMap[object[o].id] = o
    BY DEF ManagerInv, ContainersAgree, ManagerTypeOK, Content
  <2>2. \A o \in Objects : o \notin characters => object[o] = Free
    BY DEF ManagerInv, ContainersAgree
  <2>. QED  BY <1>1, <2>1, <2>2
<1>5. ContainersAgree'
  <2>1. ManagerTypeOK'
    BY <1>1 DEF ManagerInv, ContainersAgree, ManagerTypeOK
  <2>. QED  BY <1>1, <1>4, <2>1 DEF ContainersAgree
<1>6. Locked' /\ Working'
  BY <1>1, <1>3 DEF Locked, Working
<1>7. Known'
  <2>1. \A u \in Threads : Revoked(u)' = {}
    BY <1>3 DEF Revoked
  <2>2. \A o \in characters : known[o] = 0
    BY <1>1 DEF ManagerInv, Known, Revoked
  <2>3. \A o \in Objects : o \notin characters => known[o] = 0
    BY DEF ManagerInv, Known, ContainersAgree
  <2>. QED  BY <1>1, <2>1, <2>2, <2>3 DEF Known
<1>8. Kept'
  <2>1. t \in Stoppers /\ \A j \in Ids : kept[t][j] = Null
    BY <1>1 DEF ManagerInv, Kept
  <2>2. \A u \in Threads, j \in Ids : Removers(j) \subseteq {u} => u = t
    BY <2>1 DEF Removers
  <2>. QED  BY <1>1, <1>3, <2>1, <2>2 DEF Kept
<1>. QED  BY <1>5, <1>6, <1>7, <1>8 DEF ManagerInv

LEMMA GiveHolds ==
  ASSUME ManagerInv, NEW t \in Threads, NEW found \in SUBSET characters, Give(t, found)
  PROVE  ManagerInv'
<1>. USE ManagerAssumption
<1>1. /\ owner = NoThread
      /\ kept' = [kept EXCEPT ![t] = [i \in Ids |->
                    IF charactersMap[i] \in found THEN charactersMap[i] ELSE @[i]]]
      /\ UNCHANGED <<owner, object, lists, pc, at, todo, known>>
  BY DEF Give
<1>2. kept \in [Threads -> [Ids -> Objects \cup {Null}]] /\ characters \subseteq Objects
  BY DEF ManagerInv, ContainersAgree, ManagerTypeOK
<1>3. \A u \in Threads, j \in Ids :
        kept'[u][j] = IF u = t /\ charactersMap[j] \in found THEN charactersMap[j]
                                                            ELSE kept[u][j]
  BY <1>1, <1>2
<1>4. kept' \in [Threads -> [Ids -> Objects \cup {Null}]]
  BY <1>1, <1>2
<1>5. \A u \in Threads : pc'[u] = "idle"
  BY <1>1, Alone
<1>6. Kept'
  <2>1. ASSUME NEW u \in Threads, NEW j \in Ids, kept'[u][j] # Null, Removers(j) \subseteq {u}
        PROVE  kept'[u][j] \in characters' /\ object'[kept'[u][j]].id = j
    <3>1. CASE u = t /\ charactersMap[j] \in found
      <4>1. kept'[u][j] = charactersMap[j] /\ charactersMap[j] # Null
        BY <3>1, <1>3, <2>1
      <4>2. charactersMap[j] \in characters /\ object[charactersMap[j]].id = j
        BY <4>1 DEF ManagerInv, ContainersAgree
      <4>. QED  BY <4>1, <4>2, <1>1 DEF lists
    <3>2. CASE ~(u = t /\ charactersMap[j] \in found)
      <4>1. kept'[u][j] = kept[u][j] /\ kept[u][j] # Null
        BY <3>2, <1>3, <2>1
      <4>2. kept[u][j] \in characters /\ object[kept[u][j]].id = j
        BY <4>1, <2>1 DEF ManagerInv, Kept
      <4>. QED  BY <4>1, <4>2, <1>1 DEF lists
    <3>. QED  BY <3>1, <3>2
  <2>. QED  BY <1>5, <2>1 DEF Kept
<1>7. Locked' /\ Working'
  BY <1>1 DEF ManagerInv, Locked, Working, lists
<1>8. /\ pc' \in [Threads -> {"idle", "created", "removed", "erased", "clear",
                              "clearUnlocked", "update", "hung"}]
      /\ at' \in [Threads -> Objects \cup {Null}]
      /\ todo' \in [Threads -> SUBSET Objects]
      /\ owner' \in Threads \cup {NoThread}
  BY <1>1 DEF ManagerInv, ContainersAgree, ManagerTypeOK
<1>9. \A u \in Threads : Revoked(u)' = Revoked(u)
  BY <1>1 DEF Revoked, lists
<1>. QED  BY <1>1, <1>4, <1>6, <1>7, <1>8, <1>9, QuietHolds

LEMMA GetHolds ==
  ASSUME ManagerInv, NEW t \in Threads, NEW i \in Ids, Get(t, i)
  PROVE  ManagerInv'
<1>1. \E found \in SUBSET characters : Give(t, found)
  BY DEF Get, OfType
<1>. QED  BY <1>1, GiveHolds

(* A thread that waits for itself keeps everything as it is, for ever. *)
LEMMA NestedHolds ==
  ASSUME ManagerInv, NEW t \in Threads, Nested(t)
  PROVE  ManagerInv'
<1>1. /\ owner = t /\ pc[t] # "idle" /\ pc' = [pc EXCEPT ![t] = "hung"]
      /\ UNCHANGED <<owner, object, lists, at, todo, kept, known>>
  BY DEF Nested, Inside
<1>2. \A u \in Threads : pc'[u] = IF u = t THEN "hung" ELSE pc[u]
  BY <1>1 DEF ManagerInv, ContainersAgree, ManagerTypeOK
<1>3. ContainersAgree'
  <2>1. ManagerTypeOK'
    BY <1>1 DEF ManagerInv, ContainersAgree, ManagerTypeOK, lists
  <2>. QED  BY <1>1, <2>1 DEF ManagerInv, ContainersAgree, lists
<1>4. Locked'
  BY <1>1, <1>2 DEF ManagerInv, Locked
<1>5. Working'
  BY <1>1, <1>2 DEF ManagerInv, Working, lists
<1>6. Known'
  <2>1. \A u \in Threads : Revoked(u)' \in {{}, Revoked(u)}
    BY <1>1, <1>2 DEF Revoked, lists
  <2>. QED  BY <1>1, <1>2, <2>1 DEF ManagerInv, Known, lists
<1>7. Kept'
  BY <1>1, <1>2 DEF ManagerInv, Kept, lists
<1>. QED  BY <1>3, <1>4, <1>5, <1>6, <1>7 DEF ManagerInv

LEMMA StutterHolds ==
  ASSUME ManagerInv, UNCHANGED managerVars
  PROVE  ManagerInv'
BY DEF managerVars, lists, ManagerInv, ContainersAgree, ManagerTypeOK, Locked, Working,
       Known, Revoked, Kept

LEMMA NextHolds ==
  ASSUME ProperTypes, ManagerInv, [ManagerNext]_managerVars
  PROVE  ManagerInv'
<1>1. CASE UNCHANGED managerVars
  BY <1>1, StutterHolds
<1>2. ASSUME NEW t \in Threads, ManagerStep(t)
      PROVE  ManagerInv'
  <2>1. ASSUME NEW i \in Ids, CreateCharacter(t, i)
        PROVE  ManagerInv'
    <3>1. PICK type \in {"MONSTER", "PET"} : Create(t, i, type, "Character")
      BY <2>1 DEF CreateCharacter, ProperTypes
    <3>. QED  BY <3>1, CreateHolds DEF Classes
  <2>2. ASSUME NEW i \in Ids, CreatePlayer(t, i)
        PROVE  ManagerInv'
    <3>1. Create(t, i, "PLAYER", "Player")
      BY <2>2 DEF CreatePlayer
    <3>. QED  BY <3>1, CreateHolds DEF Classes
  <2>3. ASSUME NEW i \in Ids, CreateNPC(t, i)
        PROVE  ManagerInv'
    <3>1. Create(t, i, "NPC", "NPC")
      BY <2>3 DEF CreateNPC
    <3>. QED  BY <3>1, CreateHolds DEF Classes
  <2>4. ASSUME NEW i \in Ids, Remove(t, i) \/ Get(t, i)
        PROVE  ManagerInv'
    BY <2>4, RemoveHolds, GetHolds
  <2>5. CASE Created(t) \/ Erase(t) \/ Removed(t)
    BY <2>5, CreatedHolds, EraseHolds, RemovedHolds
  <2>6. CASE Shutdown(t) \/ Announce(t) \/ Clear(t)
    BY <2>6, ShutdownHolds, AnnounceHolds, ClearHolds
  <2>7. CASE Update(t) \/ UpdateOne(t) \/ Updated(t)
    BY <2>7, UpdateHolds, UpdateOneHolds, UpdatedHolds
  <2>8. CASE GetInRange(t)
    <3>1. \E found \in SUBSET characters : Give(t, found)
      BY <2>8 DEF GetInRange, ManagerInv, ContainersAgree
    <3>. QED  BY <3>1, GiveHolds
  <2>9. CASE Nested(t)
    BY <2>9, NestedHolds
  <2>. QED
    BY <1>2, <2>1, <2>2, <2>3, <2>4, <2>5, <2>6, <2>7, <2>8, <2>9 DEF ManagerStep
<1>. QED  BY <1>1, <1>2 DEF ManagerNext

LEMMA InvHolds ==
  ASSUME ProperTypes
  PROVE  ManagerSpec => []ManagerInv
<1>1. ManagerInv /\ [ManagerNext]_managerVars => ManagerInv'
  BY NextHolds
<1>. QED  BY <1>1, InitHolds, PTL DEF ManagerSpec

-----------------------------------------------------------------------------
(* The list, the map, players_ and npcs_ describe the same characters, whatever
   threads create, remove and shut down: a cast of getPlayer or getNPC is to the
   class of what it casts, as long as createCharacter makes neither. *)
THEOREM ContainersAgreeHolds ==
  ASSUME ProperTypes
  PROVE  ManagerSpec => []ContainersAgree
BY InvHolds, PTL DEF ManagerInv

(* The created and removed callbacks tell a program exactly which characters
   there are, whenever the mutex is free. *)
THEOREM CallbacksTrackHolds ==
  ASSUME ProperTypes
  PROVE  ManagerSpec => []CallbacksTrack
<1>1. ManagerInv => CallbacksTrack
  <2>. SUFFICES ASSUME ManagerInv PROVE CallbacksTrack
    OBVIOUS
  <2>1. ASSUME owner = NoThread, NEW o \in characters
        PROVE  known[o] = 1
    <3>1. \A u \in Threads : pc[u] = "idle" /\ Revoked(u) = {}
      BY <2>1, Alone
    <3>. QED  BY <3>1 DEF ManagerInv, Known, ContainersAgree, ManagerTypeOK
  <2>. QED  BY <2>1 DEF CallbacksTrack, ManagerInv, Known
<1>. QED  BY <1>1, InvHolds, PTL

(* No callback is given, no loop visits and no thread that alone may remove an id
   keeps a character that has been freed. *)
THEOREM HeldObjectsLiveHolds ==
  ASSUME ProperTypes
  PROVE  ManagerSpec => []HeldObjectsLive
<1>1. ManagerInv => HeldObjectsLive
  BY DEF ManagerInv, Working, Kept, HeldObjectsLive
<1>. QED  BY <1>1, InvHolds, PTL

-----------------------------------------------------------------------------
(* NetworkSync. *)

(* The sync callback marks nothing, and initialize comes before the first mark. *)
QuietCallback == CallbackMarks = {} /\ LateInitialize = FALSE

Sound(r) == r.alive => r.health > 0 /\ r.state # "DEAD"
(* What every method that is not given forged data carries over. *)
Carries(r, q) == q \in CharacterRecord /\ (Sound(r) => Sound(q))

(* The newest entry of the history is of the latest data. *)
Echoed == latest # <<>> => Len(history) > 0 /\ history[Len(history)] = EntryOf(latest[1])

SyncInv == SyncIsSound /\ Echoed

LEMMA Bounds ==
  /\ {MaxHealth, RespawnDelay, Step} \subseteq Nat \ {0}
  /\ {MaxStamina, MaxMana, CastTime, Cooldown} \subseteq Nat
  /\ {Interval, Cap} \subseteq Nat \ {0} /\ Stamps \subseteq Nat
  /\ Peers \subseteq Seen /\ Blows \subseteq Nat \ {0} /\ Aims \subseteq Int
BY CharacterAssumption, SyncAssumption

LEMMA Parts ==
  ASSUME NEW r \in CharacterRecord
  PROVE  /\ r.npc \in BOOLEAN /\ r.alive \in BOOLEAN /\ r.moving \in BOOLEAN
         /\ r.state \in States /\ r.health \in 0..MaxHealth
         /\ r.cast \in 0..CastTime /\ r.cooldown \in 0..Cooldown
         /\ r.mana \in Int /\ r.pos \in Int /\ r.goal \in Int
         /\ r.path \in Seq(Int) /\ r.next \in Nat \ {0}
BY DEF CharacterRecord

-----------------------------------------------------------------------------
(* What the methods carry, one lemma per method. *)
LEMMA CarriesOn ==
  ASSUME NEW r, NEW s, NEW q, Carries(r, s), Carries(s, q)
  PROVE  Carries(r, q)
BY DEF Carries

LEMMA CarriesSame ==
  ASSUME NEW r \in CharacterRecord, NEW q \in CharacterRecord,
         q.health = r.health, q.alive = r.alive, q.state = r.state
  PROVE  Carries(r, q)
BY DEF Carries, Sound

(* A character that dies stays in its state, and is of the same kind. *)
LEMMA DeathIsTyped ==
  ASSUME NEW r \in CharacterRecord
  PROVE  OnDeath(r) \in CharacterRecord /\ ~OnDeath(r).alive
<1>1. PICK a \in AIStates, w \in 0..RespawnDelay : a = "DEAD" /\ w = RespawnDelay
  BY Bounds DEF AIStates
<1>2. /\ [r EXCEPT !.alive = FALSE, !.ai = a, !.respawn = w] \in CharacterRecord
      /\ [r EXCEPT !.alive = FALSE] \in CharacterRecord
      /\ ~[r EXCEPT !.alive = FALSE, !.ai = a, !.respawn = w].alive
      /\ ~[r EXCEPT !.alive = FALSE].alive
  BY DEF CharacterRecord
<1>. QED  BY <1>1, <1>2 DEF OnDeath

LEMMA SetStateCarries ==
  ASSUME NEW r \in CharacterRecord, NEW s \in States
  PROVE  /\ SetState(r, s) \in CharacterRecord
         /\ s # "DEAD" => Carries(r, SetState(r, s))
         /\ r.health = 0 /\ (r.state = "DEAD" => ~r.alive) => ~SetState(r, s).alive \/ s # "DEAD"
<1>. DEFINE q == [r EXCEPT !.state = s]
<1>1. /\ q \in CharacterRecord
      /\ q.health = r.health /\ q.alive = r.alive /\ q.state = s
  BY DEF CharacterRecord
<1>2. r.alive \in BOOLEAN
  BY Parts
<1>3. CASE s # "DEAD"
  <2>1. SetState(r, s) = q
    BY <1>3 DEF SetState
  <2>. QED  BY <1>1, <1>3, <2>1 DEF Carries, Sound
<1>4. CASE s = "DEAD"
  <2>1. SetState(r, s) \in {q, OnDeath(q)}
    BY <1>1 DEF SetState, CheckDeath
  <2>2. r.health = 0 /\ r.alive /\ r.state # "DEAD" => SetState(r, s) = OnDeath(q)
    BY <1>1, <1>4 DEF SetState, CheckDeath
  <2>. QED  BY <1>1, <1>2, <1>4, <2>1, <2>2, DeathIsTyped
<1>. QED  BY <1>3, <1>4

LEMMA TakeDamageCarries ==
  ASSUME NEW r \in CharacterRecord, NEW d \in Nat
  PROVE  Carries(r, TakeDamage(r, d))
<1>0. r.health \in 0..MaxHealth /\ MaxHealth \in Nat /\ r.alive \in BOOLEAN
  BY Parts, Bounds
<1>1. CASE d < r.health
  <2>1. PICK h \in 0..MaxHealth : h = r.health - d /\ h > 0
    BY <1>0, <1>1
  <2>. DEFINE q == [r EXCEPT !.health = h]
  <2>2. TakeDamage(r, d) = q
    BY <1>0, <1>1, <2>1 DEF TakeDamage
  <2>3. q \in CharacterRecord /\ q.health = h /\ q.alive = r.alive /\ q.state = r.state
    BY DEF CharacterRecord
  <2>. QED  BY <2>1, <2>2, <2>3 DEF Carries, Sound
<1>2. CASE d >= r.health
  <2>1. PICK h \in 0..MaxHealth : h = 0
    BY <1>0
  <2>. DEFINE e == [r EXCEPT !.health = h]
  <2>2. e \in CharacterRecord /\ e.health = 0 /\ e.alive = r.alive /\ e.state = r.state
    BY <2>1 DEF CharacterRecord
  <2>3. TakeDamage(r, d) = SetState(e, "DEAD")
    BY <1>2, <2>1 DEF TakeDamage
  <2>. HIDE DEF e
  <2>4. /\ SetState(e, "DEAD") \in CharacterRecord
        /\ (e.state = "DEAD" => ~e.alive) => ~SetState(e, "DEAD").alive
    BY <2>2, SetStateCarries DEF States
  <2>. QED  BY <1>0, <2>2, <2>3, <2>4 DEF Carries, Sound
<1>. QED  BY <1>0, <1>1, <1>2

LEMMA CombatUpdateCarries ==
  ASSUME NEW r \in CharacterRecord
  PROVE  Carries(r, CombatUpdate(r))
<1>1. PICK k \in 0..Cooldown, t \in 0..CastTime :
        k = CountDown(r.cooldown) /\ t = CountDown(r.cast)
  <2>1. r.cooldown \in 0..Cooldown /\ r.cast \in 0..CastTime
    BY Parts
  <2>2. Cooldown \in Nat /\ CastTime \in Nat
    BY Bounds
  <2>3. CountDown(r.cooldown) \in 0..Cooldown
    BY <2>1, <2>2 DEF CountDown
  <2>4. CountDown(r.cast) \in 0..CastTime
    BY <2>1, <2>2 DEF CountDown
  <2>. QED  BY <2>3, <2>4
<1>. DEFINE q == [r EXCEPT !.cooldown = k, !.cast = t]
<1>2. q \in CharacterRecord /\ q.health = r.health /\ q.alive = r.alive /\ q.state = r.state
  BY DEF CharacterRecord
<1>3. CombatUpdate(r) = IF r.cast = 1 THEN SetState(q, "IDLE") ELSE q
  BY <1>1 DEF CombatUpdate
<1>. HIDE DEF q
<1>4. Carries(r, q)
  BY <1>2, CarriesSame
<1>5. Carries(q, SetState(q, "IDLE"))
  BY <1>2, SetStateCarries DEF States
<1>. QED  BY <1>3, <1>4, <1>5, CarriesOn

LEMMA StopCarries ==
  ASSUME NEW r \in CharacterRecord
  PROVE  Carries(r, StopMovement(r))
<1>. DEFINE q == [r EXCEPT !.moving = FALSE]
<1>1. q \in CharacterRecord /\ q.health = r.health /\ q.alive = r.alive /\ q.state = r.state
  BY DEF CharacterRecord
<1>2. StopMovement(r) = IF r.state = "MOVING" THEN SetState(q, "IDLE") ELSE q
  BY DEF StopMovement
<1>. HIDE DEF q
<1>3. Carries(q, SetState(q, "IDLE")) /\ Carries(r, q)
  BY <1>1, SetStateCarries, CarriesSame DEF States
<1>. QED  BY <1>2, <1>3, CarriesOn

LEMMA MoveCarries ==
  ASSUME NEW r \in CharacterRecord, NEW g \in Int
  PROVE  Carries(r, MoveTo(r, g))
<1>. DEFINE q == [r EXCEPT !.goal = g, !.moving = TRUE]
<1>1. q \in CharacterRecord /\ q.health = r.health /\ q.alive = r.alive /\ q.state = r.state
  BY DEF CharacterRecord
<1>2. MoveTo(r, g) = SetState(q, "MOVING")
  BY DEF MoveTo
<1>. HIDE DEF q
<1>3. Carries(q, SetState(q, "MOVING")) /\ Carries(r, q)
  BY <1>1, SetStateCarries, CarriesSame DEF States
<1>. QED  BY <1>2, <1>3, CarriesOn

LEMMA ClearPathCarries ==
  ASSUME NEW r \in CharacterRecord
  PROVE  Carries(r, ClearPath(r))
<1>1. PICK p \in Seq(Int), n \in Nat \ {0} : p = <<>> /\ n = 1
  <2>1. <<>> \in Seq(Int) /\ 1 \in Nat \ {0}
    OBVIOUS
  <2>. QED  BY <2>1
<1>. DEFINE q == [r EXCEPT !.path = p, !.next = n]
<1>2. q \in CharacterRecord /\ q.health = r.health /\ q.alive = r.alive /\ q.state = r.state
  BY DEF CharacterRecord
<1>3. ClearPath(r) = StopMovement(q)
  BY <1>1 DEF ClearPath
<1>. HIDE DEF q
<1>. QED  BY <1>2, <1>3, StopCarries, CarriesSame, CarriesOn

LEMMA MovementUpdateCarries ==
  ASSUME NEW r \in CharacterRecord
  PROVE  Carries(r, MovementUpdate(r))
<1>1. Carries(r, UpdateMovement(r))
  <2>1. CASE ~r.moving
    BY <2>1, CarriesSame DEF UpdateMovement
  <2>2. CASE r.moving /\ r.pos = r.goal
    BY <2>2, StopCarries DEF UpdateMovement
  <2>3. CASE r.moving /\ r.pos # r.goal
    <3>1. PICK p \in Int : p = IF r.goal > r.pos THEN r.pos + Step ELSE r.pos - Step
      BY Parts, Bounds
    <3>. DEFINE q == [r EXCEPT !.pos = p]
    <3>2. q \in CharacterRecord /\ q.health = r.health /\ q.alive = r.alive /\ q.state = r.state
      BY DEF CharacterRecord
    <3>3. UpdateMovement(r) = q
      BY <2>3, <3>1 DEF UpdateMovement
    <3>. QED  BY <3>2, <3>3, CarriesSame
  <2>. QED  BY <2>1, <2>2, <2>3
<1>2. ASSUME NEW s \in CharacterRecord
      PROVE  Carries(s, UpdatePath(s))
  <2>0. s.path \in Seq(Int) /\ s.next \in Nat \ {0}
    BY Parts
  <2>1. PICK n \in Nat \ {0} :
          n = IF Away(s.path[s.next], s.pos) < Near THEN s.next + 1 ELSE s.next
    BY <2>0
  <2>2. CASE s.path = <<>>
    BY <2>2, CarriesSame DEF UpdatePath
  <2>3. CASE s.path # <<>> /\ s.next > Len(s.path)
    BY <2>3, ClearPathCarries DEF UpdatePath
  <2>4. CASE s.path # <<>> /\ ~(s.next > Len(s.path)) /\ n > Len(s.path)
    <3>. DEFINE q == [s EXCEPT !.next = n]
    <3>1. q \in CharacterRecord /\ q.health = s.health /\ q.alive = s.alive /\ q.state = s.state
      BY DEF CharacterRecord
    <3>2. UpdatePath(s) = ClearPath(q)
      BY <2>1, <2>4 DEF UpdatePath
    <3>. HIDE DEF q
    <3>. QED  BY <3>1, <3>2, ClearPathCarries, CarriesSame, CarriesOn
  <2>5. CASE s.path # <<>> /\ ~(s.next > Len(s.path)) /\ ~(n > Len(s.path))
    <3>1. PICK g \in Int : g = s.path[n]
      BY <2>0, <2>5
    <3>. DEFINE q == [s EXCEPT !.next = n, !.goal = g, !.moving = TRUE]
    <3>2. q \in CharacterRecord /\ q.health = s.health /\ q.alive = s.alive /\ q.state = s.state
      BY DEF CharacterRecord
    <3>3. UpdatePath(s) = q
      BY <2>1, <2>5, <3>1 DEF UpdatePath
    <3>. QED  BY <3>2, <3>3, CarriesSame
  <2>. QED  BY <2>2, <2>3, <2>4, <2>5
<1>3. UpdateMovement(r) \in CharacterRecord
  BY <1>1 DEF Carries
<1>4. Carries(r, UpdatePath(UpdateMovement(r)))
  BY <1>1, <1>2, <1>3, CarriesOn
<1>. QED  BY <1>4, StopCarries DEF MovementUpdate

-----------------------------------------------------------------------------
(* What arrives. *)

(* The oldest entry that rollback goes through is one of the history. *)
LEMMA OldestIsThere ==
  ASSUME NEW S, S \subseteq Nat, S # {}
  PROVE  Min(S) \in S
<1>1. IsWellFoundedOn(OpToRel(<, Nat), Nat)
  BY NatLessThanWellFounded
<1>2. PICK x \in S : \A y \in S : ~(<<y, x>> \in OpToRel(<, Nat))
  BY <1>1, WFMin
<1>3. \A y \in S : ~(y < x)
  BY <1>2 DEF OpToRel
<1>4. \A y \in S : x =< y
  BY <1>3
<1>. QED  BY <1>4 DEF Min

LEMMA AppliedCarries ==
  ASSUME NEW r \in CharacterRecord, NEW d \in Data, NEW rollback \in BOOLEAN,
         history \in Seq(Entry)
  PROVE  /\ Applied(r, d, rollback) \in CharacterRecord
         /\ d.seen.health > 0 /\ d.seen.state # "DEAD" => Carries(r, Applied(r, d, rollback))
<1>1. /\ d.seen.pos \in Int /\ d.seen.state \in States /\ d.seen.health \in 0..MaxHealth
      /\ d.seen.mana \in Int /\ d.stamp \in Nat
  BY Bounds DEF Data, Seen
<1>. DEFINE back == RolledBack(d.stamp)
            behind == IF rollback /\ back # {} /\ "position" \in marks
                      THEN [r EXCEPT !.pos = history[Min(back)].pos] ELSE r
            there == IF "position" \in marks THEN [behind EXCEPT !.pos = d.seen.pos] ELSE behind
            stated == IF "state" \in marks THEN SetState(there, d.seen.state) ELSE there
            whole == IF "attributes" \in marks
                     THEN [stated EXCEPT !.health = d.seen.health, !.mana = d.seen.mana] ELSE stated
<1>2. behind \in CharacterRecord /\ Carries(r, behind)
  <2>1. CASE back # {}
    <3>1. back \subseteq DOMAIN history /\ DOMAIN history \subseteq Nat
      BY DEF RolledBack
    <3>. HIDE DEF back
    <3>2. Min(back) \in DOMAIN history
      BY <2>1, <3>1, OldestIsThere
    <3>6. history[Min(back)] \in Entry
      BY <3>2
    <3>7. history[Min(back)].pos \in Int
      BY <3>6 DEF Entry
    <3>3. PICK p \in Int : p = history[Min(back)].pos
      BY <3>7
    <3>4. /\ [r EXCEPT !.pos = p] \in CharacterRecord
          /\ [r EXCEPT !.pos = p].health = r.health /\ [r EXCEPT !.pos = p].alive = r.alive
          /\ [r EXCEPT !.pos = p].state = r.state
      BY DEF CharacterRecord
    <3>5. Carries(r, [r EXCEPT !.pos = p]) /\ Carries(r, r)
      BY <3>4, CarriesSame
    <3>. QED  BY <3>3, <3>4, <3>5
  <2>2. CASE back = {}
    BY <2>2, CarriesSame
  <2>. QED  BY <2>1, <2>2
<1>. HIDE DEF behind
<1>3. there \in CharacterRecord /\ Carries(r, there)
  <2>1. /\ [behind EXCEPT !.pos = d.seen.pos] \in CharacterRecord
        /\ [behind EXCEPT !.pos = d.seen.pos].health = behind.health
        /\ [behind EXCEPT !.pos = d.seen.pos].alive = behind.alive
        /\ [behind EXCEPT !.pos = d.seen.pos].state = behind.state
    BY <1>1, <1>2 DEF CharacterRecord
  <2>2. Carries(behind, [behind EXCEPT !.pos = d.seen.pos])
    BY <1>2, <2>1, CarriesSame
  <2>. QED  BY <1>2, <2>1, <2>2, CarriesOn
<1>. HIDE DEF there
<1>4. /\ stated \in CharacterRecord
      /\ d.seen.state # "DEAD" => Carries(r, stated)
  <2>1. /\ SetState(there, d.seen.state) \in CharacterRecord
        /\ d.seen.state # "DEAD" => Carries(there, SetState(there, d.seen.state))
    BY <1>1, <1>3, SetStateCarries
  <2>. QED  BY <1>3, <2>1, CarriesOn
<1>. HIDE DEF stated
<1>5. /\ whole \in CharacterRecord
      /\ d.seen.health > 0 /\ d.seen.state # "DEAD" => Carries(r, whole)
  <2>1. PICK h \in 0..MaxHealth, m \in Int : h = d.seen.health /\ m = d.seen.mana
    BY <1>1
  <2>. DEFINE q == [stated EXCEPT !.health = h, !.mana = m]
  <2>2. q \in CharacterRecord /\ q.health = h /\ q.alive = stated.alive /\ q.state = stated.state
    BY <1>4 DEF CharacterRecord
  <2>3. h > 0 => Carries(stated, q)
    BY <2>2 DEF Carries, Sound
  <2>4. whole = IF "attributes" \in marks THEN q ELSE stated
    BY <2>1
  <2>. HIDE DEF q, whole
  <2>. QED  BY <1>4, <2>1, <2>2, <2>3, <2>4, CarriesOn
<1>6. Applied(r, d, rollback) \in {r, whole}
  BY DEF Applied, behind, there, stated
<1>. HIDE DEF whole
<1>7. Carries(r, r)
  BY CarriesSame
<1>. QED  BY <1>5, <1>6, <1>7

-----------------------------------------------------------------------------
LEMMA SyncInitHolds ==
  ASSUME SyncInit
  PROVE  SyncInv
<1>. USE DEF SyncInit
<1>1. me \in CharacterRecord /\ me.health > 0 /\ me.state # "DEAD"
  <2>1. /\ MaxHealth \in 0..MaxHealth /\ 0 \in 0..CastTime /\ 0 \in 0..Cooldown
        /\ 0 \in 0..RespawnDelay /\ MaxStamina \in Int /\ MaxMana \in Int /\ MaxHealth > 0
        /\ <<>> \in Seq(Int) /\ 1 \in Nat \ {0}
    BY Bounds
  <2>. QED  BY <2>1 DEF NewCharacter, CharacterRecord, States, AIStates
<1>2. SyncTypeOK
  <2>1. timer \in 0..Interval /\ Len(history) <= Cap /\ Len(latest) <= 1
    BY Bounds
  <2>2. history \in Seq(Entry) /\ latest \in Seq(Data)
    OBVIOUS
  <2>. QED  BY <1>1, <2>1, <2>2 DEF SyncTypeOK
<1>. QED  BY <1>1, <1>2 DEF SyncInv, SyncIsSound, Echoed

(* A step in which a method runs on the owner, and nothing else changes. *)
LEMMA OwnerHolds ==
  ASSUME SyncInv, Carries(me, me'),
         UNCHANGED <<dirty, marks, timer, history, owed, latest, forged>>
  PROVE  SyncInv'
<1>1. SyncTypeOK'
  BY DEF SyncInv, SyncIsSound, SyncTypeOK, Carries
<1>. QED  BY <1>1 DEF SyncInv, SyncIsSound, Carries, Sound, Echoed

LEMMA MarksHold ==
  ASSUME QuietCallback, SyncInv,
         \/ Initialize
         \/ \E f \in Fields : Mark(f)
         \/ \E d \in BOOLEAN : SetDirty(d)
  PROVE  SyncInv'
<1>1. SyncTypeOK'
  <2>1. timer' \in 0..Interval
    BY Bounds DEF SyncInv, SyncIsSound, SyncTypeOK, Initialize, Mark, SetDirty
  <2>2. dirty' \in BOOLEAN /\ marks' \subseteq Fields /\ owed' \subseteq Fields
    BY DEF SyncInv, SyncIsSound, SyncTypeOK, Initialize, Mark, SetDirty
  <2>3. UNCHANGED <<me, history, latest, forged>>
    BY DEF Initialize, Mark, SetDirty
  <2>. QED  BY <2>1, <2>2, <2>3 DEF SyncInv, SyncIsSound, SyncTypeOK
<1>2. owed' # {} => dirty' /\ owed' \subseteq marks'
  BY DEF QuietCallback, SyncInv, SyncIsSound, Initialize, Mark, SetDirty
<1>3. UNCHANGED <<me, history, latest, forged>>
  BY DEF Initialize, Mark, SetDirty
<1>. QED  BY <1>1, <1>2, <1>3 DEF SyncInv, SyncIsSound, Echoed

LEMMA ArrivalHolds ==
  ASSUME SyncInv, NEW d \in Data, NEW id, NEW rollback \in BOOLEAN,
         ApplySyncData(id, d, rollback)
  PROVE  SyncInv'
<1>1. /\ me \in CharacterRecord /\ history \in Seq(Entry) /\ forged \in BOOLEAN
      /\ d.seen.health \in 0..MaxHealth /\ MaxHealth \in Nat
  BY Bounds DEF SyncInv, SyncIsSound, SyncTypeOK, Data, Seen
<1>2. /\ me' \in CharacterRecord
      /\ d.seen.health > 0 /\ d.seen.state # "DEAD" => Carries(me, me')
  BY <1>1, AppliedCarries DEF ApplySyncData
<1>3. /\ forged' = (forged \/ d.seen.health = 0 \/ d.seen.state = "DEAD")
      /\ UNCHANGED <<dirty, marks, timer, history, owed, latest>>
  BY DEF ApplySyncData
<1>4. SyncTypeOK'
  BY <1>1, <1>2, <1>3 DEF SyncInv, SyncIsSound, SyncTypeOK
<1>5. ~forged' => ~forged /\ Carries(me, me')
  <2>1. ~forged' => ~forged /\ d.seen.health # 0 /\ d.seen.state # "DEAD"
    BY <1>3
  <2>2. d.seen.health # 0 => d.seen.health > 0
    BY <1>1
  <2>. QED  BY <1>2, <2>1, <2>2
<1>6. ~forged' /\ me'.alive => me'.health > 0 /\ me'.state # "DEAD"
  BY <1>5 DEF SyncInv, SyncIsSound, Carries, Sound
<1>7. (owed' # {} => dirty' /\ owed' \subseteq marks') /\ Echoed'
  BY <1>3 DEF SyncInv, SyncIsSound, Echoed
<1>. QED  BY <1>4, <1>6, <1>7 DEF SyncInv, SyncIsSound

LEMMA ArrivesHolds ==
  ASSUME SyncInv, Arrives
  PROVE  SyncInv'
<1>1. ASSUME NEW rollback \in BOOLEAN, NEW k \in DOMAIN latest,
             ApplySyncData("me", latest[k], rollback)
      PROVE  SyncInv'
  <2>1. latest[k] \in Data
    BY DEF SyncInv, SyncIsSound, SyncTypeOK
  <2>. QED  BY <1>1, <2>1, ArrivalHolds
<1>2. ASSUME NEW rollback \in BOOLEAN, NEW id \in Sources, NEW seen \in Peers,
             NEW stamp \in Stamps,
             ApplySyncData(id, [seen |-> seen, stamp |-> stamp], rollback)
      PROVE  SyncInv'
  <2>1. [seen |-> seen, stamp |-> stamp] \in Data
    BY Bounds DEF Data
  <2>. QED  BY <1>2, <2>1, ArrivalHolds
<1>. QED  BY <1>1, <1>2 DEF Arrives

(* The newest entry is that of the data, however long the history is. *)
LEMMA Remembered ==
  ASSUME history \in Seq(Entry), Len(history) <= Cap, NEW data \in Data
  PROVE  LET new == Remember(data) IN
         /\ new \in Seq(Entry) /\ Len(new) <= Cap /\ Len(new) > 0
         /\ new[Len(new)] = EntryOf(data)
<1>1. EntryOf(data) \in Entry
  BY DEF EntryOf, Entry, Data, Seen
<1>2. PICK e \in Entry : e = EntryOf(data)
  BY <1>1
<1>3. PICK all \in Seq(Entry) : all = Append(history, e)
  <2>1. Append(history, e) \in Seq(Entry)
    OBVIOUS
  <2>. QED  BY <2>1
<1>4. Len(all) = Len(history) + 1 /\ all[Len(all)] = e /\ Cap \in Nat \ {0}
  BY <1>3, Bounds
<1>5. CASE Len(all) > Cap
  <2>1. /\ Tail(all) \in Seq(Entry) /\ Len(Tail(all)) = Len(history)
        /\ Len(history) > 0
    BY <1>4, <1>5
  <2>2. Tail(all)[Len(history)] = e
    BY <1>4, <2>1
  <2>3. Remember(data) = Tail(all)
    BY <1>2, <1>3, <1>5 DEF Remember
  <2>. QED  BY <1>2, <2>1, <2>2, <2>3
<1>6. CASE ~(Len(all) > Cap)
  <2>1. Remember(data) = all
    BY <1>2, <1>3, <1>6 DEF Remember
  <2>. QED  BY <1>2, <1>4, <1>6, <2>1
<1>. QED  BY <1>5, <1>6

LEMMA BeforeAfter ==
  ASSUME NEW r \in CharacterRecord
  PROVE  Carries(r, Before(r)) /\ Carries(r, After(r))
<1>1. ASSUME NEW s \in CharacterRecord, NEW n
      PROVE  Carries(s, UpdateOther(s, n)) /\ UpdateOther(s, n) \in CharacterRecord
  BY CombatUpdateCarries, MovementUpdateCarries DEF UpdateOther, Carries
<1>2. Carries(r, UpdateOther(UpdateOther(r, 1), 2))
  <2>1. UpdateOther(r, 1) \in CharacterRecord
    BY <1>1
  <2>. QED  BY <1>1, <2>1, CarriesOn
<1>3. Carries(r, r)
  BY CarriesSame
<1>. QED  BY <1>1, <1>2, <1>3, SyncAssumption DEF Before, After

LEMMA SyncUpdateHolds ==
  ASSUME QuietCallback, SyncInv, SyncUpdate
  PROVE  SyncInv'
<1>1. /\ me \in CharacterRecord /\ history \in Seq(Entry) /\ Len(history) <= Cap
      /\ timer \in 0..Interval /\ Interval \in Nat
  BY Bounds DEF SyncInv, SyncIsSound, SyncTypeOK
<1>2. Before(me) \in CharacterRecord /\ Carries(me, me')
  <2>1. Carries(me, Before(me))
    BY <1>1, BeforeAfter
  <2>2. Before(me) \in CharacterRecord
    BY <2>1 DEF Carries
  <2>. QED  BY <2>1, <2>2, BeforeAfter, CarriesOn DEF SyncUpdate
<1>3. forged' = forged
  BY DEF SyncUpdate
<1>4. ASSUME dirty' \in BOOLEAN, marks' \subseteq Fields, owed' \subseteq Fields,
             timer' \in 0..Interval, history' \in Seq(Entry), Len(history') <= Cap,
             latest' \in Seq(Data), Len(latest') <= 1
      PROVE  SyncTypeOK'
  BY <1>2, <1>3, <1>4 DEF SyncInv, SyncIsSound, SyncTypeOK, Carries
<1>5. 0 \in 0..Interval
  BY <1>1
<1>6. CASE PerformSync(Before(me))
  <2>1. /\ marks' = {} /\ dirty' = FALSE /\ timer' = 0 /\ owed' = {}
    BY <1>6 DEF PerformSync, QuietCallback
  <2>2. CASE UNCHANGED <<history, latest>>
    <3>1. SyncTypeOK'
      <4>1. latest' \in Seq(Data) /\ Len(latest') <= 1
        BY <2>2 DEF SyncInv, SyncIsSound, SyncTypeOK
      <4>. QED  BY <1>1, <1>4, <1>5, <2>1, <2>2, <4>1
    <3>. QED
      BY <1>2, <1>3, <2>1, <2>2, <3>1 DEF SyncInv, SyncIsSound, Carries, Sound, Echoed
  <2>3. ASSUME NEW stamp \in Stamps,
               history' = Remember(SyncData(Before(me), stamp)),
               latest' = <<SyncData(Before(me), stamp)>>
        PROVE  SyncInv'
    <3>1. PICK data \in Data : data = SyncData(Before(me), stamp)
      <4>1. SyncData(Before(me), stamp) \in Data
        BY <1>2, Parts DEF SyncData, Data, Seen
      <4>. QED  BY <4>1
    <3>2. /\ history' \in Seq(Entry) /\ Len(history') <= Cap /\ Len(history') > 0
          /\ history'[Len(history')] = EntryOf(data)
      BY <1>1, <2>3, <3>1, Remembered
    <3>3. latest' \in Seq(Data) /\ Len(latest') <= 1 /\ latest'[1] = data
      BY <2>3, <3>1
    <3>4. SyncTypeOK'
      BY <1>4, <1>5, <2>1, <3>2, <3>3
    <3>. QED
      BY <1>2, <1>3, <2>1, <3>2, <3>3, <3>4 DEF SyncInv, SyncIsSound, Carries, Sound, Echoed
  <2>. QED  BY <1>6, <2>2, <2>3 DEF PerformSync
<1>7. CASE /\ timer' = AtMost(timer + 1, Interval)
           /\ UNCHANGED <<dirty, marks, history, owed, latest>>
  <2>1. timer' \in 0..Interval
    BY <1>1, <1>7 DEF AtMost
  <2>2. SyncTypeOK'
    BY <1>2, <1>3, <1>7, <2>1 DEF SyncInv, SyncIsSound, SyncTypeOK, Carries
  <2>. QED  BY <1>2, <1>3, <1>7, <2>2 DEF SyncInv, SyncIsSound, Carries, Sound, Echoed
<1>. QED  BY <1>6, <1>7 DEF SyncUpdate

LEMMA SyncNextHolds ==
  ASSUME QuietCallback, SyncInv, [SyncNext]_syncVars
  PROVE  SyncInv'
<1>0. me \in CharacterRecord
  BY DEF SyncInv, SyncIsSound, SyncTypeOK
<1>1. CASE UNCHANGED syncVars
  BY <1>0, <1>1, OwnerHolds, CarriesSame DEF syncVars
<1>2. CASE \/ Initialize
           \/ \E f \in Fields : Mark(f)
           \/ \E d \in BOOLEAN : SetDirty(d)
  BY <1>2, MarksHold
<1>3. CASE SyncUpdate
  BY <1>3, SyncUpdateHolds
<1>4. CASE Arrives
  BY <1>4, ArrivesHolds
<1>5. ASSUME NEW goal \in Aims, HandleRPC(goal)
      PROVE  SyncInv'
  <2>1. goal \in Int
    BY Bounds
  <2>. QED  BY <1>0, <1>5, <2>1, MoveCarries, OwnerHolds DEF HandleRPC
<1>6. ASSUME NEW d \in Blows, IsHit(d)
      PROVE  SyncInv'
  <2>1. d \in Nat
    BY Bounds
  <2>. QED  BY <1>0, <1>6, <2>1, TakeDamageCarries, OwnerHolds DEF IsHit
<1>. QED  BY <1>1, <1>2, <1>3, <1>4, <1>5, <1>6 DEF SyncNext

LEMMA SyncInvHolds ==
  ASSUME QuietCallback
  PROVE  SyncSpec => []SyncInv
<1>1. SyncInit => SyncInv
  BY SyncInitHolds
<1>2. SyncInv /\ [SyncNext]_syncVars => SyncInv'
  BY SyncNextHolds
<1>. QED  BY <1>1, <1>2, PTL DEF SyncSpec

-----------------------------------------------------------------------------
(* What is marked stays marked and the component dirty until an update gathers it,
   whatever data arrives in between; and takeDamage finds the death of everybody
   whom no data has declared dead before. *)
THEOREM SyncIsSoundHolds ==
  ASSUME QuietCallback
  PROVE  SyncSpec => []SyncIsSound
BY SyncInvHolds, PTL DEF SyncInv

(* My latest data that comes back, however late or often, does not move me back:
   its entry is still in prediction_history_, whatever the length of that. *)
THEOREM EchoIsHarmlessHolds ==
  ASSUME QuietCallback
  PROVE  SyncSpec => []EchoIsHarmless
<1>1. SyncInv => EchoIsHarmless
  <2>. SUFFICES ASSUME SyncInv, NEW k \in DOMAIN latest
                PROVE  Applied(me, latest[k], TRUE) = me
    BY DEF EchoIsHarmless
  <2>1. latest \in Seq(Data) /\ Len(latest) <= 1 /\ history \in Seq(Entry)
    BY DEF SyncInv, SyncIsSound, SyncTypeOK
  <2>2. k = 1 /\ latest # <<>>
    BY <2>1
  <2>3. Len(history) \in DOMAIN history /\ history[Len(history)].stamp = latest[k].stamp
    BY <2>1, <2>2 DEF SyncInv, Echoed, EntryOf
  <2>. QED  BY <2>3 DEF Applied
<1>. QED  BY <1>1, SyncInvHolds, PTL
=============================================================================
