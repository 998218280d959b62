-------------------------- MODULE CharactersProofs --------------------------
(***************************************************************************)
(* Proofs about Characters, for any characters, blows, paths and depth of  *)
(* callbacks.  What holds of one character is carried by a relation        *)
(* between it before and after a method, Keeps, one lemma per method.      *)
(***************************************************************************)
EXTENDS Characters, FiniteSetTheorems, TLAPS

Living(r) ==
  /\ r \in CharacterRecord
  /\ r.health = 0 => ~r.alive
  /\ r.state = "DEAD" => ~r.alive

(* What every method keeps but the two that bring an NPC back. *)
NoNewAttack(r, q) == q.state = "ATTACKING" => r.state = "ATTACKING"
DeadWaits(r, q) == ~r.alive => ~q.alive /\ q.respawn <= r.respawn
Serves(r, q) == Living(q) /\ NoNewAttack(r, q) /\ DeadWaits(r, q)
(* What every method keeps that does not pay for an attack either. *)
Keeps(r, q) == Serves(r, q) /\ q.stamina = r.stamina

LEMMA Constants ==
  /\ {MaxHealth, RespawnDelay, Step} \subseteq Nat \ {0}
  /\ {MaxStamina, MaxMana, CastTime, Cooldown, FleeStep} \subseteq Nat
  /\ Spawn \in Int
BY CharacterAssumption

LEMMA Fields ==
  ASSUME NEW r \in CharacterRecord
  PROVE  /\ r.npc \in BOOLEAN /\ r.alive \in BOOLEAN /\ r.moving \in BOOLEAN
         /\ r.state \in States /\ r.ai \in AIStates
         /\ r.health \in 0..MaxHealth /\ r.respawn \in 0..RespawnDelay
         /\ r.cast \in 0..CastTime /\ r.cooldown \in 0..Cooldown
         /\ r.stamina \in Int /\ r.mana \in Int
         /\ r.pos \in Int /\ r.goal \in Int
         /\ r.path \in Seq(Int) /\ r.next \in Nat \ {0}
BY DEF CharacterRecord

-----------------------------------------------------------------------------
(* Keeps may be chained along the calls of a method. *)
LEMMA KeepsChains ==
  ASSUME NEW r, NEW s, NEW q, Living(r), Keeps(r, s), Keeps(s, q)
  PROVE  Keeps(r, q)
<1>1. r.respawn \in Int /\ s.respawn \in Int /\ q.respawn \in Int
  BY Fields, Constants DEF Keeps, Serves, Living
<1>. QED  BY <1>1 DEF Keeps, Serves, NoNewAttack, DeadWaits

(* A change of other fields. *)
LEMMA QuietKeeps ==
  ASSUME NEW r, Living(r), NEW q \in CharacterRecord,
         q.health = r.health, q.alive = r.alive, q.state = r.state, q.respawn = r.respawn,
         q.stamina = r.stamina
  PROVE  Keeps(r, q)
<1>1. r.respawn \in Int
  BY Fields, Constants DEF Living
<1>. QED  BY <1>1 DEF Keeps, Serves, NoNewAttack, DeadWaits, Living

LEMMA KeepsSame == ASSUME NEW r, Living(r) PROVE Keeps(r, r)
BY QuietKeeps DEF Living

(* setState to a state in which a character may live. *)
LEMMA SetStateKeeps ==
  ASSUME NEW r, Living(r), NEW s \in States \ {"ATTACKING", "DEAD"}
  PROVE  Keeps(r, SetState(r, s))
<1>. DEFINE q == [r EXCEPT !.state = s]
<1>1. SetState(r, s) = q
  BY DEF SetState
<1>2. /\ q \in CharacterRecord
      /\ q.health = r.health /\ q.alive = r.alive /\ q.respawn = r.respawn /\ q.state = s
      /\ q.stamina = r.stamina
  BY DEF Living, CharacterRecord
<1>3. r.respawn \in Int
  BY Fields, Constants DEF Living
<1>. QED  BY <1>1, <1>2, <1>3 DEF Keeps, Serves, NoNewAttack, DeadWaits, Living

(* A death sets the timer of an NPC, and only of one that lived. *)
LEMMA OnDeathKeeps ==
  ASSUME NEW r \in CharacterRecord, r.alive
  PROVE  /\ OnDeath(r) \in CharacterRecord
         /\ ~OnDeath(r).alive
         /\ OnDeath(r).state = r.state /\ OnDeath(r).stamina = r.stamina
<1>1. "DEAD" \in AIStates /\ RespawnDelay \in 0..RespawnDelay
  BY Constants DEF AIStates
<1>2. CASE r.npc
  <2>1. PICK a \in AIStates, w \in 0..RespawnDelay : a = "DEAD" /\ w = RespawnDelay
    BY <1>1
  <2>. DEFINE q == [r EXCEPT !.alive = FALSE, !.ai = a, !.respawn = w]
  <2>2. q \in CharacterRecord /\ ~q.alive /\ q.state = r.state /\ q.stamina = r.stamina
    BY DEF CharacterRecord
  <2>3. OnDeath(r) = q
    BY <1>2, <2>1 DEF OnDeath
  <2>. QED  BY <2>2, <2>3
<1>3. CASE ~r.npc
  <2>1. OnDeath(r) = [r EXCEPT !.alive = FALSE]
    BY <1>3 DEF OnDeath
  <2>2. LET q == [r EXCEPT !.alive = FALSE]
        IN  /\ q \in CharacterRecord /\ ~q.alive
            /\ q.state = r.state /\ q.stamina = r.stamina
    BY DEF CharacterRecord
  <2>. QED  BY <2>1, <2>2
<1>. QED  BY <1>2, <1>3, Fields

(* setState(DEAD) when no health is left. *)
LEMMA KillKeeps ==
  ASSUME NEW r \in CharacterRecord, r.health = 0, r.state = "DEAD" => ~r.alive
  PROVE  /\ SetState(r, "DEAD") \in CharacterRecord
         /\ ~SetState(r, "DEAD").alive
         /\ ~r.alive => SetState(r, "DEAD").respawn = r.respawn
         /\ SetState(r, "DEAD").state = "DEAD"
         /\ SetState(r, "DEAD").stamina = r.stamina
<1>1. "DEAD" \in States
  BY DEF States
<1>2. PICK s \in States : s = "DEAD"
  BY <1>1
<1>. DEFINE q == [r EXCEPT !.state = s]
<1>3. /\ q \in CharacterRecord
      /\ q.health = r.health /\ q.alive = r.alive /\ q.respawn = r.respawn /\ q.state = s
      /\ q.stamina = r.stamina
  BY DEF CharacterRecord
<1>4. CASE ~r.alive
  <2>1. SetState(r, s) = q
    BY <1>2, <1>3, <1>4 DEF SetState, CheckDeath
  <2>. QED  BY <1>2, <1>3, <1>4, <2>1
<1>5. CASE r.alive
  <2>1. SetState(r, s) = OnDeath(q)
    BY <1>2, <1>3, <1>5 DEF SetState, CheckDeath
  <2>2. /\ OnDeath(q) \in CharacterRecord /\ ~OnDeath(q).alive
        /\ OnDeath(q).state = s /\ OnDeath(q).stamina = r.stamina
    BY <1>3, <1>5, OnDeathKeeps
  <2>. QED  BY <1>2, <1>5, <2>1, <2>2
<1>. QED  BY <1>4, <1>5, Fields

(* Damage: without health left there is no life left. *)
LEMMA TakeDamageKeeps ==
  ASSUME NEW r, Living(r), NEW d \in Nat
  PROVE  Keeps(r, TakeDamage(r, d))
<1>0. /\ r \in CharacterRecord /\ r.health \in 0..MaxHealth /\ MaxHealth \in Nat
      /\ r.respawn \in Int /\ r.alive \in BOOLEAN
  BY Fields, Constants DEF Living
<1>1. CASE d < r.health
  <2>. DEFINE h == r.health - d
              q == [r EXCEPT !.health = h]
  <2>1. TakeDamage(r, d) = q
    BY <1>0, <1>1 DEF TakeDamage
  <2>2. h \in 0..MaxHealth /\ h # 0 /\ r.health # 0
    BY <1>0, <1>1
  <2>. HIDE DEF h
  <2>3. /\ q \in CharacterRecord
        /\ q.health = h /\ q.alive = r.alive /\ q.respawn = r.respawn /\ q.state = r.state
        /\ q.stamina = r.stamina
    BY <1>0, <2>2 DEF CharacterRecord
  <2>. QED  BY <1>0, <2>1, <2>2, <2>3 DEF Keeps, Serves, NoNewAttack, DeadWaits, Living
<1>2. CASE ~(d < r.health)
  <2>0. PICK h \in 0..MaxHealth : h = 0
    BY <1>0
  <2>1. PICK e : e = [r EXCEPT !.health = h]
    OBVIOUS
  <2>2. /\ e \in CharacterRecord
        /\ e.health = 0 /\ e.alive = r.alive /\ e.respawn = r.respawn /\ e.state = r.state
        /\ e.stamina = r.stamina
    BY <1>0, <2>0, <2>1 DEF CharacterRecord
  <2>3. PICK q : q = SetState(e, "DEAD")
    OBVIOUS
  <2>4. TakeDamage(r, d) = q
    BY <1>0, <1>2, <2>0, <2>1, <2>3 DEF TakeDamage
  <2>5. /\ q \in CharacterRecord /\ ~q.alive /\ q.state = "DEAD" /\ q.stamina = e.stamina
        /\ ~e.alive => q.respawn = e.respawn
    BY <2>2, <2>3, KillKeeps DEF Living
  <2>. QED  BY <1>0, <2>2, <2>4, <2>5 DEF Keeps, Serves, NoNewAttack, DeadWaits, Living
<1>. QED  BY <1>1, <1>2

LEMMA HealKeeps ==
  ASSUME NEW r, Living(r), NEW n \in Nat
  PROVE  Keeps(r, Heal(r, n))
<1>0. /\ r \in CharacterRecord /\ r.health \in 0..MaxHealth /\ MaxHealth \in Nat \ {0}
      /\ r.alive \in BOOLEAN
  BY Fields, Constants DEF Living
<1>1. CASE r.alive
  <2>. DEFINE h == AtMost(r.health + n, MaxHealth)
              q == [r EXCEPT !.health = h]
  <2>1. Heal(r, n) = q
    BY <1>1 DEF Heal
  <2>2. h \in 0..MaxHealth /\ h # 0
    BY <1>0, <1>1 DEF AtMost, Living
  <2>. HIDE DEF h
  <2>3. /\ q \in CharacterRecord
        /\ q.health = h /\ q.alive = r.alive /\ q.respawn = r.respawn /\ q.state = r.state
        /\ q.stamina = r.stamina
    BY <1>0, <2>2 DEF CharacterRecord
  <2>. QED  BY <1>1, <2>1, <2>2, <2>3 DEF Keeps, Serves, NoNewAttack, DeadWaits, Living
<1>2. CASE ~r.alive
  BY <1>2, KeepsSame DEF Heal
<1>. QED  BY <1>0, <1>1, <1>2

(* Level-up fills the health of a player, also of a dead one. *)
LEMMA LevelUpKeeps ==
  ASSUME NEW r, Living(r)
  PROVE  Keeps(r, [r EXCEPT !.health = MaxHealth, !.mana = MaxMana])
<1>1. PICK h \in 0..MaxHealth, m \in Int : h = MaxHealth /\ m = MaxMana /\ h # 0
  BY Constants
<1>. DEFINE q == [r EXCEPT !.health = h, !.mana = m]
<1>2. /\ q \in CharacterRecord
      /\ q.health = h /\ q.alive = r.alive /\ q.respawn = r.respawn /\ q.state = r.state
      /\ q.stamina = r.stamina
  BY DEF Living, CharacterRecord
<1>3. r.respawn \in Int
  BY Fields, Constants DEF Living
<1>4. Keeps(r, q)
  BY <1>1, <1>2, <1>3 DEF Keeps, Serves, NoNewAttack, DeadWaits, Living
<1>. QED  BY <1>1, <1>4

LEMMA PayKeeps ==
  ASSUME NEW r, Living(r)
  PROVE  /\ Serves(r, PayAttack(r)) /\ PayAttack(r).stamina = r.stamina - 1
         /\ Keeps(r, PayCast(r))
<1>0. r \in CharacterRecord /\ r.stamina \in Int /\ r.mana \in Int
  BY Fields DEF Living
<1>1. PICK s \in Int, m \in Int, k \in 0..Cooldown :
        s = r.stamina - 1 /\ m = r.mana - 1 /\ k = Cooldown
  BY <1>0, Constants
<1>. DEFINE a == [r EXCEPT !.stamina = s]
            c == [r EXCEPT !.cooldown = k, !.mana = m]
<1>2. /\ a \in CharacterRecord
      /\ a.health = r.health /\ a.alive = r.alive /\ a.respawn = r.respawn /\ a.state = r.state
      /\ a.stamina = s
  BY <1>0 DEF CharacterRecord
<1>3. /\ c \in CharacterRecord
      /\ c.health = r.health /\ c.alive = r.alive /\ c.respawn = r.respawn /\ c.state = r.state
      /\ c.stamina = r.stamina
  BY <1>0 DEF CharacterRecord
<1>4. Serves(r, a) /\ Keeps(r, c)
  <2>1. r.respawn \in Int
    BY Fields, Constants DEF Living
  <2>2. Serves(r, a)
    BY <1>2, <2>1 DEF Serves, NoNewAttack, DeadWaits, Living
  <2>. QED  BY <1>3, <2>2, QuietKeeps
<1>5. PayAttack(r) = a /\ PayCast(r) = c
  BY <1>1 DEF PayAttack, PayCast
<1>. QED  BY <1>1, <1>2, <1>4, <1>5

LEMMA StartCastKeeps ==
  ASSUME NEW r, Living(r)
  PROVE  Keeps(r, StartCast(r))
<1>1. PICK k \in 0..CastTime : k = CastTime
  BY Constants
<1>2. PICK q : q = [r EXCEPT !.cast = k]
  OBVIOUS
<1>3. /\ q \in CharacterRecord
      /\ q.health = r.health /\ q.alive = r.alive /\ q.respawn = r.respawn /\ q.state = r.state
      /\ q.stamina = r.stamina
  BY <1>2 DEF Living, CharacterRecord
<1>4. Keeps(r, q) /\ Living(q)
  BY <1>3, QuietKeeps DEF Keeps, Serves
<1>5. "CASTING" \in States \ {"ATTACKING", "DEAD"}
  BY DEF States
<1>6. Keeps(q, SetState(q, "CASTING"))
  BY <1>4, <1>5, SetStateKeeps
<1>7. StartCast(r) = SetState(q, "CASTING")
  BY <1>1, <1>2 DEF StartCast
<1>. QED  BY <1>4, <1>6, <1>7, KeepsChains

(* The cooldown and the cast go down; the end of a cast is IDLE. *)
LEMMA CombatUpdateKeeps ==
  ASSUME NEW r, Living(r)
  PROVE  Keeps(r, CombatUpdate(r))
<1>0. r \in CharacterRecord /\ r.cooldown \in 0..Cooldown /\ r.cast \in 0..CastTime
  BY Fields DEF Living
<1>1. PICK k \in 0..Cooldown, t \in 0..CastTime :
        k = CountDown(r.cooldown) /\ t = CountDown(r.cast)
  BY <1>0, Constants DEF CountDown
<1>2. PICK q : q = [r EXCEPT !.cooldown = k, !.cast = t]
  OBVIOUS
<1>3. /\ q \in CharacterRecord
      /\ q.health = r.health /\ q.alive = r.alive /\ q.respawn = r.respawn /\ q.state = r.state
      /\ q.stamina = r.stamina
  BY <1>0, <1>2 DEF CharacterRecord
<1>4. Keeps(r, q) /\ Living(q)
  BY <1>3, QuietKeeps DEF Keeps, Serves
<1>5. "IDLE" \in States \ {"ATTACKING", "DEAD"}
  BY DEF States
<1>6. Keeps(q, SetState(q, "IDLE"))
  BY <1>4, <1>5, SetStateKeeps
<1>7. CombatUpdate(r) = IF r.cast = 1 THEN SetState(q, "IDLE") ELSE q
  BY <1>1, <1>2 DEF CombatUpdate
<1>. QED  BY <1>4, <1>6, <1>7, KeepsChains

-----------------------------------------------------------------------------
LEMMA StopKeeps ==
  ASSUME NEW r, Living(r)
  PROVE  Keeps(r, StopMovement(r))
<1>1. PICK q : q = [r EXCEPT !.moving = FALSE]
  OBVIOUS
<1>2. /\ q \in CharacterRecord
      /\ q.health = r.health /\ q.alive = r.alive /\ q.respawn = r.respawn /\ q.state = r.state
      /\ q.stamina = r.stamina
  BY <1>1 DEF Living, CharacterRecord
<1>3. Keeps(r, q) /\ Living(q)
  BY <1>2, QuietKeeps DEF Keeps, Serves
<1>4. "IDLE" \in States \ {"ATTACKING", "DEAD"}
  BY DEF States
<1>5. Keeps(q, SetState(q, "IDLE"))
  BY <1>3, <1>4, SetStateKeeps
<1>6. StopMovement(r) = IF r.state = "MOVING" THEN SetState(q, "IDLE") ELSE q
  BY <1>1 DEF StopMovement
<1>. QED  BY <1>3, <1>5, <1>6, KeepsChains

LEMMA MoveKeeps ==
  ASSUME NEW r, Living(r), NEW g \in Int
  PROVE  Keeps(r, MoveTo(r, g))
<1>1. PICK q : q = [r EXCEPT !.goal = g, !.moving = TRUE]
  OBVIOUS
<1>2. /\ q \in CharacterRecord
      /\ q.health = r.health /\ q.alive = r.alive /\ q.respawn = r.respawn /\ q.state = r.state
      /\ q.stamina = r.stamina
  BY <1>1 DEF Living, CharacterRecord
<1>3. Keeps(r, q) /\ Living(q)
  BY <1>2, QuietKeeps DEF Keeps, Serves
<1>4. "MOVING" \in States \ {"ATTACKING", "DEAD"}
  BY DEF States
<1>5. Keeps(q, SetState(q, "MOVING"))
  BY <1>3, <1>4, SetStateKeeps
<1>6. MoveTo(r, g) = SetState(q, "MOVING")
  BY <1>1 DEF MoveTo
<1>. QED  BY <1>3, <1>5, <1>6, KeepsChains

LEMMA SetPathKeeps ==
  ASSUME NEW r, Living(r), NEW p \in Seq(Int)
  PROVE  Keeps(r, SetPath(r, p))
<1>0. PICK n \in Nat \ {0} : n = 1
  OBVIOUS
<1>1. CASE p = <<>>
  <2>. DEFINE q == [r EXCEPT !.path = p, !.next = n]
  <2>1. /\ q \in CharacterRecord
        /\ q.health = r.health /\ q.alive = r.alive /\ q.respawn = r.respawn /\ q.state = r.state
        /\ q.stamina = r.stamina
    BY DEF Living, CharacterRecord
  <2>2. SetPath(r, p) = q
    BY <1>0, <1>1 DEF SetPath
  <2>. QED  BY <2>1, <2>2, QuietKeeps
<1>2. CASE p # <<>>
  <2>1. PICK g \in Int : g = p[1]
    BY <1>2
  <2>. DEFINE q == [r EXCEPT !.path = p, !.next = n, !.goal = g, !.moving = TRUE]
  <2>2. /\ q \in CharacterRecord
        /\ q.health = r.health /\ q.alive = r.alive /\ q.respawn = r.respawn /\ q.state = r.state
        /\ q.stamina = r.stamina
    BY DEF Living, CharacterRecord
  <2>3. SetPath(r, p) = q
    BY <1>0, <1>2, <2>1 DEF SetPath
  <2>. QED  BY <2>2, <2>3, QuietKeeps
<1>. QED  BY <1>1, <1>2

LEMMA ClearPathKeeps ==
  ASSUME NEW r, Living(r)
  PROVE  Keeps(r, ClearPath(r))
<1>0. <<>> \in Seq(Int)
  OBVIOUS
<1>1. PICK p \in Seq(Int) : p = <<>>
  BY <1>0
<1>6. PICK n \in Nat \ {0} : n = 1
  OBVIOUS
<1>2. PICK q : q = [r EXCEPT !.path = p, !.next = n]
  OBVIOUS
<1>3. /\ q \in CharacterRecord
      /\ q.health = r.health /\ q.alive = r.alive /\ q.respawn = r.respawn /\ q.state = r.state
      /\ q.stamina = r.stamina
  BY <1>2 DEF Living, CharacterRecord
<1>4. Keeps(r, q) /\ Living(q)
  BY <1>3, QuietKeeps DEF Keeps, Serves
<1>5. ClearPath(r) = StopMovement(q)
  BY <1>1, <1>6, <1>2 DEF ClearPath
<1>. QED  BY <1>4, <1>5, StopKeeps, KeepsChains

LEMMA UpdateMovementKeeps ==
  ASSUME NEW r, Living(r)
  PROVE  Keeps(r, UpdateMovement(r))
<1>0. r \in CharacterRecord /\ r.pos \in Int
  BY Fields DEF Living
<1>1. PICK p \in Int : p = (IF r.goal > r.pos THEN r.pos + Step ELSE r.pos - Step)
  BY <1>0, Constants
<1>2. PICK q : q = [r EXCEPT !.pos = p]
  OBVIOUS
<1>3. /\ q \in CharacterRecord
      /\ q.health = r.health /\ q.alive = r.alive /\ q.respawn = r.respawn /\ q.state = r.state
      /\ q.stamina = r.stamina
  BY <1>0, <1>2 DEF CharacterRecord
<1>4. Keeps(r, q) /\ Keeps(r, r) /\ Keeps(r, StopMovement(r))
  BY <1>3, QuietKeeps, KeepsSame, StopKeeps
<1>5. UpdateMovement(r) = IF ~r.moving THEN r
                          ELSE IF r.pos = r.goal THEN StopMovement(r) ELSE q
  BY <1>1, <1>2 DEF UpdateMovement
<1>. QED  BY <1>4, <1>5

LEMMA UpdatePathKeeps ==
  ASSUME NEW r, Living(r)
  PROVE  Keeps(r, UpdatePath(r))
<1>0. r \in CharacterRecord /\ r.path \in Seq(Int) /\ r.next \in Nat \ {0}
  BY Fields DEF Living
<1>1. PICK n \in Nat \ {0} :
        n = (IF Away(r.path[r.next], r.pos) < Near THEN r.next + 1 ELSE r.next)
  BY <1>0
<1>2. CASE r.path = <<>>
  BY <1>2, KeepsSame DEF UpdatePath
<1>3. CASE r.path # <<>> /\ r.next > Len(r.path)
  BY <1>3, ClearPathKeeps DEF UpdatePath
<1>4. CASE r.path # <<>> /\ ~(r.next > Len(r.path)) /\ n > Len(r.path)
  <2>1. PICK q : q = [r EXCEPT !.next = n]
    OBVIOUS
  <2>2. /\ q \in CharacterRecord
        /\ q.health = r.health /\ q.alive = r.alive /\ q.respawn = r.respawn /\ q.state = r.state
        /\ q.stamina = r.stamina
    BY <1>0, <2>1 DEF CharacterRecord
  <2>3. Keeps(r, q) /\ Living(q)
    BY <2>2, QuietKeeps DEF Keeps, Serves
  <2>4. UpdatePath(r) = ClearPath(q)
    BY <1>1, <1>4, <2>1 DEF UpdatePath
  <2>. QED  BY <2>3, <2>4, ClearPathKeeps, KeepsChains
<1>5. CASE r.path # <<>> /\ ~(r.next > Len(r.path)) /\ ~(n > Len(r.path))
  <2>1. PICK g \in Int : g = r.path[n]
    BY <1>0, <1>5
  <2>. DEFINE q == [r EXCEPT !.next = n, !.goal = g, !.moving = TRUE]
  <2>2. /\ q \in CharacterRecord
        /\ q.health = r.health /\ q.alive = r.alive /\ q.respawn = r.respawn /\ q.state = r.state
        /\ q.stamina = r.stamina
    BY <1>0 DEF CharacterRecord
  <2>3. UpdatePath(r) = q
    BY <1>1, <1>5, <2>1 DEF UpdatePath
  <2>. QED  BY <2>2, <2>3, QuietKeeps
<1>. QED  BY <1>2, <1>3, <1>4, <1>5

LEMMA ComponentUpdateKeeps ==
  ASSUME NEW r, Living(r)
  PROVE  Keeps(r, ComponentUpdate(r))
<1>1. ASSUME NEW s, Living(s)
      PROVE  Keeps(s, MovementUpdate(s))
  <2>1. Keeps(s, UpdateMovement(s)) /\ Living(UpdateMovement(s))
    BY <1>1, UpdateMovementKeeps DEF Keeps, Serves
  <2>2. Keeps(UpdateMovement(s), UpdatePath(UpdateMovement(s)))
    BY <2>1, UpdatePathKeeps
  <2>3. Keeps(s, UpdatePath(UpdateMovement(s)))
    BY <1>1, <2>1, <2>2, KeepsChains
  <2>. QED  BY <1>1, <2>3, StopKeeps DEF MovementUpdate
<1>2. Keeps(r, CombatUpdate(r)) /\ Living(CombatUpdate(r))
  BY CombatUpdateKeeps DEF Keeps, Serves
<1>3. Keeps(r, MovementUpdate(CombatUpdate(r)))
  BY <1>1, <1>2, KeepsChains
<1>4. Keeps(r, MovementUpdate(r)) /\ Living(MovementUpdate(r))
  BY <1>1 DEF Keeps, Serves
<1>5. Keeps(r, CombatUpdate(MovementUpdate(r)))
  BY <1>4, CombatUpdateKeeps, KeepsChains
<1>. QED  BY <1>3, <1>5, KeepsSame DEF ComponentUpdate

-----------------------------------------------------------------------------
(* An NPC that comes back is whole and does not attack. *)
LEMMA RespawnLives ==
  ASSUME NEW r \in CharacterRecord
  PROVE  LET q == Respawn(r) IN
         Living(q) /\ q.alive /\ q.state # "ATTACKING" /\ q.stamina = r.stamina
<1>1. PICK a \in AIStates, p \in Int, h \in 0..MaxHealth, m \in Int :
        a = "IDLE" /\ p = Spawn /\ h = MaxHealth /\ m = MaxMana /\ h # 0
  <2>1. "IDLE" \in AIStates /\ Spawn \in Int /\ MaxHealth \in 0..MaxHealth
        /\ MaxMana \in Int /\ MaxHealth # 0
    BY Constants DEF AIStates
  <2>. QED  BY <2>1
<1>2. PICK s \in States : s = "IDLE"
  BY DEF States
<1>3. PICK q : q = [r EXCEPT !.alive = TRUE, !.ai = a, !.pos = p]
  OBVIOUS
<1>4. q \in CharacterRecord /\ q.alive /\ q.state = r.state /\ q.stamina = r.stamina
  BY <1>3 DEF CharacterRecord
<1>5. PICK moved \in CharacterRecord :
        moved = StopMovement(q) /\ moved.alive /\ moved.stamina = r.stamina
  <2>1. PICK t : t = [q EXCEPT !.moving = FALSE]
    OBVIOUS
  <2>2. t \in CharacterRecord /\ t.alive /\ t.stamina = r.stamina
    BY <1>4, <2>1 DEF CharacterRecord
  <2>. DEFINE u == [t EXCEPT !.state = s]
  <2>3. u \in CharacterRecord /\ u.alive /\ u.stamina = r.stamina
    BY <2>2 DEF CharacterRecord
  <2>4. StopMovement(q) = IF q.state = "MOVING" THEN u ELSE t
    BY <1>2, <2>1 DEF StopMovement, SetState
  <2>. QED  BY <2>2, <2>3, <2>4
<1>6. PICK whole : whole = [moved EXCEPT !.health = h, !.mana = m]
  OBVIOUS
<1>7. /\ whole \in CharacterRecord /\ whole.alive /\ whole.health = h
      /\ whole.stamina = r.stamina
  BY <1>5, <1>6 DEF CharacterRecord
<1>8. PICK idle : idle = [whole EXCEPT !.state = s]
  OBVIOUS
<1>9. /\ idle \in CharacterRecord /\ idle.alive /\ idle.health = h /\ idle.state = s
      /\ idle.stamina = r.stamina
  BY <1>7, <1>8 DEF CharacterRecord
<1>. DEFINE z == [idle EXCEPT !.hunting = FALSE]
<1>10. /\ z \in CharacterRecord /\ z.alive /\ z.health = h /\ z.state = s
       /\ z.stamina = r.stamina
  BY <1>9 DEF CharacterRecord
<1>11. Respawn(r) = z
  <2>1. SetState(whole, "IDLE") = idle
    BY <1>2, <1>8 DEF SetState
  <2>. QED  BY <1>1, <1>3, <1>5, <1>6, <2>1 DEF Respawn
<1>. QED  BY <1>1, <1>2, <1>10, <1>11 DEF Living

LEMMA MoodKeeps ==
  ASSUME NEW r, Living(r), NEW a \in AIStates, NEW h \in BOOLEAN
  PROVE  /\ Keeps(r, [r EXCEPT !.ai = a, !.hunting = h])
         /\ Keeps(r, [r EXCEPT !.ai = a])
<1>. DEFINE q == [r EXCEPT !.ai = a, !.hunting = h]
            p == [r EXCEPT !.ai = a]
<1>1. /\ q \in CharacterRecord
      /\ q.health = r.health /\ q.alive = r.alive /\ q.respawn = r.respawn /\ q.state = r.state
      /\ q.stamina = r.stamina
  BY DEF Living, CharacterRecord
<1>2. /\ p \in CharacterRecord
      /\ p.health = r.health /\ p.alive = r.alive /\ p.respawn = r.respawn /\ p.state = r.state
      /\ p.stamina = r.stamina
  BY DEF Living, CharacterRecord
<1>. QED  BY <1>1, <1>2, QuietKeeps

LEMMA FleeKeeps ==
  ASSUME NEW r, Living(r)
  PROVE  Keeps(r, Flee(r))
<1>1. PICK g \in Int : g = FleeFrom(r)
  <2>1. r.pos \in Int /\ FleeStep \in Int
    BY Fields, Constants DEF Living
  <2>. QED  BY <2>1 DEF FleeFrom
<1>2. PICK q : q = MoveTo(r, g)
  OBVIOUS
<1>3. Keeps(r, q) /\ Living(q)
  BY <1>2, MoveKeeps DEF Keeps, Serves
<1>4. PICK a \in AIStates : a = "IDLE"
  BY DEF AIStates
<1>5. PICK p : p = [q EXCEPT !.ai = a]
  OBVIOUS
<1>6. Keeps(q, p) /\ Living(p)
  <2>1. Keeps(q, [q EXCEPT !.ai = a])
    BY <1>3, MoodKeeps
  <2>. QED  BY <1>5, <2>1 DEF Keeps, Serves
<1>7. Keeps(p, StopMovement(p))
  BY <1>6, StopKeeps
<1>8. Keeps(r, p)
  BY <1>3, <1>6, KeepsChains
<1>9. Keeps(r, StopMovement(p))
  BY <1>7, <1>8, KeepsChains
<1>10. Flee(r) = IF Away(q.pos, Spawn) > 2 * PatrolRadius THEN StopMovement(p) ELSE q
  BY <1>1, <1>2, <1>4, <1>5 DEF Flee
<1>. QED  BY <1>3, <1>9, <1>10

LEMMA UpdateAIKeeps ==
  ASSUME NEW r, Living(r), NEW choice \in SUBSET Int
  PROVE  Keeps(r, UpdateAI(r, choice))
<1>0. r.ai \in AIStates
  BY Fields DEF Living
<1>1. Keeps(r, Patrol(r, choice))
  <2>1. CASE ~r.moving /\ choice # {}
    <3>1. (CHOOSE p \in choice : TRUE) \in Int
      BY <2>1
    <3>. QED  BY <2>1, <3>1, MoveKeeps DEF Patrol
  <2>2. CASE ~(~r.moving /\ choice # {})
    BY <2>2, KeepsSame DEF Patrol
  <2>. QED  BY <2>1, <2>2
<1>2. "IDLE" \in AIStates /\ "ATTACK" \in AIStates
  BY DEF AIStates
<1>3. Keeps(r, GiveUp(r))
  BY <1>2, MoodKeeps DEF GiveUp
<1>4. Keeps(r, Chase(r))
  <2>1. Keeps(r, [r EXCEPT !.ai = "ATTACK"])
    BY <1>2, MoodKeeps
  <2>2. Keeps(r, MoveTo(r, 0))
    BY MoveKeeps
  <2>. QED  BY <2>1, <2>2 DEF Chase
<1>5. Keeps(r, Flee(r)) /\ Keeps(r, r)
  BY FleeKeeps, KeepsSame
<1>. QED  BY <1>0, <1>1, <1>3, <1>4, <1>5 DEF UpdateAI, AIStates

(* An update may bring a dead NPC back, and does nothing worse. *)
Goes(r, q) ==
  /\ Living(q) /\ NoNewAttack(r, q) /\ q.stamina = r.stamina
  /\ ~r.alive /\ ~q.alive => q.respawn <= r.respawn

LEMMA CharacterUpdateGoes ==
  ASSUME NEW r, Living(r), NEW choice \in SUBSET Int
  PROVE  Goes(r, CharacterUpdate(r, choice))
<1>0. r \in CharacterRecord /\ r.respawn \in 0..RespawnDelay /\ RespawnDelay \in Nat
      /\ r.alive \in BOOLEAN
  BY Fields, Constants DEF Living
<1>1. ASSUME NEW q, Keeps(r, q) PROVE Goes(r, q)
  BY <1>0, <1>1 DEF Keeps, Serves, Goes, DeadWaits
<1>2. Keeps(r, ComponentUpdate(r)) /\ Living(ComponentUpdate(r))
  BY ComponentUpdateKeeps DEF Keeps, Serves
<1>3. Keeps(r, UpdateAI(ComponentUpdate(r), choice))
  BY <1>2, UpdateAIKeeps, KeepsChains
<1>4. CASE ~r.npc \/ r.alive \/ r.respawn = 0
  BY <1>1, <1>2, <1>3, <1>4, KeepsSame DEF CharacterUpdate
<1>5. CASE r.npc /\ ~r.alive /\ r.respawn # 0
  <2>1. PICK w \in 0..RespawnDelay : w = r.respawn - 1
    BY <1>0, <1>5
  <2>2. PICK q : q = [r EXCEPT !.respawn = w]
    OBVIOUS
  <2>3. /\ q \in CharacterRecord /\ q.respawn = w /\ q.stamina = r.stamina
        /\ q.health = r.health /\ q.alive = r.alive /\ q.state = r.state
    BY <1>0, <2>2 DEF CharacterRecord
  <2>4. CharacterUpdate(r, choice) = IF w = 0 THEN Respawn(q) ELSE q
    BY <1>5, <2>1, <2>2, <2>3 DEF CharacterUpdate
  <2>5. Goes(r, q)
    BY <1>0, <2>1, <2>3 DEF Goes, NoNewAttack, Living
  <2>6. Goes(r, Respawn(q))
    BY <2>3, RespawnLives DEF Goes, NoNewAttack
  <2>. QED  BY <2>4, <2>5, <2>6
<1>. QED  BY <1>0, <1>4, <1>5

-----------------------------------------------------------------------------
(* The stack of the calls that wait for a callback. *)
Strikes(s, c) == \E i \in DOMAIN s : s[i].call = "attack" /\ s[i].who = c

LEMMA PushKeeps ==
  ASSUME NEW s \in Seq(Frame), NEW f \in Frame
  PROVE  /\ Append(s, f) \in Seq(Frame)
         /\ \A c : Strikes(s, c) => Strikes(Append(s, f), c)
         /\ f.call = "attack" => Strikes(Append(s, f), f.who)
<1>1. Append(s, f) \in Seq(Frame)
  OBVIOUS
<1>2. ASSUME NEW c, Strikes(s, c) PROVE Strikes(Append(s, f), c)
  <2>1. PICK i \in DOMAIN s : s[i].call = "attack" /\ s[i].who = c
    BY <1>2 DEF Strikes
  <2>2. i \in DOMAIN Append(s, f) /\ Append(s, f)[i] = s[i]
    OBVIOUS
  <2>. QED  BY <2>1, <2>2 DEF Strikes
<1>3. Len(s) + 1 \in DOMAIN Append(s, f) /\ Append(s, f)[Len(s) + 1] = f
  OBVIOUS
<1>. QED  BY <1>1, <1>2, <1>3 DEF Strikes

LEMMA PopKeeps ==
  ASSUME NEW s \in Seq(Frame), s # <<>>
  PROVE  LET top == s[Len(s)]
             rest == SubSeq(s, 1, Len(s) - 1) IN
         /\ top \in Frame
         /\ rest \in Seq(Frame)
         /\ \A c : Strikes(s, c) => Strikes(rest, c) \/ (top.call = "attack" /\ top.who = c)
<1>. DEFINE top == s[Len(s)]
            rest == SubSeq(s, 1, Len(s) - 1)
<1>0. Len(s) \in Nat \ {0} /\ DOMAIN s = 1..Len(s)
  OBVIOUS
<1>1. top \in Frame
  BY <1>0
<1>2. /\ rest \in Seq(Frame) /\ Len(rest) = Len(s) - 1
      /\ \A i \in 1..(Len(s) - 1) : rest[i] = s[i]
  BY <1>0
<1>3. ASSUME NEW c, Strikes(s, c), ~(top.call = "attack" /\ top.who = c)
      PROVE  Strikes(rest, c)
  <2>1. PICK i \in DOMAIN s : s[i].call = "attack" /\ s[i].who = c
    BY <1>3 DEF Strikes
  <2>2. i \in 1..(Len(s) - 1)
    BY <1>0, <1>3, <2>1
  <2>3. i \in DOMAIN rest /\ rest[i] = s[i]
    BY <1>2, <2>2
  <2>. QED  BY <2>1, <2>3 DEF Strikes
<1>. QED  BY <1>1, <1>2, <1>3

-----------------------------------------------------------------------------
(* The whole game. *)
Everybody(ch) == ch \in [Everyone -> CharacterRecord] /\ \A c \in Everyone : Living(ch[c])

IInv ==
  /\ Everybody(chars)
  /\ stack \in Seq(Frame)
  /\ \A c \in Everyone : chars[c].state = "ATTACKING" => Strikes(stack, c)

(* What a call may do to everybody but the attacks that it begins. *)
Follows(ch, ch2, begins) ==
  /\ Everybody(ch2)
  /\ \A c \in Everyone :
       /\ DeadWaits(ch[c], ch2[c])
       /\ ch2[c].state = "ATTACKING" => ch[c].state = "ATTACKING" \/ c \in begins

LEMMA OneFollows ==
  ASSUME NEW ch, Everybody(ch), NEW c \in Everyone, NEW q, Serves(ch[c], q)
  PROVE  /\ Follows(ch, [ch EXCEPT ![c] = q], {})
         /\ [ch EXCEPT ![c] = q] \in [Everyone -> CharacterRecord]
         /\ \A x \in Everyone : [ch EXCEPT ![c] = q][x] = IF x = c THEN q ELSE ch[x]
<1>. DEFINE ch2 == [ch EXCEPT ![c] = q]
<1>1. \A x \in Everyone : ch2[x] = IF x = c THEN q ELSE ch[x]
  BY DEF Everybody
<1>2. ch2 \in [Everyone -> CharacterRecord]
  BY DEF Everybody, Keeps, Serves, Living
<1>3. ASSUME NEW x \in Everyone PROVE Serves(ch[x], ch2[x])
  BY <1>1, KeepsSame DEF Everybody, Keeps
<1>. QED  BY <1>1, <1>2, <1>3 DEF Follows, Everybody, Keeps, Serves, NoNewAttack

LEMMA FollowsChains ==
  ASSUME NEW a, NEW b, NEW e, Everybody(a), NEW p, NEW q, Follows(a, b, p), Follows(b, e, q)
  PROVE  Follows(a, e, p \cup q)
<1>1. ASSUME NEW c \in Everyone
      PROVE  a[c].respawn \in Int /\ b[c].respawn \in Int /\ e[c].respawn \in Int
  BY Fields, Constants DEF Follows, Everybody, Living
<1>. QED  BY <1>1 DEF Follows, DeadWaits

(* The beginning of an attack. *)
LEMMA ReadyFollows ==
  ASSUME NEW ch, Everybody(ch), NEW c \in Everyone
  PROVE  LET ch2 == [ch EXCEPT ![c] = SetState(@, "ATTACKING")] IN
         Follows(ch, ch2, {c})
<1>1. PICK s \in States : s = "ATTACKING"
  BY DEF States
<1>2. PICK r \in CharacterRecord : r = ch[c]
  BY DEF Everybody
<1>. DEFINE q == [r EXCEPT !.state = s]
<1>3. /\ q \in CharacterRecord
      /\ q.health = r.health /\ q.alive = r.alive /\ q.respawn = r.respawn /\ q.state = s
      /\ q.stamina = r.stamina
  BY DEF CharacterRecord
<1>4. SetState(ch[c], "ATTACKING") = q
  BY <1>1, <1>2 DEF SetState
<1>5. Living(q) /\ DeadWaits(r, q)
  <2>1. r.respawn \in Int
    BY Fields, Constants
  <2>. QED  BY <1>1, <1>2, <1>3, <2>1 DEF Living, DeadWaits, Everybody
<1>6. PICK z : z = q
  OBVIOUS
<1>. DEFINE ch2 == [ch EXCEPT ![c] = z]
<1>7. \A x \in Everyone : ch2[x] = IF x = c THEN z ELSE ch[x]
  BY DEF Everybody
<1>8. ch2 \in [Everyone -> CharacterRecord]
  BY <1>3, <1>6 DEF Everybody
<1>9. ASSUME NEW x \in Everyone, x # c PROVE Keeps(ch[x], ch[x])
  BY KeepsSame DEF Everybody
<1>10. Follows(ch, ch2, {c})
  BY <1>2, <1>5, <1>6, <1>7, <1>8, <1>9 DEF Follows, Everybody, Keeps, Serves, NoNewAttack
<1>. QED  BY <1>4, <1>6, <1>10

-----------------------------------------------------------------------------
WaitShortens ==
  \A c \in Everyone : ~chars[c].alive /\ ~chars'[c].alive =>
    chars'[c].respawn <= chars[c].respawn

(* A step is good when it follows, and a frame stays for everybody who is
   attacking afterwards. *)
LEMMA GoodStep ==
  ASSUME IInv, NEW begins, Follows(chars, chars', begins),
         stack' \in Seq(Frame),
         \A c \in Everyone : chars'[c].state = "ATTACKING" =>
           /\ Strikes(stack, c) => Strikes(stack', c)
           /\ c \in begins => Strikes(stack', c)
  PROVE  IInv' /\ WaitShortens
<1>1. Everybody(chars') /\ WaitShortens
  BY DEF Follows, WaitShortens, DeadWaits
<1>2. \A c \in Everyone : chars'[c].state = "ATTACKING" => Strikes(stack', c)
  BY DEF IInv, Follows
<1>. QED  BY <1>1, <1>2 DEF IInv, Everybody, Living, Strikes

LEMMA DoGood ==
  ASSUME IInv, NEW c \in Everyone, NEW r, Keeps(chars[c], r), Do(c, r)
  PROVE  IInv' /\ WaitShortens
<1>1. Follows(chars, chars', {})
  BY OneFollows DEF Do, IInv, Keeps
<1>2. stack \in Seq(Frame) /\ stack' = stack
  BY DEF Do, IInv
<1>. QED  BY <1>1, <1>2, GoodStep

LEMMA AttackGood ==
  ASSUME IInv, NEW c \in Everyone, NEW t \in Everyone, NEW d \in Nat, Attack(c, t, d)
  PROVE  IInv' /\ WaitShortens
<1>. DEFINE ready == [chars EXCEPT ![c] = SetState(@, "ATTACKING")]
            after == [ready EXCEPT ![t] = TakeDamage(@, d)]
            paid == [after EXCEPT ![c] = PayAttack(@)]
            frame(at) == [call |-> "attack", who |-> c, at |-> at]
<1>1. Everybody(chars) /\ stack \in Seq(Frame)
  BY DEF IInv
<1>2. PICK a : a = ready /\ Follows(chars, a, {c})
  BY <1>1, ReadyFollows
<1>3. PICK b : b = [a EXCEPT ![t] = TakeDamage(@, d)] /\ Follows(a, b, {})
  <2>1. Everybody(a)
    BY <1>2 DEF Follows
  <2>2. Keeps(a[t], TakeDamage(a[t], d))
    BY <2>1, TakeDamageKeeps DEF Everybody
  <2>. QED  BY <2>1, <2>2, OneFollows DEF Keeps
<1>4. PICK e : e = [b EXCEPT ![c] = PayAttack(@)] /\ Follows(b, e, {})
  <2>1. Everybody(b)
    BY <1>3 DEF Follows
  <2>2. Serves(b[c], PayAttack(b[c]))
    BY <2>1, PayKeeps DEF Everybody
  <2>. QED  BY <2>1, <2>2, OneFollows DEF Keeps
<1>5. Follows(chars, b, {c})
  <2>1. Follows(chars, b, {c} \cup {})
    BY <1>1, <1>2, <1>3, FollowsChains
  <2>. QED  BY <2>1 DEF Follows
<1>6. Follows(chars, e, {c})
  <2>1. Follows(chars, e, {c} \cup {})
    BY <1>1, <1>4, <1>5, FollowsChains
  <2>. QED  BY <2>1 DEF Follows
<1>7. PICK f \in Frame : f.call = "attack" /\ f.who = c /\ stack' = Append(stack, f)
                        /\ (chars' = b \/ chars' = e)
  <2>1. frame("died") \in Frame /\ frame("struck") \in Frame
    BY DEF Frame
  <2>. QED  BY <1>2, <1>3, <1>4, <2>1 DEF Attack, Push
<1>8. /\ stack' \in Seq(Frame)
      /\ \A x : Strikes(stack, x) => Strikes(stack', x)
      /\ Strikes(stack', c)
  BY <1>1, <1>7, PushKeeps
<1>9. Follows(chars, chars', {c})
  BY <1>5, <1>6, <1>7
<1>. QED  BY <1>8, <1>9, GoodStep

LEMMA CastGood ==
  ASSUME IInv, NEW c \in Everyone, NEW t \in Everyone, NEW d \in Nat, Cast(c, t, d)
  PROVE  IInv' /\ WaitShortens
<1>. DEFINE ready == [chars EXCEPT ![c] = StartCast(@)]
            frame == [call |-> "cast", who |-> c, at |-> "died"]
<1>1. Everybody(chars) /\ stack \in Seq(Frame)
  BY DEF IInv
<1>2. PICK a : a = ready /\ Follows(chars, a, {})
  <2>1. Keeps(chars[c], StartCast(chars[c]))
    BY <1>1, StartCastKeeps DEF Everybody
  <2>. QED  BY <1>1, <2>1, OneFollows DEF Keeps
<1>3. PICK b : b = [a EXCEPT ![t] = TakeDamage(@, d)] /\ Follows(a, b, {})
  <2>1. Everybody(a)
    BY <1>2 DEF Follows
  <2>2. Keeps(a[t], TakeDamage(a[t], d))
    BY <2>1, TakeDamageKeeps DEF Everybody
  <2>. QED  BY <2>1, <2>2, OneFollows DEF Keeps
<1>4. PICK e : e = [b EXCEPT ![c] = PayCast(@)] /\ Follows(b, e, {})
  <2>1. Everybody(b)
    BY <1>3 DEF Follows
  <2>2. Keeps(b[c], PayCast(b[c]))
    BY <2>1, PayKeeps DEF Everybody
  <2>. QED  BY <2>1, <2>2, OneFollows DEF Keeps
<1>5. Follows(chars, b, {})
  <2>1. Follows(chars, b, {} \cup {})
    BY <1>1, <1>2, <1>3, FollowsChains
  <2>. QED  BY <2>1 DEF Follows
<1>6. Follows(chars, e, {})
  <2>1. Follows(chars, e, {} \cup {})
    BY <1>1, <1>4, <1>5, FollowsChains
  <2>. QED  BY <2>1 DEF Follows
<1>7. frame \in Frame
  BY DEF Frame
<1>8. /\ chars' = b \/ chars' = e
      /\ stack' = stack \/ stack' = Append(stack, frame)
  BY <1>2, <1>3, <1>4 DEF Cast, Push
<1>9. /\ stack' \in Seq(Frame)
      /\ \A x : Strikes(stack, x) => Strikes(stack', x)
  BY <1>1, <1>7, <1>8, PushKeeps
<1>10. Follows(chars, chars', {})
  BY <1>5, <1>6, <1>8
<1>. QED  BY <1>9, <1>10, GoodStep

LEMMA AfterDeathGood ==
  ASSUME IInv, AfterDeath
  PROVE  IInv' /\ WaitShortens
<1>0. PICK c : c = Top.who
  OBVIOUS
<1>1. /\ Everybody(chars) /\ stack \in Seq(Frame) /\ stack # <<>>
      /\ Top \in Frame /\ Rest \in Seq(Frame)
      /\ \A x : Strikes(stack, x) => Strikes(Rest, x) \/ (Top.call = "attack" /\ Top.who = x)
  BY PopKeeps DEF IInv, AfterDeath, Top, Rest
<1>2. c \in Everyone /\ Living(chars[c])
  BY <1>0, <1>1 DEF Frame, Everybody
<1>3. Serves(chars[c], PayAttack(chars[c])) /\ Serves(chars[c], PayCast(chars[c]))
  BY <1>2, PayKeeps DEF Keeps
<1>4. /\ Follows(chars, [chars EXCEPT ![c] = PayAttack(@)], {})
      /\ Follows(chars, [chars EXCEPT ![c] = PayCast(@)], {})
  BY <1>1, <1>2, <1>3, OneFollows
<1>5. Follows(chars, chars', {})
  BY <1>0, <1>4 DEF AfterDeath
<1>6. CASE Top.call = "attack"
  <2>1. PICK f : f = [Top EXCEPT !.at = "struck"]
    OBVIOUS
  <2>2. f \in Frame /\ f.call = "attack" /\ f.who = Top.who
    BY <1>1, <1>6, <2>1 DEF Frame
  <2>3. stack' = Append(Rest, f)
    BY <1>6, <2>1 DEF AfterDeath
  <2>4. /\ stack' \in Seq(Frame)
        /\ \A x : Strikes(stack, x) => Strikes(stack', x)
    BY <1>1, <2>2, <2>3, PushKeeps
  <2>. QED  BY <1>5, <2>4, GoodStep
<1>7. CASE Top.call # "attack"
  <2>1. stack' = Rest
    BY <1>7 DEF AfterDeath
  <2>. QED  BY <1>1, <1>5, <1>7, <2>1, GoodStep
<1>. QED  BY <1>6, <1>7

(* Whoever the finished attack belonged to is idle again. *)
LEMMA AfterAttackGood ==
  ASSUME IInv, AfterAttack
  PROVE  IInv' /\ WaitShortens
<1>0. PICK c, q : c = Top.who /\ q = SetState(chars[c], "IDLE")
  OBVIOUS
<1>1. /\ Everybody(chars) /\ stack \in Seq(Frame) /\ stack # <<>>
      /\ Top \in Frame /\ Rest \in Seq(Frame)
      /\ \A x : Strikes(stack, x) => Strikes(Rest, x) \/ (Top.call = "attack" /\ Top.who = x)
  BY PopKeeps DEF IInv, AfterAttack, Top, Rest
<1>2. c \in Everyone /\ Living(chars[c])
  BY <1>0, <1>1 DEF Frame, Everybody
<1>3. "IDLE" \in States \ {"ATTACKING", "DEAD"}
  BY DEF States
<1>4. Keeps(chars[c], q)
  BY <1>0, <1>2, <1>3, SetStateKeeps
<1>5. q.state = "IDLE"
  BY <1>0, <1>2 DEF SetState, Living, CharacterRecord
<1>6. Follows(chars, chars', {}) /\ chars'[c] = q /\ stack' = Rest
  <2>1. chars' = [chars EXCEPT ![c] = q] /\ stack' = Rest
    BY <1>0 DEF AfterAttack
  <2>. QED  BY <1>1, <1>2, <1>4, <2>1, OneFollows DEF Keeps
<1>7. ASSUME NEW x \in Everyone, chars'[x].state = "ATTACKING", Strikes(stack, x)
      PROVE  Strikes(stack', x)
  BY <1>0, <1>1, <1>5, <1>6, <1>7
<1>. QED  BY <1>1, <1>6, <1>7, GoodStep

(* The other methods. *)
LEMMA CommandGood ==
  ASSUME IInv, NEW c \in Everyone, Command(c)
  PROVE  IInv' /\ WaitShortens
<1>0. Living(chars[c]) /\ chars[c] \in CharacterRecord
  BY DEF IInv, Everybody, Living
<1>1. CASE TakesDamage(c)
  BY <1>0, <1>1, TakeDamageKeeps, DoGood, CharactersAssumption DEF TakesDamage
<1>2. CASE Heals(c)
  BY <1>0, <1>2, HealKeeps, DoGood, CharactersAssumption DEF Heals
<1>3. CASE LevelsUp(c)
  BY <1>0, <1>3, LevelUpKeeps, DoGood DEF LevelsUp
<1>4. CASE Moves(c)
  BY <1>0, <1>4, MoveKeeps, DoGood, CharactersAssumption DEF Moves
<1>5. CASE Stops(c)
  BY <1>0, <1>5, StopKeeps, DoGood DEF Stops
<1>6. CASE TakesPath(c)
  BY <1>0, <1>6, SetPathKeeps, DoGood, CharactersAssumption DEF TakesPath
<1>7. CASE DropsPath(c)
  BY <1>0, <1>7, ClearPathKeeps, DoGood DEF DropsPath
<1>8. CASE Respawns(c)
  <2>1. PICK q : q = Respawn(chars[c]) /\ Living(q) /\ q.alive /\ q.state # "ATTACKING"
    BY <1>0, RespawnLives
  <2>2. Everybody(chars) /\ chars' = [chars EXCEPT ![c] = q] /\ stack' = stack
    BY <1>8, <2>1 DEF Respawns, Do, IInv
  <2>3. /\ \A x \in Everyone : chars'[x] = IF x = c THEN q ELSE chars[x]
        /\ chars' \in [Everyone -> CharacterRecord]
    BY <2>1, <2>2 DEF Everybody, Living
  <2>4. Everybody(chars')
    BY <2>1, <2>2, <2>3 DEF Everybody
  <2>5. ASSUME NEW x \in Everyone, ~chars[x].alive, ~chars'[x].alive
        PROVE  chars'[x].respawn <= chars[x].respawn
    <3>1. chars[x].respawn \in Int
      BY <2>2, Fields, Constants DEF Everybody, Living
    <3>. QED  BY <2>1, <2>3, <2>5, <3>1
  <2>6. \A x \in Everyone : chars'[x].state = "ATTACKING" => Strikes(stack', x)
    BY <2>1, <2>2, <2>3 DEF IInv
  <2>. QED  BY <2>2, <2>4, <2>5, <2>6 DEF IInv, WaitShortens, Everybody, Living, Strikes
<1>9. CASE ChangesMood(c)
  <2>1. PICK m \in Moods, h \in BOOLEAN : Do(c, [chars[c] EXCEPT !.ai = m, !.hunting = h])
    BY <1>9 DEF ChangesMood
  <2>2. m \in AIStates
    BY CharactersAssumption DEF AIStates
  <2>. QED  BY <1>0, <2>1, <2>2, MoodKeeps, DoGood
<1>. QED  BY <1>1, <1>2, <1>3, <1>4, <1>5, <1>6, <1>7, <1>8, <1>9 DEF Command

LEMMA UpdateGoes ==
  ASSUME IInv, Update, NEW c \in Everyone
  PROVE  Goes(chars[c], chars'[c])
<1>1. PICK choice \in [Npcs -> Choices] :
        chars' = [x \in Everyone |->
                   CharacterUpdate(chars[x], IF x \in Npcs THEN choice[x] ELSE {})]
  BY DEF Update
<1>2. PICK s \in SUBSET Int : s = IF c \in Npcs THEN choice[c] ELSE {}
  <2>1. \A x \in Choices : x \in SUBSET Int
    BY CharactersAssumption DEF Choices
  <2>2. c \in Npcs => choice[c] \in SUBSET Int
    BY <2>1
  <2>. QED  BY <2>2
<1>3. Living(chars[c])
  BY DEF IInv, Everybody
<1>4. chars'[c] = CharacterUpdate(chars[c], s)
  BY <1>1, <1>2
<1>. QED  BY <1>3, <1>4, CharacterUpdateGoes

LEMMA UpdateGood ==
  ASSUME IInv, Update
  PROVE  IInv' /\ WaitShortens
<1>1. DOMAIN chars' = Everyone /\ chars' = [c \in Everyone |-> chars'[c]]
  BY DEF Update
<1>2. ASSUME NEW c \in Everyone PROVE Goes(chars[c], chars'[c])
  BY UpdateGoes
<1>3. chars' \in [Everyone -> CharacterRecord]
  BY <1>1, <1>2 DEF Goes, Living
<1>4. Everybody(chars') /\ WaitShortens
  BY <1>2, <1>3 DEF Goes, Everybody, WaitShortens
<1>5. stack' = stack /\ stack \in Seq(Frame)
  BY DEF Update, IInv
<1>6. \A c \in Everyone : chars'[c].state = "ATTACKING" => Strikes(stack', c)
  BY <1>2, <1>5 DEF Goes, NoNewAttack, IInv
<1>. QED  BY <1>4, <1>5, <1>6 DEF IInv, Everybody, Living, Strikes

LEMMA InitGood == ASSUME Init PROVE IInv
<1>1. ASSUME NEW n \in BOOLEAN PROVE Living(NewCharacter(n))
  <2>1. NewCharacter(n) \in CharacterRecord
    BY Constants DEF NewCharacter, CharacterRecord, States, AIStates
  <2>. QED  BY <2>1, Constants DEF Living, NewCharacter
<1>2. Everybody(chars)
  <2>1. \A c \in Everyone : chars[c] = NewCharacter(c \in Npcs) /\ Living(chars[c])
    <3>1. ASSUME NEW c \in Everyone
          PROVE  chars[c] = NewCharacter(c \in Npcs)
      BY DEF Init
    <3>2. ASSUME NEW c PROVE Living(NewCharacter(c \in Npcs))
      <4>1. (c \in Npcs) \in BOOLEAN
        OBVIOUS
      <4>. QED  BY <1>1, <4>1, Zenon
    <3>. QED  BY <3>1, <3>2
  <2>2. chars \in [Everyone -> CharacterRecord]
    BY <2>1 DEF Init, Living
  <2>. QED  BY <2>1, <2>2 DEF Everybody
<1>3. stack \in Seq(Frame)
  BY DEF Init
<1>4. \A c \in Everyone : chars[c].state # "ATTACKING"
  BY DEF Init, NewCharacter
<1>. QED  BY <1>2, <1>3, <1>4 DEF IInv

LEMMA NextGood ==
  ASSUME IInv, [Next]_vars
  PROVE  IInv' /\ (WaitShortens \/ UNCHANGED vars)
<1>1. CASE UNCHANGED vars
  BY <1>1 DEF vars, IInv, Everybody, Living, Strikes
<1>2. ASSUME NEW c \in Everyone, NEW t \in Everyone, NEW d \in Hits, Attack(c, t, d) \/ Cast(c, t, d)
      PROVE  IInv' /\ WaitShortens
  BY <1>2, AttackGood, CastGood, CharactersAssumption
<1>3. CASE AfterDeath
  BY <1>3, AfterDeathGood
<1>4. CASE AfterAttack
  BY <1>4, AfterAttackGood
<1>5. ASSUME NEW c \in Everyone, Command(c) PROVE IInv' /\ WaitShortens
  BY <1>5, CommandGood
<1>6. CASE Update
  BY <1>6, UpdateGood
<1>. QED  BY <1>1, <1>2, <1>3, <1>4, <1>5, <1>6 DEF Next

LEMMA Invariance == Spec => []IInv
<1>1. Init => IInv
  BY InitGood
<1>2. IInv /\ [Next]_vars => IInv'
  BY NextGood
<1>. QED  BY <1>1, <1>2, PTL DEF Spec

-----------------------------------------------------------------------------
(* The blows a character has struck and not paid for: its attacks on the stack
   that wait for the death callback. *)
Owing(s, c) == {i \in DOMAIN s : s[i].call = "attack" /\ s[i].who = c /\ s[i].at = "died"}

(* What is owed is covered, also after it is paid. *)
DebtInv ==
  /\ Len(stack) <= MaxDepth
  /\ MaxDepth # 0 =>
       \A c \in Everyone : chars[c].stamina + MaxDepth > Cardinality(Owing(stack, c))

LEMMA OwingIsFinite ==
  ASSUME NEW s \in Seq(Frame), NEW c
  PROVE  /\ IsFiniteSet(Owing(s, c)) /\ Cardinality(Owing(s, c)) \in Nat
         /\ Cardinality(Owing(s, c)) <= Len(s)
<1>1. Len(s) \in Nat /\ Owing(s, c) \in SUBSET (1..Len(s))
  <2>1. Len(s) \in Nat /\ DOMAIN s = 1..Len(s)
    OBVIOUS
  <2>2. Owing(s, c) \subseteq DOMAIN s
    BY DEF Owing
  <2>. QED  BY <2>1, <2>2
<1>2. IsFiniteSet(1..Len(s)) /\ Cardinality(1..Len(s)) = Len(s)
  <2>1. Len(s) \in Int /\ 1 \in Int
    BY <1>1
  <2>2. /\ IsFiniteSet(1..Len(s))
        /\ Cardinality(1..Len(s)) = IF 1 > Len(s) THEN 0 ELSE Len(s) - 1 + 1
    BY <2>1, FS_Interval
  <2>. QED  BY <1>1, <2>2
<1>. QED  BY <1>1, <1>2, FS_Subset, FS_CardinalityType

LEMMA OwingPushed ==
  ASSUME NEW s \in Seq(Frame), NEW f \in Frame, NEW c,
         ~(f.call = "attack" /\ f.who = c /\ f.at = "died")
  PROVE  Owing(Append(s, f), c) = Owing(s, c)
<1>1. /\ DOMAIN Append(s, f) = 1..(Len(s) + 1) /\ DOMAIN s = 1..Len(s) /\ Len(s) \in Nat
      /\ Append(s, f)[Len(s) + 1] = f
      /\ \A i \in 1..Len(s) : Append(s, f)[i] = s[i]
  OBVIOUS
<1>. QED  BY <1>1 DEF Owing

LEMMA Shorter ==
  ASSUME NEW s \in Seq(Frame), s # <<>>
  PROVE  SubSeq(s, 1, Len(s) - 1) \in Seq(Frame) /\ Len(SubSeq(s, 1, Len(s) - 1)) = Len(s) - 1
<1>. DEFINE rest == SubSeq(s, 1, Len(s) - 1)
<1>1. Len(s) \in Nat \ {0} /\ DOMAIN s = 1..Len(s)
  OBVIOUS
<1>2. rest \in Seq(Frame) /\ Len(rest) = Len(s) - 1
  BY <1>1
<1>. QED  BY <1>2

LEMMA OwingPopped ==
  ASSUME NEW s \in Seq(Frame), s # <<>>, NEW c
  PROVE  Owing(SubSeq(s, 1, Len(s) - 1), c) = Owing(s, c) \ {Len(s)}
<1>. DEFINE rest == SubSeq(s, 1, Len(s) - 1)
<1>1. /\ DOMAIN rest = 1..(Len(s) - 1) /\ DOMAIN s = 1..Len(s) /\ Len(s) \in Nat \ {0}
      /\ \A i \in 1..(Len(s) - 1) : rest[i] = s[i]
  OBVIOUS
<1>. HIDE DEF rest
<1>2. Owing(rest, c) = Owing(s, c) \ {Len(s)}
  BY <1>1 DEF Owing
<1>. QED  BY <1>2 DEF rest

(* The stamina of everybody, and who pays. *)
Pays(ch, ch2, payers) ==
  \A c \in Everyone :
    ch2[c].stamina = IF c \in payers THEN ch[c].stamina - 1 ELSE ch[c].stamina

LEMMA OnePays ==
  ASSUME NEW ch, Everybody(ch), NEW c \in Everyone, NEW q, q.stamina = ch[c].stamina
  PROVE  Pays(ch, [ch EXCEPT ![c] = q], {})
BY DEF Everybody, Pays

LEMMA PaysOn ==
  ASSUME NEW ch, NEW mid, NEW ch2, NEW payers, Pays(ch, mid, {}), Pays(mid, ch2, payers)
  PROVE  Pays(ch, ch2, payers)
BY DEF Pays

LEMMA AttackPays ==
  ASSUME IInv, NEW c \in Everyone, NEW t \in Everyone, NEW d \in Nat, Attack(c, t, d)
  PROVE  \/ Pays(chars, chars', {}) /\ Push("attack", c, "died")
         \/ Pays(chars, chars', {c}) /\ Push("attack", c, "struck")
<1>0. Everybody(chars)
  BY DEF IInv
<1>1. PICK a : /\ a = [chars EXCEPT ![c] = SetState(@, "ATTACKING")]
               /\ Follows(chars, a, {c}) /\ Pays(chars, a, {})
  <2>1. SetState(chars[c], "ATTACKING").stamina = chars[c].stamina
    BY <1>0 DEF SetState, Everybody, CharacterRecord
  <2>2. Pays(chars, [chars EXCEPT ![c] = SetState(@, "ATTACKING")], {})
    BY <1>0, <2>1, OnePays
  <2>3. Follows(chars, [chars EXCEPT ![c] = SetState(@, "ATTACKING")], {c})
    BY <1>0, ReadyFollows
  <2>. QED  BY <2>2, <2>3
<1>2. Everybody(a)
  BY <1>1 DEF Follows
<1>3. PICK b : /\ b = [a EXCEPT ![t] = TakeDamage(@, d)]
               /\ Follows(a, b, {}) /\ Pays(a, b, {})
  <2>1. Keeps(a[t], TakeDamage(a[t], d))
    BY <1>2, TakeDamageKeeps DEF Everybody
  <2>2. Pays(a, [a EXCEPT ![t] = TakeDamage(a[t], d)], {})
    BY <1>2, <2>1, OnePays DEF Keeps
  <2>3. Follows(a, [a EXCEPT ![t] = TakeDamage(a[t], d)], {})
    BY <1>2, <2>1, OneFollows DEF Keeps
  <2>. QED  BY <2>2, <2>3
<1>4. Everybody(b)
  BY <1>3 DEF Follows
<1>5. PICK e : e = [b EXCEPT ![c] = PayAttack(@)] /\ Pays(b, e, {c})
  <2>1. PayAttack(b[c]).stamina = b[c].stamina - 1
    BY <1>4, PayKeeps DEF Everybody
  <2>2. Pays(b, [b EXCEPT ![c] = PayAttack(b[c])], {c})
    BY <1>4, <2>1 DEF Everybody, Pays
  <2>. QED  BY <2>2
<1>6. Pays(chars, b, {})
  BY <1>1, <1>3, PaysOn
<1>7. Pays(chars, e, {c})
  BY <1>5, <1>6, PaysOn
<1>. QED  BY <1>1, <1>3, <1>5, <1>6, <1>7 DEF Attack

LEMMA CastPays ==
  ASSUME IInv, NEW c \in Everyone, NEW t \in Everyone, NEW d \in Nat, Cast(c, t, d)
  PROVE  /\ Pays(chars, chars', {})
         /\ Push("cast", c, "died") \/ UNCHANGED stack
<1>0. Everybody(chars)
  BY DEF IInv
<1>1. PICK a : /\ a = [chars EXCEPT ![c] = StartCast(@)]
               /\ Follows(chars, a, {}) /\ Pays(chars, a, {})
  <2>1. Keeps(chars[c], StartCast(chars[c]))
    BY <1>0, StartCastKeeps DEF Everybody
  <2>2. Pays(chars, [chars EXCEPT ![c] = StartCast(chars[c])], {})
    BY <1>0, <2>1, OnePays DEF Keeps
  <2>3. Follows(chars, [chars EXCEPT ![c] = StartCast(chars[c])], {})
    BY <1>0, <2>1, OneFollows DEF Keeps
  <2>. QED  BY <2>2, <2>3
<1>2. Everybody(a)
  BY <1>1 DEF Follows
<1>3. PICK b : /\ b = [a EXCEPT ![t] = TakeDamage(@, d)]
               /\ Follows(a, b, {}) /\ Pays(a, b, {})
  <2>1. Keeps(a[t], TakeDamage(a[t], d))
    BY <1>2, TakeDamageKeeps DEF Everybody
  <2>2. Pays(a, [a EXCEPT ![t] = TakeDamage(a[t], d)], {})
    BY <1>2, <2>1, OnePays DEF Keeps
  <2>3. Follows(a, [a EXCEPT ![t] = TakeDamage(a[t], d)], {})
    BY <1>2, <2>1, OneFollows DEF Keeps
  <2>. QED  BY <2>2, <2>3
<1>4. Everybody(b)
  BY <1>3 DEF Follows
<1>5. PICK e : e = [b EXCEPT ![c] = PayCast(@)] /\ Pays(b, e, {})
  <2>1. Keeps(b[c], PayCast(b[c]))
    BY <1>4, PayKeeps DEF Everybody
  <2>. QED  BY <1>4, <2>1, OnePays DEF Keeps
<1>6. Pays(chars, b, {})
  BY <1>1, <1>3, PaysOn
<1>7. Pays(chars, e, {})
  BY <1>5, <1>6, PaysOn
<1>. QED  BY <1>1, <1>3, <1>5, <1>6, <1>7 DEF Cast

(* Nobody pays, and what is owed stays. *)
LEMMA DebtStays ==
  ASSUME IInv, DebtInv, Pays(chars, chars', {}), stack' \in Seq(Frame),
         Len(stack') <= MaxDepth,
         \A c \in Everyone : Owing(stack', c) = Owing(stack, c)
  PROVE  DebtInv'
BY DEF DebtInv, Pays

LEMMA AttackOwes ==
  ASSUME IInv, DebtInv, NEW c \in Everyone, NEW t \in Everyone, NEW d \in Nat, Attack(c, t, d)
  PROVE  DebtInv'
<1>1. /\ stack \in Seq(Frame) /\ Len(stack) < MaxDepth /\ MaxDepth \in Nat
      /\ chars[c].stamina \in Int /\ chars[c].stamina >= 1 /\ Len(stack) \in Nat
  <2>1. chars[c].stamina \in Int
    BY Fields DEF IInv, Everybody, Living
  <2>. QED  BY <2>1, CharactersAssumption DEF IInv, Attack, CanAttack
<1>2. CASE Pays(chars, chars', {}) /\ Push("attack", c, "died")
  <2>1. PICK f \in Frame : /\ stack' = Append(stack, f)
                           /\ f.call = "attack" /\ f.who = c /\ f.at = "died"
    BY <1>2 DEF Push, Frame
  <2>2. stack' \in Seq(Frame) /\ Len(stack') = Len(stack) + 1
    BY <1>1, <2>1
  <2>3. Cardinality(Owing(stack', c)) \in Nat /\ Cardinality(Owing(stack', c)) <= Len(stack')
    BY <2>2, OwingIsFinite
  <2>4. chars'[c].stamina + MaxDepth > Cardinality(Owing(stack', c))
    BY <1>1, <1>2, <2>2, <2>3 DEF Pays
  <2>5. ASSUME NEW x \in Everyone, x # c
        PROVE  Owing(stack', x) = Owing(stack, x)
    BY <1>1, <2>1, <2>5, OwingPushed
  <2>. QED  BY <1>1, <1>2, <2>2, <2>4, <2>5 DEF DebtInv, Pays
<1>3. CASE Pays(chars, chars', {c}) /\ Push("attack", c, "struck")
  <2>1. PICK f \in Frame : stack' = Append(stack, f) /\ f.at = "struck"
    BY <1>3 DEF Push, Frame
  <2>2. stack' \in Seq(Frame) /\ Len(stack') = Len(stack) + 1
    BY <1>1, <2>1
  <2>3. ASSUME NEW x \in Everyone
        PROVE  Owing(stack', x) = Owing(stack, x)
    BY <1>1, <2>1, OwingPushed
  <2>4. Cardinality(Owing(stack, c)) \in Nat /\ Cardinality(Owing(stack, c)) <= Len(stack)
    BY <1>1, OwingIsFinite
  <2>5. chars'[c].stamina + MaxDepth > Cardinality(Owing(stack', c))
    BY <1>1, <1>3, <2>3, <2>4 DEF Pays
  <2>. QED  BY <1>1, <1>3, <2>2, <2>3, <2>5 DEF DebtInv, Pays
<1>. QED  BY <1>2, <1>3, AttackPays

LEMMA CastOwes ==
  ASSUME IInv, DebtInv, NEW c \in Everyone, NEW t \in Everyone, NEW d \in Nat, Cast(c, t, d)
  PROVE  DebtInv'
<1>1. stack \in Seq(Frame) /\ Len(stack) < MaxDepth /\ MaxDepth \in Nat
  BY CharactersAssumption DEF IInv, Cast
<1>2. Pays(chars, chars', {})
  BY CastPays
<1>3. CASE UNCHANGED stack
  BY <1>1, <1>2, <1>3, DebtStays DEF DebtInv
<1>4. CASE Push("cast", c, "died")
  <2>1. PICK f \in Frame : stack' = Append(stack, f) /\ f.call = "cast"
    BY <1>4 DEF Push, Frame
  <2>2. stack' \in Seq(Frame) /\ Len(stack') = Len(stack) + 1
    BY <1>1, <2>1
  <2>3. \A x \in Everyone : Owing(stack', x) = Owing(stack, x)
    BY <1>1, <2>1, OwingPushed
  <2>. QED  BY <1>1, <1>2, <2>2, <2>3, DebtStays
<1>. QED  BY <1>3, <1>4, CastPays

LEMMA ReturnOwes ==
  ASSUME IInv, DebtInv, AfterDeath \/ AfterAttack
  PROVE  DebtInv'
<1>0. PICK c : c = Top.who
  OBVIOUS
<1>1. /\ Everybody(chars) /\ stack \in Seq(Frame) /\ stack # <<>> /\ MaxDepth \in Nat
      /\ Top \in Frame /\ Rest \in Seq(Frame)
      /\ Len(stack) \in Nat \ {0} /\ Len(Rest) = Len(stack) - 1
  <2>1. Everybody(chars) /\ stack \in Seq(Frame) /\ stack # <<>> /\ MaxDepth \in Nat
    <3>1. stack # <<>>
      BY DEF AfterDeath, AfterAttack
    <3>. QED  BY <3>1, CharactersAssumption DEF IInv
  <2>2. Len(stack) \in Nat \ {0} /\ stack[Len(stack)] \in Frame
    BY <2>1
  <2>3. /\ SubSeq(stack, 1, Len(stack) - 1) \in Seq(Frame)
        /\ Len(SubSeq(stack, 1, Len(stack) - 1)) = Len(stack) - 1
    BY <2>1, <2>2, Shorter
  <2>. QED  BY <2>1, <2>2, <2>3 DEF Top, Rest
<1>2. c \in Everyone /\ Living(chars[c])
  BY <1>0, <1>1 DEF Frame, Everybody
<1>3. \A x : Owing(Rest, x) = Owing(stack, x) \ {Len(stack)}
  BY <1>1, OwingPopped DEF Rest
<1>4. \A x : ~(Top.call = "attack" /\ Top.who = x /\ Top.at = "died")
             => Owing(Rest, x) = Owing(stack, x)
  BY <1>1, <1>3 DEF Owing, Top
<1>5. CASE AfterAttack
  <2>1. chars' = [chars EXCEPT ![c] = SetState(@, "IDLE")] /\ stack' = Rest /\ Top.at = "struck"
    BY <1>0, <1>5 DEF AfterAttack
  <2>2. "IDLE" \in States \ {"ATTACKING", "DEAD"}
    BY DEF States
  <2>3. SetState(chars[c], "IDLE").stamina = chars[c].stamina
    BY <1>2, <2>2, SetStateKeeps DEF Keeps
  <2>4. Pays(chars, chars', {})
    BY <1>1, <1>2, <2>1, <2>3, OnePays
  <2>. QED  BY <1>1, <1>4, <2>1, <2>4, DebtStays DEF DebtInv
<1>6. CASE AfterDeath /\ Top.call # "attack"
  <2>1. chars' = [chars EXCEPT ![c] = PayCast(@)] /\ stack' = Rest
    BY <1>0, <1>6 DEF AfterDeath
  <2>2. PayCast(chars[c]).stamina = chars[c].stamina
    BY <1>2, PayKeeps DEF Keeps
  <2>3. Pays(chars, chars', {})
    BY <1>1, <1>2, <2>1, <2>2, OnePays
  <2>. QED  BY <1>1, <1>4, <1>6, <2>1, <2>3, DebtStays DEF DebtInv
<1>7. CASE AfterDeath /\ Top.call = "attack"
  <2>1. PICK f \in Frame : stack' = Append(Rest, f) /\ f.at = "struck"
    <3>1. PICK f : f = [Top EXCEPT !.at = "struck"]
      OBVIOUS
    <3>2. f \in Frame /\ f.at = "struck"
      BY <1>1, <3>1 DEF Frame
    <3>. QED  BY <1>7, <3>1, <3>2 DEF AfterDeath
  <2>2. stack' \in Seq(Frame) /\ Len(stack') = Len(stack)
    BY <1>1, <2>1
  <2>3. \A x : Owing(stack', x) = Owing(stack, x) \ {Len(stack)}
    BY <1>1, <1>3, <2>1, OwingPushed
  <2>4. Pays(chars, chars', {c})
    <3>1. chars' = [chars EXCEPT ![c] = PayAttack(@)]
      BY <1>0, <1>7 DEF AfterDeath
    <3>2. PayAttack(chars[c]).stamina = chars[c].stamina - 1
      BY <1>2, PayKeeps
    <3>. QED  BY <1>1, <1>2, <3>1, <3>2 DEF Everybody, Pays
  <2>5. Len(stack) \in Owing(stack, c)
    BY <1>0, <1>1, <1>7 DEF Owing, Top, AfterDeath
  <2>6. Cardinality(Owing(stack', c)) = Cardinality(Owing(stack, c)) - 1
    BY <1>1, <2>3, <2>5, OwingIsFinite, FS_RemoveElement
  <2>7. ASSUME NEW x \in Everyone, x # c
        PROVE  Owing(stack', x) = Owing(stack, x)
    <3>1. Owing(Rest, x) = Owing(stack, x)
      BY <1>0, <1>4, <2>7
    <3>. QED  BY <1>3, <2>3, <3>1
  <2>8. chars[c].stamina \in Int /\ Cardinality(Owing(stack, c)) \in Nat
    BY <1>1, <1>2, Fields, OwingIsFinite DEF Living
  <2>9. MaxDepth # 0 => chars'[c].stamina + MaxDepth > Cardinality(Owing(stack', c))
    BY <1>1, <1>2, <2>4, <2>6, <2>8 DEF DebtInv, Pays
  <2>. QED  BY <1>2, <2>2, <2>4, <2>7, <2>9 DEF DebtInv, Pays
<1>. QED  BY <1>5, <1>6, <1>7

LEMMA OtherOwes ==
  ASSUME IInv, DebtInv, Update \/ \E c \in Everyone : Command(c)
  PROVE  DebtInv'
<1>1. Everybody(chars) /\ stack \in Seq(Frame) /\ stack' = stack
  BY DEF IInv, Update, Command, Do, TakesDamage, Heals, LevelsUp, Moves, Stops, TakesPath,
         DropsPath, Respawns, ChangesMood
<1>2. ASSUME NEW c \in Everyone, NEW q, Do(c, q), q.stamina = chars[c].stamina
      PROVE  Pays(chars, chars', {})
  BY <1>1, <1>2, OnePays DEF Do
<1>3. ASSUME NEW c \in Everyone, Command(c)
      PROVE  Pays(chars, chars', {})
  <2>0. Living(chars[c]) /\ chars[c] \in CharacterRecord
    BY <1>1 DEF Everybody, Living
  <2>1. CASE TakesDamage(c)
    BY <1>2, <2>0, <2>1, TakeDamageKeeps, CharactersAssumption DEF TakesDamage, Keeps
  <2>2. CASE Heals(c)
    BY <1>2, <2>0, <2>2, HealKeeps, CharactersAssumption DEF Heals, Keeps
  <2>3. CASE LevelsUp(c)
    BY <1>2, <2>0, <2>3, LevelUpKeeps DEF LevelsUp, Keeps
  <2>4. CASE Moves(c)
    BY <1>2, <2>0, <2>4, MoveKeeps, CharactersAssumption DEF Moves, Keeps
  <2>5. CASE Stops(c)
    BY <1>2, <2>0, <2>5, StopKeeps DEF Stops, Keeps
  <2>6. CASE TakesPath(c)
    BY <1>2, <2>0, <2>6, SetPathKeeps, CharactersAssumption DEF TakesPath, Keeps
  <2>7. CASE DropsPath(c)
    BY <1>2, <2>0, <2>7, ClearPathKeeps DEF DropsPath, Keeps
  <2>8. CASE Respawns(c)
    BY <1>2, <2>0, <2>8, RespawnLives DEF Respawns
  <2>9. CASE ChangesMood(c)
    <3>1. PICK m \in Moods, h \in BOOLEAN : Do(c, [chars[c] EXCEPT !.ai = m, !.hunting = h])
      BY <2>9 DEF ChangesMood
    <3>2. m \in AIStates
      BY CharactersAssumption DEF AIStates
    <3>. QED  BY <1>2, <2>0, <3>1, <3>2, MoodKeeps DEF Keeps
  <2>. QED
    BY <1>3, <2>1, <2>2, <2>3, <2>4, <2>5, <2>6, <2>7, <2>8, <2>9 DEF Command
<1>4. CASE Update
  <2>1. ASSUME NEW c \in Everyone PROVE chars'[c].stamina = chars[c].stamina
    BY <1>4, UpdateGoes DEF Goes
  <2>. QED  BY <1>1, <2>1, DebtStays DEF Pays, DebtInv
<1>. QED  BY <1>1, <1>3, <1>4, DebtStays DEF DebtInv

LEMMA DebtHolds == Spec => []DebtInv
<1>1. ASSUME Init PROVE DebtInv
  <2>1. stack = <<>> /\ stack \in Seq(Frame) /\ Len(stack) = 0 /\ MaxDepth \in Nat
    <3>1. stack = <<>>
      BY <1>1 DEF Init
    <3>2. MaxDepth \in Nat
      BY CharactersAssumption
    <3>. QED  BY <3>1, <3>2
  <2>2. ASSUME NEW c \in Everyone
        PROVE  chars[c].stamina = MaxStamina /\ Cardinality(Owing(stack, c)) = 0
    <3>1. Owing(stack, c) = {}
      BY <2>1 DEF Owing
    <3>2. Cardinality(Owing(stack, c)) = 0
      BY <3>1, FS_EmptySet
    <3>3. chars[c] = NewCharacter(c \in Npcs)
      BY <1>1 DEF Init
    <3>4. chars[c].stamina = MaxStamina
      BY <3>3 DEF NewCharacter
    <3>. QED  BY <3>2, <3>4
  <2>. QED  BY <2>1, <2>2, Constants DEF DebtInv
<1>2. IInv /\ DebtInv /\ [Next]_vars => DebtInv'
  <2>. SUFFICES ASSUME IInv, DebtInv, [Next]_vars PROVE DebtInv'
    OBVIOUS
  <2>1. CASE UNCHANGED vars
    BY <2>1 DEF vars, DebtInv
  <2>2. ASSUME NEW c \in Everyone, NEW t \in Everyone, NEW d \in Hits,
               Attack(c, t, d) \/ Cast(c, t, d)
        PROVE  DebtInv'
    BY <2>2, AttackOwes, CastOwes, CharactersAssumption
  <2>3. CASE AfterDeath \/ AfterAttack
    BY <2>3, ReturnOwes
  <2>4. CASE Update \/ \E c \in Everyone : Command(c)
    BY <2>4, OtherOwes
  <2>. QED  BY <2>1, <2>2, <2>3, <2>4 DEF Next
<1>. QED  BY <1>1, <1>2, Invariance, PTL DEF Spec

-----------------------------------------------------------------------------
(* Every field keeps its range whatever is called, from callbacks too. *)
THEOREM CharactersTypeCorrect == Spec => []TypeOK
<1>1. IInv => TypeOK
  BY DEF IInv, Everybody, TypeOK
<1>. QED  BY <1>1, Invariance, PTL

(* Whoever has no health or is in the state DEAD has died: takeDamage has no
   way around checkDeath, whatever calls back in its middle. *)
THEOREM NoHealthNoLifeHolds == Spec => []NoHealthNoLife
<1>1. IInv => NoHealthNoLife
  BY DEF IInv, Everybody, Living, NoHealthNoLife
<1>. QED  BY <1>1, Invariance, PTL

(* Whoever is in the state ATTACKING has an attack on the stack, at any depth
   of nested callbacks. *)
THEOREM AttacksEndHolds == Spec => []AttacksEnd
<1>1. IInv => AttacksEnd
  BY DEF IInv, AttacksEnd, Strikes
<1>. QED  BY <1>1, Invariance, PTL

(* A character that attacks again from the callbacks of its attacks runs up a
   debt of stamina that is smaller than the depth of the calls. *)
THEOREM DebtIsNestedHolds == Spec => []DebtIsNested
<1>1. IInv /\ DebtInv => DebtIsNested
  <2>. SUFFICES ASSUME IInv, DebtInv, NEW c \in Everyone, MaxDepth # 0
                PROVE  chars[c].stamina + MaxDepth > 0
    BY DEF DebtIsNested
  <2>1. Cardinality(Owing(stack, c)) \in Nat /\ chars[c].stamina \in Int /\ MaxDepth \in Nat
    BY OwingIsFinite, Fields, CharactersAssumption DEF IInv, Everybody, Living
  <2>. QED  BY <2>1 DEF DebtInv
<1>. QED  BY <1>1, Invariance, DebtHolds, PTL

(* Whatever callbacks do, no attack stays open and the costs are bounded. *)
THEOREM AttacksSettleHolds == Spec => []AttacksSettle
BY AttacksEndHolds, DebtIsNestedHolds, PTL DEF AttacksSettle

(* No call makes a dead NPC wait longer. *)
THEOREM WaitOnlyShortensHolds == Spec => WaitOnlyShortens
<1>. DEFINE Shortens == \A c \in Npcs : ~chars[c].alive /\ ~chars'[c].alive =>
                          chars'[c].respawn <= chars[c].respawn
<1>1. IInv /\ [Next]_vars => [Shortens]_vars
  <2>1. WaitShortens => Shortens
    BY DEF WaitShortens, Everyone
  <2>. QED  BY <2>1, NextGood
<1>. HIDE DEF Shortens
<1>2. Spec => [][Shortens]_vars
  BY <1>1, Invariance, PTL DEF Spec
<1>. QED  BY <1>2 DEF Shortens, WaitOnlyShortens

(* Characters are well formed, and lifeless ones are dead. *)
THEOREM LifeIsSoundHolds == Spec => []LifeIsSound
BY CharactersTypeCorrect, NoHealthNoLifeHolds, PTL DEF LifeIsSound

=============================================================================
