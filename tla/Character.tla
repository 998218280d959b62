----------------------------- MODULE Character -----------------------------
(***************************************************************************)
(* One character of the character system as a record, and what the methods *)
(* of Character, CombatComponent, MovementComponent and NPC do to it.      *)
(* Places are integers on a line; time is counted in updates; stamina and  *)
(* mana in attacks and casts (10 points each).                             *)
(***************************************************************************)
EXTENDS Integers, Sequences

CONSTANTS
  MaxHealth, MaxStamina, MaxMana,
  CastTime,      \* cast_time / cast_speed of the skill
  Cooldown,      \* cooldown of the skill
  RespawnDelay,
  Step,          \* speed_ * delta_time
  Near,          \* a path node is reached within less than Near
  Spawn,         \* spawn_position_
  AggroRange, AttackRange, PatrolRadius, FleeStep,
  CombatFirst    \* components are updated in the order of their type's hash

ASSUME CharacterAssumption ==
  /\ {MaxHealth, RespawnDelay, Step, Near} \subseteq Nat \ {0}
  /\ {MaxStamina, MaxMana, CastTime, Cooldown} \subseteq Nat
  /\ {AggroRange, AttackRange, PatrolRadius, FleeStep} \subseteq Nat
  /\ Spawn \in Int
  /\ CombatFirst \in BOOLEAN

States == {"IDLE", "MOVING", "ATTACKING", "CASTING", "DEAD"}
AIStates == {"IDLE", "PATROL", "CHASE", "ATTACK", "FLEE", "DEAD"}

CharacterRecord ==
  [npc : BOOLEAN, alive : BOOLEAN, state : States,
   health : 0..MaxHealth, stamina : Int, mana : Int,
   cast : 0..CastTime, cooldown : 0..Cooldown,  \* of the cast, of the skill
   moving : BOOLEAN, pos : Int, goal : Int,
   path : Seq(Int), next : Nat \ {0},            \* path_nodes_, current_path_index_
   ai : AIStates, hunting : BOOLEAN,             \* target_id_ # 0
   respawn : 0..RespawnDelay]                    \* respawn_timer_

NewCharacter(isNpc) ==
  [npc |-> isNpc, alive |-> TRUE, state |-> "IDLE",
   health |-> MaxHealth, stamina |-> MaxStamina, mana |-> MaxMana,
   cast |-> 0, cooldown |-> 0,
   moving |-> FALSE, pos |-> 0, goal |-> 0, path |-> <<>>, next |-> 1,
   ai |-> "IDLE", hunting |-> FALSE, respawn |-> 0]

-----------------------------------------------------------------------------
(* CombatComponent. *)

(* Seeded fault: onDeath of an NPC does not start the respawn timer. *)
OnDeathForGood(r) ==
  [r EXCEPT !.alive = FALSE, !.ai = IF r.npc THEN "DEAD" ELSE @]
(* Character::onDeath, NPC::onDeath. *)
OnDeath(r) ==
  IF r.npc THEN [r EXCEPT !.alive = FALSE, !.ai = "DEAD", !.respawn = RespawnDelay]
  ELSE [r EXCEPT !.alive = FALSE]

(* Seeded fault: checkDeath does not ask whether the owner is alive. *)
CheckDeathAgain(r) == IF r.health = 0 THEN OnDeath(r) ELSE r
CheckDeath(r) == IF r.health = 0 /\ r.alive THEN OnDeath(r) ELSE r

SetState(r, s) ==
  LET q == [r EXCEPT !.state = s] IN
  IF r.state # s /\ s = "DEAD" THEN CheckDeath(q) ELSE q

(* Seeded fault: < in the place of <=. *)
TakeDamageBelowZero(r, d) ==
  IF d > r.health THEN SetState([r EXCEPT !.health = 0], "DEAD")
  ELSE [r EXCEPT !.health = @ - d]
TakeDamage(r, d) ==
  IF d >= r.health THEN SetState([r EXCEPT !.health = 0], "DEAD")
  ELSE [r EXCEPT !.health = @ - d]

AtMost(n, bound) == IF n > bound THEN bound ELSE n

Heal(r, n) ==
  IF r.alive THEN [r EXCEPT !.health = AtMost(@ + n, MaxHealth)] ELSE r

CanAttack(r) == r.state = "IDLE" /\ r.stamina >= 1
CanCast(r) == r.state = "IDLE" /\ r.mana >= 1 /\ r.cooldown = 0

PayAttack(r) == [r EXCEPT !.stamina = @ - 1]
PayCast(r) == [r EXCEPT !.cooldown = Cooldown, !.mana = @ - 1]
StartCast(r) == SetState([r EXCEPT !.cast = CastTime], "CASTING")

(* updateCooldowns, and the same for the cast timer. *)
CountDown(n) == IF n > 0 THEN n - 1 ELSE 0

(* Seeded fault: the end of a cast does not change the state. *)
CombatUpdateSilently(r) ==
  [r EXCEPT !.cooldown = CountDown(@), !.cast = CountDown(@)]
(* CombatComponent::update. *)
CombatUpdate(r) ==
  LET q == [r EXCEPT !.cooldown = CountDown(@), !.cast = CountDown(@)] IN
  IF r.cast = 1 THEN SetState(q, "IDLE") ELSE q

-----------------------------------------------------------------------------
(* MovementComponent. *)
Away(a, b) == IF a > b THEN a - b ELSE b - a

StopMovement(r) ==
  LET q == [r EXCEPT !.moving = FALSE] IN
  IF r.state = "MOVING" THEN SetState(q, "IDLE") ELSE q

MoveTo(r, g) == SetState([r EXCEPT !.goal = g, !.moving = TRUE], "MOVING")

SetPath(r, nodes) ==
  IF nodes = <<>> THEN [r EXCEPT !.path = nodes, !.next = 1]
  ELSE [r EXCEPT !.path = nodes, !.next = 1, !.goal = nodes[1], !.moving = TRUE]

ClearPath(r) == StopMovement([r EXCEPT !.path = <<>>, !.next = 1])

(* updateMovement: the length of a step does not depend on the distance. *)
UpdateMovement(r) ==
  IF ~r.moving THEN r
  ELSE IF r.pos = r.goal THEN StopMovement(r)
       ELSE [r EXCEPT !.pos = IF r.goal > @ THEN @ + Step ELSE @ - Step]

(* Seeded fault: the index of the path is not advanced. *)
UpdatePathInPlace(r) ==
  IF r.path = <<>> THEN r
  ELSE IF r.next > Len(r.path) THEN ClearPath(r)
       ELSE [r EXCEPT !.goal = r.path[r.next], !.moving = TRUE]
(* updatePath. *)
UpdatePath(r) ==
  IF r.path = <<>> THEN r
  ELSE IF r.next > Len(r.path) THEN ClearPath(r)
       ELSE LET next == IF Away(r.path[r.next], r.pos) < Near
                        THEN r.next + 1 ELSE r.next IN
            IF next > Len(r.path) THEN ClearPath([r EXCEPT !.next = next])
            ELSE [r EXCEPT !.next = next, !.goal = r.path[next], !.moving = TRUE]

MovementUpdate(r) ==
  IF r.alive THEN UpdatePath(UpdateMovement(r)) ELSE StopMovement(r)

(* Character::update. *)
ComponentUpdate(r) ==
  IF ~r.alive THEN r
  ELSE IF CombatFirst THEN MovementUpdate(CombatUpdate(r))
       ELSE CombatUpdate(MovementUpdate(r))

-----------------------------------------------------------------------------
(* NPC. *)
Respawn(r) ==
  LET moved == StopMovement([r EXCEPT !.alive = TRUE, !.ai = "IDLE", !.pos = Spawn])
      whole == [moved EXCEPT !.health = MaxHealth, !.mana = MaxMana] IN
  [SetState(whole, "IDLE") EXCEPT !.hunting = FALSE]

Deaggro(r) == ~r.hunting \/ Away(r.pos, 0) > 2 * AggroRange
GiveUp(r) == [r EXCEPT !.ai = "IDLE", !.hunting = FALSE]

(* updatePatrol; whether the patrol timer has ended is a part of the choice. *)
Patrol(r, choice) ==
  IF ~r.moving /\ choice # {} THEN MoveTo(r, CHOOSE p \in choice : TRUE) ELSE r

(* updateChase: the place of the target is always the origin. *)
Chase(r) ==
  IF Away(r.pos, 0) <= AttackRange THEN [r EXCEPT !.ai = "ATTACK"] ELSE MoveTo(r, 0)

(* updateFlee. *)
FleeFrom(r) ==
  IF r.pos > Spawn THEN r.pos + FleeStep
  ELSE IF r.pos < Spawn THEN r.pos - FleeStep ELSE r.pos
Flee(r) ==
  LET q == MoveTo(r, FleeFrom(r)) IN
  IF Away(q.pos, Spawn) > 2 * PatrolRadius
  THEN StopMovement([q EXCEPT !.ai = "IDLE"]) ELSE q

(* updateAI: checkAggro finds nobody, whoever is near. *)
UpdateAI(r, choice) ==
  CASE r.ai \in {"IDLE", "PATROL"} -> Patrol(r, choice)
    [] r.ai = "CHASE" -> IF Deaggro(r) THEN GiveUp(r) ELSE Chase(r)
    [] r.ai = "ATTACK" -> IF Deaggro(r) THEN GiveUp(r) ELSE r
    [] r.ai = "FLEE" -> Flee(r)
    [] r.ai = "DEAD" -> r

(* NPC::update, Player::update. *)
CharacterUpdate(r, choice) ==
  IF ~r.npc THEN ComponentUpdate(r)
  ELSE IF r.alive THEN UpdateAI(ComponentUpdate(r), choice)
  ELSE IF r.respawn = 0 THEN r
  ELSE LET q == [r EXCEPT !.respawn = @ - 1] IN
       IF q.respawn = 0 THEN Respawn(q) ELSE q
=============================================================================
