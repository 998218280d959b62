----------------------------- MODULE Characters -----------------------------
(***************************************************************************)
(* The characters of a game: a program that calls their methods, and the   *)
(* loop of CharacterManager::update.  It is one thread, but attack() and   *)
(* castSkill() call back: the death callback of the target when it dies,   *)
(* and the attack callback.  A callback may call any method; "stack" holds *)
(* the calls that wait for one.                                            *)
(***************************************************************************)
EXTENDS Character

CONSTANTS
  Players, Npcs,
  Hits,        \* what a blow may take
  Healing,     \* what heal() may give
  Places,      \* targets of moveTo, patrol points
  Paths,       \* arguments of setPath
  Moods,       \* AI states that the program may set
  MaxDepth     \* bound: calls that wait for a callback

ASSUME CharactersAssumption ==
  /\ Players \cap Npcs = {}
  /\ Hits \cup Healing \subseteq Nat
  /\ Places \subseteq Int
  /\ Paths \subseteq Seq(Int)
  /\ Moods \subseteq AIStates
  /\ MaxDepth \in Nat

VARIABLES
  chars,   \* character -> record
  stack    \* calls of attack and castSkill in the middle

vars == <<chars, stack>>

Everyone == Players \cup Npcs

(* "died": the target's death callback runs; "struck": the attack callback. *)
Frame == [call : {"attack", "cast"}, who : Everyone, at : {"died", "struck"}]

Init ==
  /\ chars = [c \in Everyone |-> NewCharacter(c \in Npcs)]
  /\ stack = <<>>

-----------------------------------------------------------------------------
Top == stack[Len(stack)]
Rest == SubSeq(stack, 1, Len(stack) - 1)
Push(call, c, at) == stack' = Append(stack, [call |-> call, who |-> c, at |-> at])

(* A method that changes one character and calls nobody back in the middle. *)
Do(c, r) == chars' = [chars EXCEPT ![c] = r] /\ UNCHANGED stack

Dies(before, t, after) == before[t].alive /\ ~after[t].alive

(* attack, up to the first callback. *)
Attack(c, t, d) ==
  LET ready == [chars EXCEPT ![c] = SetState(@, "ATTACKING")]
      after == [ready EXCEPT ![t] = TakeDamage(@, d)] IN
  /\ Len(stack) < MaxDepth
  /\ CanAttack(chars[c])
  /\ IF Dies(ready, t, after)
     THEN chars' = after /\ Push("attack", c, "died")
     ELSE chars' = [after EXCEPT ![c] = PayAttack(@)] /\ Push("attack", c, "struck")

(* castSkill, up to the first callback. *)
Cast(c, t, d) ==
  LET ready == [chars EXCEPT ![c] = StartCast(@)]
      after == [ready EXCEPT ![t] = TakeDamage(@, d)] IN
  /\ Len(stack) < MaxDepth
  /\ CanCast(chars[c])
  /\ IF Dies(ready, t, after)
     THEN chars' = after /\ Push("cast", c, "died")
     ELSE chars' = [after EXCEPT ![c] = PayCast(@)] /\ UNCHANGED stack

(* The death callback returns: the attacker pays.  Nothing in castSkill
   follows the attack callback. *)
AfterDeath ==
  /\ stack # <<>> /\ Top.at = "died"
  /\ IF Top.call = "attack"
     THEN /\ chars' = [chars EXCEPT ![Top.who] = PayAttack(@)]
          /\ stack' = Append(Rest, [Top EXCEPT !.at = "struck"])
     ELSE /\ chars' = [chars EXCEPT ![Top.who] = PayCast(@)]
          /\ stack' = Rest

(* Seeded fault: attack does not go back to IDLE. *)
AfterAttackStuck ==
  /\ stack # <<>> /\ Top.at = "struck"
  /\ UNCHANGED chars
  /\ stack' = Rest
(* The attack callback returns: the end of attack. *)
AfterAttack ==
  /\ stack # <<>> /\ Top.at = "struck"
  /\ chars' = [chars EXCEPT ![Top.who] = SetState(@, "IDLE")]
  /\ stack' = Rest

Return == AfterDeath \/ AfterAttack

-----------------------------------------------------------------------------
(* Calls of the other methods.  addExperience is its level-up. *)
TakesDamage(c) == \E d \in Hits : Do(c, TakeDamage(chars[c], d))
Heals(c) == \E n \in Healing : Do(c, Heal(chars[c], n))
LevelsUp(c) ==
  ~chars[c].npc /\ Do(c, [chars[c] EXCEPT !.health = MaxHealth, !.mana = MaxMana])
Moves(c) == \E g \in Places : Do(c, MoveTo(chars[c], g))
Stops(c) == Do(c, StopMovement(chars[c]))
TakesPath(c) == \E p \in Paths : Do(c, SetPath(chars[c], p))
DropsPath(c) == Do(c, ClearPath(chars[c]))
Respawns(c) == chars[c].npc /\ Do(c, Respawn(chars[c]))
ChangesMood(c) ==
  /\ chars[c].npc
  /\ \E m \in Moods, h \in BOOLEAN :
       /\ m = "FLEE" => Away(chars[c].pos, Spawn) <= 2 * PatrolRadius  \* bound
       /\ Do(c, [chars[c] EXCEPT !.ai = m, !.hunting = h])

Command(c) ==
  \/ TakesDamage(c) \/ Heals(c) \/ LevelsUp(c)
  \/ Moves(c) \/ Stops(c) \/ TakesPath(c) \/ DropsPath(c)
  \/ Respawns(c) \/ ChangesMood(c)

(* CharacterManager::update.  It holds the manager's mutex, and callbacks
   that the combat component makes never run inside it. *)
Choices == {{}} \cup {{p} : p \in Places}
Update ==
  /\ stack = <<>>
  /\ \E choice \in [Npcs -> Choices] :
       chars' = [c \in Everyone |->
                   CharacterUpdate(chars[c], IF c \in Npcs THEN choice[c] ELSE {})]
  /\ UNCHANGED stack

Next ==
  \/ \E c \in Everyone, t \in Everyone, d \in Hits : Attack(c, t, d) \/ Cast(c, t, d)
  \/ AfterDeath \/ AfterAttack
  \/ \E c \in Everyone : Command(c)
  \/ Update

(* Callbacks return, and the game loop comes back to update. *)
Fairness == WF_vars(Return) /\ SF_vars(Update)

Spec == Init /\ [][Next]_vars /\ Fairness

-----------------------------------------------------------------------------
TypeOK ==
  /\ chars \in [Everyone -> CharacterRecord]
  /\ stack \in Seq(Frame)

(* A character without health is dead, and so is one in the state DEAD,
   whichever of the calls of this module brought it there, in whatever order.
   (applySyncData can do otherwise: module NetworkSync.) *)
NoHealthNoLife ==
  \A c \in Everyone :
    /\ chars[c].health = 0 => ~chars[c].alive
    /\ chars[c].state = "DEAD" => ~chars[c].alive

(* Characters are records of their type, and lifeless ones are dead. *)
LifeIsSound == TypeOK /\ NoHealthNoLife

(* Nobody is left attacking when no attack is going on, whatever the callbacks
   did to the attacker. *)
AttacksEnd ==
  \A c \in Everyone : chars[c].state = "ATTACKING" =>
    \E i \in DOMAIN stack : stack[i].call = "attack" /\ stack[i].who = c

(* The costs are paid after the first callback: a character overdraws by at
   most one blow per nested call, and not at all when blows do not nest. *)
DebtIsNested ==
  \A c \in Everyone : chars[c].stamina + MaxDepth > 0 \/ MaxDepth = 0

(* What a callback does in the middle of an attack leaves neither the attack
   open nor the costs unbounded. *)
AttacksSettle == AttacksEnd /\ DebtIsNested

(* Nothing that is done to a dead NPC makes it wait longer. *)
WaitOnlyShortens ==
  [][\A c \in Npcs : ~chars[c].alive /\ ~chars'[c].alive =>
       chars'[c].respawn <= chars[c].respawn]_vars

(* A dead NPC comes back, also when it is hit again and again while it waits. *)
NpcComesBack == \A c \in Npcs : ~chars[c].alive ~> chars[c].alive

(* The cast of whoever stays alive comes to its end. *)
CastEnds ==
  \A c \in Everyone :
    chars[c].alive /\ chars[c].state = "CASTING"
      ~> ~chars[c].alive \/ chars[c].state # "CASTING"

(* Whoever is not on patrol or on the run comes to rest, at its goal or at the
   end of its path, or it keeps getting new goals. *)
Roams(c) == chars[c].npc /\ chars[c].ai \in {"IDLE", "PATROL", "FLEE"}
NoNewGoal(c) ==
  /\ chars'[c].goal = chars[c].goal
  /\ chars'[c].moving => chars[c].moving
WalkEnds ==
  \A c \in Everyone :
    <>[]~Roams(c) /\ <>[][NoNewGoal(c)]_vars
      => []<>(~chars[c].moving \/ ~chars[c].alive)

(* Only the living begin to attack or to cast. *)
DeadDoNotStrike ==
  [][\A c \in Everyone :
       /\ chars[c].state = "IDLE"
       /\ chars'[c].state \in {"ATTACKING", "CASTING"}
       => chars[c].alive]_vars

(* stopMovement stops a player who walks along a path. *)
StopIsKept ==
  [][\A c \in Players : Update /\ ~chars[c].moving => ~chars'[c].moving]_vars
=============================================================================
