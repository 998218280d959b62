--------------------------- MODULE MCFightAndWalk ----------------------------
(***************************************************************************)
(* Two instances of Characters in one run.  The fight has the constants of *)
(* the configuration; the walk is one NPC on a line of a few places.  The  *)
(* first state chooses the scene that is played; the other one stays put.  *)
(***************************************************************************)
EXTENDS Characters

VARIABLES scene, walkers, noCalls

Walk == INSTANCE Characters WITH
  MaxHealth <- 1, MaxStamina <- 0, MaxMana <- 0, Cooldown <- 0, RespawnDelay <- 1,
  Spawn <- 1, CombatFirst <- FALSE, Players <- {}, Hits <- {1}, Healing <- {},
  Places <- {0, 2}, Paths <- {<<1, 2>>, <<2, 0>>},
  Moods <- {"IDLE", "CHASE", "ATTACK", "FLEE", "DEAD"}, MaxDepth <- 0,
  chars <- walkers, stack <- noCalls

MCInit == scene \in {"fight", "walk"} /\ Init /\ Walk!Init
MCNext ==
  /\ \/ scene = "fight" /\ Next /\ UNCHANGED <<walkers, noCalls>>
     \/ scene = "walk" /\ Walk!Next /\ UNCHANGED vars
  /\ UNCHANGED scene

(* The fairness of Characters, of the scene that is played. *)
MCFairness ==
  /\ WF_vars(scene = "fight" /\ Return) /\ SF_vars(scene = "fight" /\ Update)
  /\ SF_<<walkers, noCalls>>(scene = "walk" /\ Walk!Update)

MCSpec == MCInit /\ [][MCNext]_<<vars, scene, walkers, noCalls>> /\ MCFairness

(* NpcComesBack of the walk: an NPC that dies anywhere on its way comes back. *)
NpcsComeBack == Walk!NpcComesBack
(* WalkEnds of the walk: movement comes to rest at the end of the way. *)
WalksEnd == Walk!WalkEnds
=============================================================================
