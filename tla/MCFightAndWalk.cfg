SPECIFICATION MCSpec
CONSTANTS
  MaxHealth = 2
  MaxStamina = 2
  MaxMana = 1
  CastTime = 1
  Cooldown = 1
  RespawnDelay = 2
  Step = 1
  Near = 1
  Spawn = 0
  AggroRange = 1
  AttackRange = 0
  PatrolRadius = 1
  FleeStep = 1
  CombatFirst = TRUE
  Players = {p1}
  Npcs = {n1}
  Hits = {1, 2}
  Healing = {1}
  Places = {}
  Paths = {}
  Moods = {}
  MaxDepth = 2
INVARIANTS LifeIsSound AttacksSettle
PROPERTIES WaitOnlyShortens CastEnds NpcsComeBack WalksEnd
CHECK_DEADLOCK FALSE
