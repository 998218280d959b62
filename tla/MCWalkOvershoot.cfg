SPECIFICATION Spec
CONSTANTS
  MaxHealth = 1
  MaxStamina = 0
  MaxMana = 0
  CastTime = 1
  Cooldown = 0
  RespawnDelay = 1
  Step = 2
  Near = 1
  Spawn = 1
  AggroRange = 1
  AttackRange = 0
  PatrolRadius = 1
  FleeStep = 1
  CombatFirst = FALSE
  Players = {p1}
  Npcs = {}
  Hits = {1}
  Healing = {}
  Places = {1}
  Paths = {}
  Moods = {}
  MaxDepth = 0
PROPERTIES WalkEnds
CHECK_DEADLOCK FALSE
