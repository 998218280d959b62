SPECIFICATION MCSpec
CONSTANTS
  Threads = {t1, t2}
  NoThread = noThread
  Ids = {1, 2}
  Objects = {o1, o2}
  Null = null
  Free = free
  BareTypes = {"MONSTER", "PET"}
  MayRemove <- MCMayRemove
  Stoppers = {t1}
  MaxHealth = 1
  MaxStamina = 0
  MaxMana = 0
  CastTime = 0
  Cooldown = 0
  RespawnDelay = 1
  Step = 1
  Near = 1
  Spawn = 0
  AggroRange = 1
  AttackRange = 0
  PatrolRadius = 1
  FleeStep = 1
  CombatFirst = TRUE
  Interval = 2
  Cap = 1
  Stamps = {0, 1}
  SyncAt = 2
  Sources = {"me", "other"}
  Peers <- MCPeers
  Blows = {1}
  Aims = {1}
  CallbackMarks = {}
  LateInitialize = FALSE
INVARIANTS ContainersAgree CallbacksTrack HeldObjectsLive SyncIsSound EchoIsHarmless
PROPERTIES MarkedIsSent
CHECK_DEADLOCK FALSE
