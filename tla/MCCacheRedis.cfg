SPECIFICATION Spec
CONSTANTS
  Timer = timer
  Poller = poller
  NoThread = noThread
  Unset = unset
  Absent = absent
  Players = {p1}
  Clients = {c1, c2}
  Sections = {"base"}
  Vals = {"plain", "nul", "torn"}
  Unreadable = unreadable
  Broken = broken
  Stored <- MCStored
  Cut <- MCCut
  Builds = {{"redis"}, {"redis", "database"}}
  Relock = {"hang", "recurse"}
  Calls = {"get", "set", "setSection", "load", "saveAll", "clearDirty", "dbOnly", "stop", "initialize"}
  Faults = {"crash", "redisDrop", "redisRefuse", "dbDrop"}
  MaxFaults = 1
SYMMETRY Interchangeable
INVARIANTS RedisMirrorsCache
CHECK_DEADLOCK FALSE
