SPECIFICATION Spec
CONSTANTS
  Timer = timer
  Poller = poller
  NoThread = noThread
  Unset = unset
  Absent = absent
  Players = {p1, p2}
  Clients = {c1}
  Sections = {"base"}
  Vals = {"garbling", "quote"}
  Unreadable = unreadable
  Broken = broken
  Stored <- MCStored
  Cut <- MCCut
  Builds = {{"database"}}
  Relock = {"recurse"}
  Calls = {"get", "set", "setSection", "saveAll", "save", "markAllDirty", "start", "stop"}
  Faults = {"crash", "dbDrop", "dbRefuse", "signal"}
  MaxFaults = 2
SYMMETRY Interchangeable
INVARIANTS MutexIsSound CleanIsStored CacheHoldsLastWrite
PROPERTIES SaveIsASnapshot ImplementsStore
CHECK_DEADLOCK FALSE
