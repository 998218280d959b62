SPECIFICATION FairSpec
CONSTANTS
  Timer = timer
  Poller = poller
  NoThread = noThread
  Unset = unset
  Absent = absent
  Players = {p1, p2}
  Clients = {c1}
  Sections = {"base"}
  Vals = {"plain", "quote"}
  Unreadable = unreadable
  Broken = broken
  Stored <- MCStored
  Cut <- MCCut
  Builds = {{"database"}, {}}
  Relock = {"recurse"}
  Calls = {"set", "saveAll", "setDirty", "start", "stop", "initialize"}
  Faults = {}
  MaxFaults = 0
PROPERTIES DirtyGetsStored StopReturns
CHECK_DEADLOCK FALSE
