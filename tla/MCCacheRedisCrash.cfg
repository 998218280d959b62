SPECIFICATION Spec
CONSTANTS
  Timer = timer
  Poller = poller
  NoThread = noThread
  Unset = unset
  Absent = absent
  Players = {p1}
  Clients = {c1}
  Sections = {"base"}
  Vals = {"plain"}
  Unreadable = unreadable
  Broken = broken
  Stored <- MCStored
  Cut <- MCCut
  Builds = {{"redis", "database"}}
  Relock = {"recurse"}
  Calls = {"set", "get", "start"}
  Faults = {"crash"}
  MaxFaults = 1
INVARIANTS CleanIsDurable
