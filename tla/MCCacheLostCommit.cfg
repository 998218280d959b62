SPECIFICATION Spec
CONSTANTS
  Timer = timer
  Poller = poller
  NoThread = noThread
  Unset = unset
  Absent = absent
  Players = {p1}
  Clients = {c1}
  Sections = {"base"}
  Vals = {"plain"}
  Unreadable = unreadable
  Broken = broken
  Stored <- MCStored
  Cut <- MCCut
  Builds = {{"database"}}
  Relock = {"recurse"}
  Calls = {"set", "saveAll"}
  Faults = {"dbDrop"}
  MaxFaults = 1
INVARIANTS CleanIsDurable
