SPECIFICATION Spec
CONSTANTS
  Timer = timer
  Poller = poller
  NoThread = noThread
  Unset = unset
  Absent = absent
  Players = {p1}
  Clients = {c1}
  Sections = {"base"}
  Vals = {"plain"}
  Unreadable = unreadable
  Broken = broken
  Stored <- MCStored
  Cut <- MCCut
  Builds = {{"database"}}
  Relock = {"hang"}
  Calls = {"set", "saveAll"}
  Faults = {}
  MaxFaults = 0
INVARIANTS NoSelfDeadlock
