SPECIFICATION Spec
CONSTANTS
  Timer = timer
  Poller = poller
  NoThread = noThread
  Unset = unset
  Absent = absent
  Players = {p1}
  Clients = {c1}
  Sections = {"base", "inventory"}
  Vals = {"plain"}
  Unreadable = unreadable
  Broken = broken
  Stored <- MCStored
  Cut <- MCCut
  Builds = {{"database"}}
  Relock = {"recurse"}
  Calls = {"setSection", "start"}
  Faults = {}
  MaxFaults = 0
PROPERTIES SectionSetKeepsOthers
