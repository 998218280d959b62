SPECIFICATION FairSpec
CONSTANTS
  Timer = timer
  Poller = poller
  NoThread = noThread
  Unset = unset
  Absent = absent
  Players = {p1}
  Clients = {c1}
  Sections = {"base"}
  Vals = {"plain"}
  Unreadable = unreadable
  Broken = broken
  Stored <- MCStored
  Cut <- MCCut
  Builds = {{"database"}}
  Relock = {"recurse"}
  Calls = {"set", "start"}
  Faults = {"signal"}
  MaxFaults = 1
PROPERTIES SignalEndsProcess
CHECK_DEADLOCK FALSE
