SPECIFICATION Spec
CONSTANTS
  Conns = {a1}
  None = none
  Msgs = {m1}
  Heartbeat = heartbeat
  Empty = empty
  Garbage = garbage
  Calls = {"stop", "destroy"}
  MaxCalls = 1
  MaxSends = 2
  MaxFrames = 1
  Faults = {}
INVARIANTS ExitIsClean
CHECK_DEADLOCK FALSE
