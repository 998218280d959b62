SPECIFICATION Spec
CONSTANTS
  Conns = {a1, a2}
  None = none
  Msgs = {m1}
  Heartbeat = heartbeat
  Empty = empty
  Garbage = garbage
  Calls = {"stop"}
  MaxCalls = 1
  MaxSends = 2
  MaxFrames = 1
  Faults = {}
INVARIANTS NoAbort
CHECK_DEADLOCK FALSE
