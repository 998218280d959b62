SPECIFICATION Spec
CONSTANTS
  Conns = {a1}
  None = none
  Msgs = {m1, m2}
  Heartbeat = heartbeat
  Empty = empty
  Garbage = garbage
  Calls = {"send"}
  MaxCalls = 1
  MaxSends = 2
  MaxFrames = 2
  Faults = {}
INVARIANTS EveryFrameArrives
CHECK_DEADLOCK FALSE
