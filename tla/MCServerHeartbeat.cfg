SPECIFICATION FairSpec
CONSTANTS
  Conns = {a1}
  None = none
  Msgs = {m1}
  Heartbeat = heartbeat
  Empty = empty
  Garbage = garbage
  Calls = {"send"}
  MaxCalls = 1
  MaxSends = 2
  MaxFrames = 1
  Faults = {}
PROPERTIES SilentIsClosed
CHECK_DEADLOCK FALSE
