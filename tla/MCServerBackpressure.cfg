SPECIFICATION Spec
CONSTANTS
  Conns = {a1}
  None = none
  Msgs = {m1}
  Heartbeat = heartbeat
  Empty = empty
  Garbage = garbage
  Calls = {"send"}
  MaxCalls = 2
  MaxSends = 2
  MaxFrames = 2
  Faults = {"backpressure"}
INVARIANTS PeerGetsWhatWasSent
CHECK_DEADLOCK FALSE
