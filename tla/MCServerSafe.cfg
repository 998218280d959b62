SPECIFICATION Spec
CONSTANTS
  Conns = {a1}
  None = none
  Msgs = {m1, m2}
  Heartbeat = heartbeat
  Empty = empty
  Garbage = garbage
  Calls = {"send", "close", "stop", "destroy"}
  MaxCalls = 2
  MaxSends = 3
  MaxFrames = 2
  Faults = {"split", "reset", "backpressure", "reject"}
SYMMETRY Interchangeable
INVARIANTS HandlesAreSound DeliveredOnce WritesKeepOrder
PROPERTY ImplementsMailbox
CHECK_DEADLOCK FALSE
