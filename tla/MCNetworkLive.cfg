SPECIFICATION MCSpec
CONSTANTS
  NWorkers = 2
  Clients = {c1, c2}
  Tasks = {k1, k2, k3}
  NoTask = noTask
  Throwing = {k3}
  Stoppers = {c1, c2, 1}
  Conns = {a1, a2}
  None = none
  Msgs = {m1}
  Heartbeat = heartbeat
  Empty = empty
  Garbage = garbage
  Calls = {"stop", "destroy"}
  MaxCalls = 1
  MaxSends = 2
  MaxFrames = 1
  Faults = {}
INVARIANTS NobodySleepsOnWork StopIsClean
PROPERTIES ImplementsQueue EveryTaskRuns StopReturns GoneIsFreed StopEndsLoop
CHECK_DEADLOCK FALSE
