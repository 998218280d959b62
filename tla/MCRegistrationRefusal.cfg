SPECIFICATION Spec
CONSTANTS
  Servers = {s1}
  Phones = {p1}
  Emails = {e1}
  Valid = {p1}
  Nothing = nothing
  Types = {1, 2}
  Codes = {k1}
  NoCode = noCode
  UserIds = {u1}
  MaxSends = 2
  Day = 2
  Requests <- MCRequests
  Faults = {}
  MaxFaults = 1
  MaxClock = 3
  MaxRequests = 4
PROPERTY RefusalIsEarned
CHECK_DEADLOCK FALSE
