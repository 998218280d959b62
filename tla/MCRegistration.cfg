SPECIFICATION Spec
CONSTANTS
  Servers = {s1, s2}
  Phones = {p1}
  Emails = {e1}
  Valid = {p1}
  Nothing = nothing
  Types = {1, 2}
  Codes = {k1}
  NoCode = noCode
  UserIds = {u1}
  MaxSends = 2
  Day = 2
  Requests <- MCRequests
  Faults = {"crash", "lost", "error"}
  MaxFaults = 1
  MaxClock = 3
  MaxRequests = 4
SYMMETRY Symmetry
INVARIANTS OneAccountPerCode DailyLimit PromisedCodeIsGood
CHECK_DEADLOCK FALSE
