SPECIFICATION Spec
CONSTANTS
  Strings = {empty, alice}
  Empty = empty
  Garbled = {}
  Names = {alice}
  Passwords = {alice}
  Stamps = {t1}
  MaxUsers = 2
  Conns = {c1}
  MaxRequests = 2
INVARIANT RequestsAreUnderstood
CHECK_DEADLOCK FALSE
