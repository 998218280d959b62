SPECIFICATION Spec
CONSTANTS
  Strings = {empty, alice, garbled}
  Empty = empty
  Garbled = {garbled}
  Names = {alice, garbled}
  Passwords = {alice, garbled}
  Stamps = {t1, t2}
  MaxUsers = 2
  Conns = {c1, c2}
  MaxRequests = 2
SYMMETRY Symmetry
INVARIANTS NamesAreSound OneAnswerEach
PROPERTY LastLoginCounts
CHECK_DEADLOCK FALSE
