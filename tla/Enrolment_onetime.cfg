CONSTANTS
  Nothing = Nothing
  Codes = {c1}
  Rows = {a, b}
  Pairings = {p, q}
  Sockets = {}
SPECIFICATION EnrolSpec
INVARIANT OneSessionPerCode
CHECK_DEADLOCK FALSE
