SPECIFICATION Spec
CONSTANTS
  a = a
  b = b
  None = None
  Clients = {a, b}
  Files = {1}
  Wins = {2, 3, 4}
  Owner <- OwnerOf
  Docs = {11, 12, 13, 14}
  Depth = 1
  Lapses = {}
INVARIANT TitleHasUser
CHECK_DEADLOCK FALSE
