SPECIFICATION LiveSpec
CONSTANTS
  p1 = p1
  p2 = p2
  p3 = p3
  Profile = {p1, p2, p3}
  Client = {p1}
  Pair <- TwoPairs
  Abroad = {}
  Task = {t1, t2}
  NoOne = NoOne
  NoRow = NoRow
PROPERTIES
  SyncEnds
CHECK_DEADLOCK FALSE
