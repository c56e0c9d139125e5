SPECIFICATION Spec
CONSTANTS
  p1 = p1
  p2 = p2
  p3 = p3
  Profile = {p1, p2}
  Client = {p1, p2}
  Abroad <- OnePair
  Pair <- OnePair
  Task = {t1, t2}
  NoOne = NoOne
  NoRow = NoRow
INVARIANTS
  TypeOK
  RequestsUnique
  Replaced
  AnswerSound
  WaitsForTheOpen
PROPERTIES
  NoGap
  SyncShrinks
CHECK_DEADLOCK FALSE
