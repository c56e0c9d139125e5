\* One slot of each kind, so that a connection of an instance that is gone takes
\* the place of one that lives; two tokens, so that an instance is renewed once.
CONSTANTS
  alice = alice
  p1 = p1  p2 = p2
  c1 = c1  c2 = c2  c3 = c3
  NoConn = NoConn
  Profile = {alice}
  Presence = {p1, p2}
  Conn = {c1, c2, c3}
  ProfileOf <- MCProfileOf
  PresenceOf <- MCPresenceOf
  MaxPerProfile = 1
  MaxInstances = 1
  MaxTokens = 2
SPECIFICATION LiveSpec
INVARIANTS
  TypeOK
  ClosedServesLate
PROPERTIES
  StaleForGood
  RefusedForGone
  StaleTokenEnds
  GoneIsForgotten
\* Every connection may have ended.
CHECK_DEADLOCK FALSE
