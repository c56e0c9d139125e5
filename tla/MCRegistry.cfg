\* Two connections of one Presence and one of another, in a profile with room for
\* one Presence, so that the second Presence meets the limit and a replacement does
\* not; queues of one slot, so that a Close meets a full one as soon as a text waits.
CONSTANTS
  alice = alice
  p1 = p1  p2 = p2
  c1 = c1  c2 = c2  c3 = c3
  NoConn = NoConn
  Profile = {alice}
  Presence = {p1, p2}
  Conn = {c1, c2, c3}
  ProfileOf <- MCProfileOf
  PresenceOf <- MCPresenceOf
  MaxPerProfile = 1
  Capacity = 1
SPECIFICATION LiveSpec
INVARIANTS
  TypeOK
  ProfileLimit
PROPERTIES
  DisplacedDrains
  OwnershipSteps
  OwnershipSpec
\* Every connection may have ended.
CHECK_DEADLOCK FALSE
