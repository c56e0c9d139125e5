\* One slot, and two Presences whose registrations race for it; one of them is
\* renewed, or both are registered one after the other and one is renewed.
SPECIFICATION Spec
CONSTANTS
  Presence = {p1, p2}
  Token = {t1, t2, t3}
  Request = {q1, q2}
  None = None
  Second = 2
  InstanceTtl = 4
  InitialTtl = 1
  MaxPresenceTtl = 1
  PublishTtl = {1}
  MaxInstances = 1
  RequestTimeout = 1
  MaxClock = 6
SYMMETRY Symmetry
INVARIANTS
  TypeOK
  OneToken
  TokenLasts
  ClosedForGood
  PresenceEnds
  LimitUnlessOusted
PROPERTY TokensLive
CHECK_DEADLOCK FALSE
