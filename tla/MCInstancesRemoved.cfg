\* A publish and the closure of the same instance.
SPECIFICATION Spec
CONSTANTS
  Presence = {p1}
  Token = {t1, t2}
  Request = {q1, q2}
  None = None
  Second = 2
  InstanceTtl = 4
  InitialTtl = 1
  MaxPresenceTtl = 2
  PublishTtl = {1, 2}
  MaxInstances = 1
  RequestTimeout = 1
  MaxClock = 6
SYMMETRY Symmetry
INVARIANTS
  PresenceRemoved
CHECK_DEADLOCK FALSE
