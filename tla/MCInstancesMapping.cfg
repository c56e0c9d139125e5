\* A renewal and the deletion of the token as expired.
SPECIFICATION Spec
CONSTANTS
  Presence = {p1}
  Token = {t1, t2}
  Request = {q1, q2}
  None = None
  Second = 2
  InstanceTtl = 4
  InitialTtl = 1
  MaxPresenceTtl = 2
  PublishTtl = {1, 2}
  MaxInstances = 1
  RequestTimeout = 1
  MaxClock = 8
SYMMETRY Symmetry
INVARIANTS
  MappingKept
CHECK_DEADLOCK FALSE
