SPECIFICATION Spec
CONSTANTS
  Presence = {p1, p2}
  Request = {q1}
  None = None
  Second = 2
  PublishTtl = {2, 8}
  Slack = 2
  RequestTimeout = 1
  Window = 2
  Limit = 1
  MaxClock = 4
INVARIANT
  Listing
CHECK_DEADLOCK FALSE
