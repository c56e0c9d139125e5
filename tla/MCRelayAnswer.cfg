\* The host answers while the guest sends a candidate.
CONSTANTS
  guest = guest  host = host
  g1 = g1  h1 = h1
  s1 = s1
  NoConn = NoConn  NoSession = NoSession
  Presence = {guest, host}
  Conn = {g1, h1}
  PresenceOf <- PairPresenceOf
  Session = {s1}
  Second = 1
  SessionTtl = 1
  IndexSlack = 1
  MaxIce = 1
  Guest = {guest}
  Host = {host}
  Trickler = {guest}
  MaxDelay = 0
  MaxClock = 0
SPECIFICATION ServeSpec
INVARIANT SingleAnswer
\* Every connection may be gone.
CHECK_DEADLOCK FALSE
