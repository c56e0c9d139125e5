\* A guest and a host, sessions of one second over one and a half, in half
\* seconds; the server may crash between any two commands, and one that connects
\* after it finds the sessions Redis kept.  The guest sends candidates.
CONSTANTS
  guest = guest  host = host
  g1 = g1  h1 = h1
  s1 = s1
  NoConn = NoConn  NoSession = NoSession
  Presence = {guest, host}
  Conn = {g1, h1}
  PresenceOf <- PairPresenceOf
  Session = {s1}
  Second = 2
  SessionTtl = 2
  IndexSlack = 1
  MaxIce = 1
  Guest = {guest}
  Host = {host}
  Trickler = {guest}
  MaxDelay = 1
  MaxClock = 3
SPECIFICATION Spec
INVARIANTS
  StoredWellFormed
  HostConsents
  NoOverstay
PROPERTY WorkShrinks
\* Every connection may be gone.
CHECK_DEADLOCK FALSE
