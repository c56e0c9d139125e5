\* A guest and a host, one connection each; a session of one second over a
\* second of half seconds, its indexes without slack; the peers never stop sending,
\* but for candidates, which are the other runs' part.
CONSTANTS
  guest = guest  host = host
  g1 = g1  h1 = h1
  s1 = s1
  NoConn = NoConn  NoSession = NoSession
  Presence = {guest, host}
  Conn = {g1, h1}
  PresenceOf <- PairPresenceOf
  Session = {s1}
  Second = 2
  SessionTtl = 2
  IndexSlack = 0
  MaxIce = 0
  Guest = {guest}
  Host = {host}
  Trickler = {}
  MaxDelay = 1
  MaxClock = 2
SPECIFICATION LiveSpec
INVARIANTS
  TypeOK
  DisconnectDeletes
  SingleOffer
PROPERTIES
  HandlerReturns
  CleanupEnds
\* Every connection may be gone.
CHECK_DEADLOCK FALSE
