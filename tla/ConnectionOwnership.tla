------------------------- MODULE ConnectionOwnership -------------------------
(***************************************************************************)
(* What the signaling connection registry promises: a Presence is served   *)
(* by at most one connection at a time, a connection that lost its         *)
(* Presence never gets it back, and it is over sooner or later.  The       *)
(* registry of ConnectionRegistry.tla, with its queues, its lock and the   *)
(* interleavings of its callers, is shown to implement this.               *)
(***************************************************************************)
EXTENDS Naturals, FiniteSets

CONSTANTS
  Presence,       (* public ids of the runtime instances                  *)
  Profile,        (* account ids                                          *)
  Conn,           (* WebSocket connections, each used once                *)
  NoConn,         (* nobody                                               *)
  ProfileOf,      (* the account of a Presence                            *)
  PresenceOf,     (* the Presence a connection has authenticated as       *)
  MaxPerProfile   (* MAX_CONNECTIONS_PER_PROFILE                          *)

VARIABLES
  owner,    (* the connection that serves a Presence                       *)
  stage     (* "waiting", "serving" or "over", for each connection         *)

vars == <<owner, stage>>

Owned(f) == {p \in Presence : owner[p] # NoConn /\ ProfileOf[p] = f}

Init ==
  /\ owner = [p \in Presence |-> NoConn]
  /\ stage = [c \in Conn |-> "waiting"]

\* A new connection takes its Presence over, or adds one to the profile's.
Take(c) ==
  LET p == PresenceOf[c] IN
  /\ stage[c] = "waiting"
  /\ owner[p] # NoConn \/ Cardinality(Owned(ProfileOf[p])) < MaxPerProfile
  /\ owner' = [owner EXCEPT ![p] = c]
  /\ stage' = [stage EXCEPT ![c] = "serving"]

\* A connection that never served is turned away.
Refuse(c) ==
  /\ stage[c] = "waiting"
  /\ stage' = [stage EXCEPT ![c] = "over"]
  /\ UNCHANGED owner

\* The operator takes Presences away from their connections.
Revoke(S) ==
  /\ owner' = [p \in Presence |-> IF p \in S THEN NoConn ELSE owner[p]]
  /\ UNCHANGED stage

\* A connection is over; only then does it give up what it still owns.
Finish(c) ==
  LET p == PresenceOf[c] IN
  /\ stage[c] = "serving"
  /\ stage' = [stage EXCEPT ![c] = "over"]
  /\ owner' = [owner EXCEPT ![p] = IF @ = c THEN NoConn ELSE @]

Next ==
  \/ \E c \in Conn : Take(c) \/ Refuse(c) \/ Finish(c)
  \/ \E S \in SUBSET Presence : Revoke(S)

Displaced(c) == stage[c] = "serving" /\ owner[PresenceOf[c]] # c

\* Whoever lost its Presence is on its way out.
Fairness == \A c \in Conn : WF_vars(Displaced(c) /\ Finish(c))

Spec == Init /\ [][Next]_vars /\ Fairness

LostStayLost ==
  \A c \in Conn : stage[c] # "waiting" /\ owner[PresenceOf[c]] # c
                   => owner'[PresenceOf[c]] # c

(* Action property: who has lost its Presence, or is over, does not own it *)
(* again, even when nobody else does.                                      *)
LostForGood == [][LostStayLost]_vars
=============================================================================
