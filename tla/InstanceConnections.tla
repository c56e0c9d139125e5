------------------------ MODULE InstanceConnections ------------------------
(***************************************************************************)
(* Runtime instances and the signaling connections that serve them.  A     *)
(* token is checked before the upgrade, and again at every text and every  *)
(* heartbeat; closing an instance is a script in Redis, and then a call to *)
(* the registry of connections.  The registry is what                      *)
(* ConnectionOwnership.tla promises.  Of the keys in Redis there are the   *)
(* token of an instance, its reverse mapping and its slot, which the       *)
(* scripts change at once; RuntimeInstances.tla has them with their times  *)
(* and the requests between the scripts.                                   *)
(***************************************************************************)
EXTENDS Naturals, FiniteSets

CONSTANTS
  Presence,       (* public ids of the runtime instances, each used once   *)
  Profile,        (* account ids                                           *)
  Conn,           (* WebSocket connections, each used once                 *)
  NoConn,         (* nobody                                                *)
  ProfileOf,      (* the account of an instance                            *)
  PresenceOf,     (* the instance a connection is of                       *)
  MaxPerProfile,  (* MAX_CONNECTIONS_PER_PROFILE                           *)
  MaxInstances,   (* MAX_RUNTIME_INSTANCES_PER_PROFILE                     *)
  MaxTokens       (* bound: tokens of an instance                          *)

ASSUME ConnectionsAssumption ==
  /\ IsFiniteSet(Presence)
  /\ ProfileOf \in [Presence -> Profile] /\ PresenceOf \in [Conn -> Presence]
  /\ NoConn \notin Conn
  /\ MaxInstances \in Nat /\ MaxPerProfile \in Nat /\ MaxTokens \in Nat \ {0}
  /\ MaxInstances <= MaxPerProfile

VARIABLES
  owner,    (* the connection the registry has for an instance             *)
  stage,    (* of each connection, as in ConnectionOwnership               *)
  doing,    (* what its task is at                                         *)
  seen,     (* the token it has authenticated with, 0 before               *)
  born,     (* the instances that were created                             *)
  token,    (* the current token of an instance, 0 when it has none        *)
  mapped,   (* the instances whose reverse mapping is there                *)
  slot,     (* the members of the profiles' sets of instances              *)
  ousted,   (* who lost its slot under a living token, for the record      *)
  closer,   (* where the handler that closes an instance stands            *)
  late      (* connections that were being upgraded when it called close() *)

instances == <<born, token, mapped, slot, ousted>>
closing == <<closer, late>>
vars == <<owner, stage, doing, seen, instances, closing>>

Registry == INSTANCE ConnectionOwnership

TypeOK ==
  /\ owner \in [Presence -> Conn \cup {NoConn}]
  /\ stage \in [Conn -> {"waiting", "serving", "over"}]
  /\ doing \in [Conn -> {"nothing", "upgrade", "wait", "text", "leave"}]
  /\ seen \in [Conn -> 0..MaxTokens]
  /\ born \subseteq Presence
  /\ token \in [Presence -> 0..MaxTokens]
  /\ mapped \subseteq Presence /\ slot \subseteq Presence /\ ousted \subseteq Presence
  /\ closer \in [Presence -> {"none", "script", "closed", "dropped"}]
  /\ late \subseteq Conn
  /\ \A c \in Conn : stage[c] = "serving" <=> doing[c] \in {"wait", "text", "leave"}
  /\ \A p \in Presence : owner[p] # NoConn =>
       PresenceOf[owner[p]] = p /\ stage[owner[p]] = "serving"

Init ==
  /\ Registry!Init
  /\ doing = [c \in Conn |-> "nothing"]
  /\ seen = [c \in Conn |-> 0]
  /\ born = {}
  /\ token = [p \in Presence |-> 0]
  /\ mapped = {} /\ slot = {} /\ ousted = {}
  /\ closer = [p \in Presence |-> "none"]
  /\ late = {}
-----------------------------------------------------------------------------
(* Instances.                                                              *)

Members(f) == {p \in slot : ProfileOf[p] = f}
Dead == {p \in Presence : token[p] = 0}

\* create: one script.  ZREMRANGEBYSCORE takes the slots whose lease has run out,
\* and those in the last second of theirs, due; the others are counted.
Create(p, due) ==
  LET f == ProfileOf[p]
      kept == Members(f) \ (Dead \cup due)
      full == Cardinality(kept) >= MaxInstances
  IN
  /\ p \notin born
  /\ due \subseteq Members(f)
  /\ ousted' = ousted \cup (due \ Dead)
  /\ slot' = (slot \ (Members(f) \ kept)) \cup IF full THEN {} ELSE {p}
  /\ IF full
     THEN UNCHANGED <<born, token, mapped>>     \* INSTANCE_LIMIT_REACHED
     ELSE /\ born' = born \cup {p}
          /\ token' = [token EXCEPT ![p] = 1]
          /\ mapped' = mapped \cup {p}
  /\ UNCHANGED <<owner, stage, doing, seen, closing>>

\* renew: one script, which asks for the mapping, and takes the slot again if it
\* was pruned.
Renew(p) ==
  /\ token[p] \in 1..(MaxTokens - 1) /\ p \in mapped
  /\ token' = [token EXCEPT ![p] = @ + 1]
  /\ slot' = slot \cup {p}
  /\ UNCHANGED <<owner, stage, doing, seen, born, mapped, ousted, closing>>

\* The token has had its time.  Redis drops it with the mapping, and the slot
\* stays; or who finds it expired (or rolls the registration back) deletes it
\* with its slot.
Expire(p) ==
  /\ token[p] # 0
  /\ token' = [token EXCEPT ![p] = 0]
  /\ mapped' = mapped \ {p}
  /\ slot' \in {slot, slot \ {p}}
  /\ UNCHANGED <<owner, stage, doing, seen, born, ousted, closing>>

\* The same deletion, of a token that has been renewed in between: the mapping
\* and the slot go, the new token stays.
ExpireRenewed(p) ==
  /\ token[p] > 1
  /\ mapped' = mapped \ {p}
  /\ slot' = slot \ {p}
  /\ ousted' = ousted \cup {p}
  /\ UNCHANGED <<owner, stage, doing, seen, born, token, closing>>

\* close: authentication and the script, which asks for the mapping.
CloseScript(p) ==
  /\ token[p] # 0 /\ p \in mapped
  /\ token' = [token EXCEPT ![p] = 0]
  /\ mapped' = mapped \ {p}
  /\ slot' = slot \ {p}
  /\ closer' = [closer EXCEPT ![p] = "script"]
  /\ UNCHANGED <<owner, stage, doing, seen, born, ousted, late>>

\* Faulty variant: the connection is told, and remains registered.
CloseNotice(p) ==
  /\ closer[p] = "script"
  /\ closer' = [closer EXCEPT ![p] = "closed"]
  /\ late' = late \cup {c \in Conn : PresenceOf[c] = p /\ doing[c] = "upgrade"}
  /\ UNCHANGED <<owner, stage, doing, seen, instances>>

\* close, after the script: signaling_connections.close.
CloseConnection(p) ==
  /\ closer[p] = "script"
  /\ Registry!Revoke({p})
  /\ closer' = [closer EXCEPT ![p] = "closed"]
  /\ late' = late \cup {c \in Conn : PresenceOf[c] = p /\ doing[c] = "upgrade"}
  /\ UNCHANGED <<doing, seen, instances>>

\* The handler is dropped, by the timeout or with its client, or the script was
\* run and its answer lost.
CloseDropped(p) ==
  /\ closer[p] = "script"
  /\ closer' = [closer EXCEPT ![p] = "dropped"]
  /\ UNCHANGED <<owner, stage, doing, seen, instances, late>>
-----------------------------------------------------------------------------
(* Connections.                                                            *)

At(c, label) == doing[c] = label
Goto(c, label) == doing' = [doing EXCEPT ![c] = label]
Stale(c) == seen[c] # token[PresenceOf[c]]

\* connect: the token is checked, the socket is upgraded later.
Connect(c) ==
  /\ stage[c] = "waiting" /\ At(c, "nothing")
  /\ token[PresenceOf[c]] # 0
  /\ seen' = [seen EXCEPT ![c] = token[PresenceOf[c]]]
  /\ Goto(c, "upgrade")
  /\ UNCHANGED <<owner, stage, instances, closing>>

Register(c) ==
  /\ At(c, "upgrade")
  /\ Registry!Take(c)
  /\ Goto(c, "wait")
  /\ UNCHANGED <<seen, instances, closing>>

\* Faulty variant: a connection that would replace another is refused too.
ExceedsAlways(c) ==
  Cardinality(Registry!Owned(ProfileOf[PresenceOf[c]])) >= MaxPerProfile

\* register turns a connection away for the connections the profile has.
Exceeds(c) ==
  /\ owner[PresenceOf[c]] = NoConn
  /\ Cardinality(Registry!Owned(ProfileOf[PresenceOf[c]])) >= MaxPerProfile

Refused(c) ==
  /\ At(c, "upgrade")
  /\ Exceeds(c)
  /\ Registry!Refuse(c)
  /\ Goto(c, "nothing")
  /\ UNCHANGED <<seen, instances, closing>>

\* The client is gone before the upgrade.
GiveUp(c) ==
  /\ At(c, "upgrade")
  /\ Registry!Refuse(c)
  /\ Goto(c, "nothing")
  /\ UNCHANGED <<seen, instances, closing>>

\* A text: it is handled if the token is still the one.
Text(c) ==
  /\ At(c, "wait")
  /\ Goto(c, IF Stale(c) THEN "leave" ELSE "text")
  /\ UNCHANGED <<owner, stage, seen, instances, closing>>

\* Faulty variant: the task returns from where a write fails.
RespondOrReturn(c) ==
  /\ At(c, "text")
  /\ \E label \in {"wait", "nothing"} : Goto(c, label)
  /\ UNCHANGED <<owner, stage, seen, instances, closing>>

\* The text is handled; writing the response may fail.
Respond(c) ==
  /\ At(c, "text")
  /\ \E label \in {"wait", "leave"} : Goto(c, label)
  /\ UNCHANGED <<owner, stage, seen, instances, closing>>

\* Faulty variant: the token of who was active lately is not looked at.
HeartbeatIdle(c) ==
  /\ At(c, "wait") /\ Stale(c) /\ owner[PresenceOf[c]] # c
  /\ Goto(c, "leave")
  /\ UNCHANGED <<owner, stage, seen, instances, closing>>

\* Faulty variant: it looks at the instance, and takes its new token for its own.
HeartbeatRefresh(c) ==
  /\ At(c, "wait") /\ Stale(c)
  /\ seen' = [seen EXCEPT ![c] = token[PresenceOf[c]]]
  /\ UNCHANGED <<owner, stage, doing, instances, closing>>

\* A heartbeat finds the token stale; one that does not changes nothing.
Heartbeat(c) ==
  /\ At(c, "wait") /\ Stale(c)
  /\ Goto(c, "leave")
  /\ UNCHANGED <<owner, stage, seen, instances, closing>>

\* Every other break: the peer or the registry closes it, it has idled too
\* long, a write or the check of its token fails.
Break(c) ==
  /\ At(c, "wait")
  /\ Goto(c, "leave")
  /\ UNCHANGED <<owner, stage, seen, instances, closing>>

\* Faulty variant: the entry remains.
UnregisterNothing(c) ==
  /\ At(c, "leave")
  /\ stage' = [stage EXCEPT ![c] = "over"]
  /\ Goto(c, "nothing")
  /\ UNCHANGED <<owner, seen, instances, closing>>

Unregister(c) ==
  /\ At(c, "leave")
  /\ Registry!Finish(c)
  /\ Goto(c, "nothing")
  /\ UNCHANGED <<seen, instances, closing>>

Next ==
  \/ \E p \in Presence :
       \/ Renew(p) \/ Expire(p) \/ ExpireRenewed(p)
       \/ CloseScript(p) \/ CloseConnection(p) \/ CloseDropped(p)
  \/ \E p \in Presence, due \in SUBSET Presence : Create(p, due)
  \/ \E c \in Conn :
       \/ Connect(c) \/ Register(c) \/ Refused(c) \/ GiveUp(c)
       \/ Text(c) \/ Respond(c) \/ Heartbeat(c) \/ Break(c) \/ Unregister(c)

Spec == Init /\ [][Next]_vars

\* A task that can run does, its writes come to an end, and the heartbeat
\* ticks.  Nobody owes a text, a break or an upgrade.
Fairness ==
  \A c \in Conn : WF_vars(Respond(c)) /\ WF_vars(Heartbeat(c)) /\ WF_vars(Unregister(c))

LiveSpec == Spec /\ Fairness
-----------------------------------------------------------------------------
(* Properties.                                                             *)

\* A token that a connection has authenticated with, once it is replaced or
\* gone, is not its instance's token again.
StaleForGood ==
  [][\A c \in Conn : seen[c] # 0 /\ Stale(c) => Stale(c)']_vars

\* Who still serves an instance whose closing was answered was being upgraded
\* when the registry was asked to close it: nobody else slips in between the
\* script, the close and the authentication before the upgrade.
ClosedServesLate ==
  \A p \in Presence : closer[p] = "closed" /\ owner[p] # NoConn => owner[p] \in late

\* An instance that lives is turned away for lack of room only when a connection
\* of its profile is of an instance that is gone, or when it, or one that has a
\* connection, lost its slot while it lived (pruned in its last second, or
\* deleted as expired although renewed) and so went past the limit on instances.
\* Those within the limit never fill the registry, reconnections included.
RefusedForGone ==
  [][\A c \in Conn : Refused(c) /\ ~ Stale(c) =>
       \/ PresenceOf[c] \in ousted
       \/ \E p \in Presence : /\ owner[p] # NoConn /\ p \in Dead \cup ousted
                              /\ ProfileOf[p] = ProfileOf[PresenceOf[c]]]_vars

\* A connection whose token was renewed, expired or closed is over sooner or
\* later, whatever it goes on sending.
StaleTokenEnds ==
  \A c \in Conn : stage[c] = "serving" /\ Stale(c) ~> stage[c] = "over"

\* Once an instance is gone, the registry forgets it for good, even when the
\* handler that closed it was dropped before it got there.
GoneIsForgotten ==
  \A p \in Presence : p \in born /\ token[p] = 0 ~> [](owner[p] = NoConn)
=============================================================================
