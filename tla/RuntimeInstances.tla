-------------------------- MODULE RuntimeInstances --------------------------
(***************************************************************************)
(* The runtime instances of one profile: the tokens that authenticate      *)
(* them, the slots they take, and their Presence records, all of them keys *)
(* in Redis that expire.  (No two profiles share a key.)  Requests are     *)
(* served concurrently; between two awaited Redis commands of one request  *)
(* any other request may run.  The server keeps nothing in memory, so the  *)
(* requests may be those of several servers.                               *)
(***************************************************************************)
EXTENDS Naturals, FiniteSets

CONSTANTS
  Presence,        (* public ids, drawn at random                          *)
  Token,           (* hashes of tokens, drawn at random                    *)
  Request,         (* bound: requests served at a time                     *)
  None,            (* the absent value                                     *)
  Second,          (* ticks of the clock per second                        *)
  InstanceTtl,     (* config.instance_token_ttl                            *)
  InitialTtl,      (* config.presence_ttl                                  *)
  MaxPresenceTtl,  (* MAX_PRESENCE_TTL_SECONDS                             *)
  PublishTtl,      (* the times to live a publish may ask for, clamped     *)
  MaxInstances,    (* MAX_RUNTIME_INSTANCES_PER_PROFILE                    *)
  RequestTimeout,  (* DEFAULT_REQUEST_TIMEOUT                              *)
  MaxClock         (* bound: of the clock                                  *)

Lease == [presence : Presence, expiresAt : Nat]

ASSUME InstancesAssumption ==
  /\ None \notin Presence \cup Token \cup Lease \cup Nat
  /\ Presence \cap Token = {}
  /\ Second \in Nat \ {0} /\ InstanceTtl \in Nat \ {0}
  /\ MaxPresenceTtl \in Nat
  /\ InitialTtl \in 1..MaxPresenceTtl /\ PublishTtl \subseteq 1..MaxPresenceTtl
  /\ MaxInstances \in Nat /\ RequestTimeout \in Nat /\ MaxClock \in Nat

VARIABLES
  clock,
  instance,      (* instance:<hash>, a lease                               *)
  until,         (* when Redis drops it                                    *)
  binding,       (* presence-instance:<id>, a hash                         *)
  bindingUntil,
  slots,         (* profile-instances:<profile>, the score of each member  *)
  presence,      (* presence:<id>: when Redis drops it, 0 when absent      *)
  req,           (* where a request stands, and its locals                 *)
  known,         (* the tokens clients were given, with their expiresAt    *)
  minted,        (* the ids and tokens drawn so far                        *)
  ended,         (* why a token was deleted                                *)
  closedAt,      (* when the instance of a Presence was closed             *)
  ousted         (* whose slot was pruned or deleted under a living token  *)

redis == <<instance, until, binding, bindingUntil, slots, presence>>
ghosts == <<known, minted, ended, closedAt, ousted>>
vars == <<clock, redis, req, ghosts>>

Label == {"idle", "register", "announce", "rotate", "reply", "close", "publish",
          "clearRead", "clear", "deleteRead", "delete"}

\* token: the one presented, or to delete; fresh: the one drawn.
Task == [at : Label, since : Nat, token : Token \cup {None},
         lease : Lease \cup {None}, fresh : Token \cup {None}]

Rest == [at |-> "idle", since |-> 0, token |-> None, lease |-> None, fresh |-> None]

\* What a request holds at each of its steps.
InHand(t) ==
  /\ t.at \notin {"idle", "deleteRead"} => t.lease \in Lease
  /\ t.at \in {"register", "announce", "rotate", "reply"} => t.fresh \in Token
  /\ t.at \in {"rotate", "close", "deleteRead", "delete"} => t.token \in Token

TypeOK ==
  /\ clock \in Nat
  /\ instance \in [Token -> Lease \cup {None}]
  /\ until \in [Token -> Nat]
  /\ binding \in [Presence -> Token \cup {None}]
  /\ bindingUntil \in [Presence -> Nat]
  /\ slots \in [Presence -> Nat \cup {None}]
  /\ presence \in [Presence -> Nat]
  /\ req \in [Request -> Task]
  /\ \A q \in Request : InHand(req[q])
  /\ known \in [Token -> Nat \cup {None}]
  /\ minted \subseteq Presence \cup Token
  /\ ended \in [Token -> {"none", "rotated", "closed", "undone"}]
  /\ closedAt \in [Presence -> Nat \cup {None}]
  /\ ousted \subseteq Presence

Init ==
  /\ clock = 0
  /\ instance = [h \in Token |-> None]
  /\ until = [h \in Token |-> 0]
  /\ binding = [p \in Presence |-> None]
  /\ bindingUntil = [p \in Presence |-> 0]
  /\ slots = [p \in Presence |-> None]
  /\ presence = [p \in Presence |-> 0]
  /\ req = [q \in Request |-> Rest]
  /\ known = [h \in Token |-> None]
  /\ minted = {}
  /\ ended = [h \in Token |-> "none"]
  /\ closedAt = [p \in Presence |-> None]
  /\ ousted = {}
-----------------------------------------------------------------------------
At(q, label) == req[q].at = label
Go(q, t) == req' = [req EXCEPT ![q] = t]
Done(q) == Go(q, Rest)

\* timestamp(): a score is a whole number of seconds.
Floor(t) == t \div Second

\* Faulty variant: a lease is given up a little early.
ExpiredEarly(lease) == lease.expiresAt <= clock + 1

Expired(lease) == lease.expiresAt <= clock

\* Faulty variant: what should be deleted stays.
BindBeside(h, lease, others) ==
  /\ instance' = [instance EXCEPT ![h] = lease]
  /\ until' = [until EXCEPT ![h] = clock + InstanceTtl]
  /\ binding' = [binding EXCEPT ![lease.presence] = h]
  /\ bindingUntil' = [bindingUntil EXCEPT ![lease.presence] = clock + InstanceTtl]

\* SET ... EX of an instance and of its reverse mapping.
Bind(h, lease, others) ==
  LET p == lease.presence IN
  /\ instance' = [g \in Token |-> IF g = h THEN lease
                                  ELSE IF g \in others THEN None ELSE instance[g]]
  /\ until' = [until EXCEPT ![h] = clock + InstanceTtl]
  /\ binding' = [binding EXCEPT ![p] = h]
  /\ bindingUntil' = [bindingUntil EXCEPT ![p] = clock + InstanceTtl]
-----------------------------------------------------------------------------
(* Registration.  (A request that is refused before it draws an id, as rate *)
(* limited or not authenticated by Minecraft, changes nothing here.)       *)

BeginCreate(q) ==
  /\ At(q, "idle")
  /\ \E p \in Presence \ minted, h \in Token \ minted :
       /\ Go(q, [at |-> "register", since |-> clock, token |-> None,
                 lease |-> [presence |-> p, expiresAt |-> clock + InstanceTtl],
                 fresh |-> h])
       /\ minted' = minted \cup {p, h}
  /\ UNCHANGED <<clock, redis, known, ended, closedAt, ousted>>

\* The slots ZREMRANGEBYSCORE leaves.  (The EXPIRE of the set, a minute
\* beyond the last lease, drops no member that it would not.)
Kept == [p \in Presence |-> IF slots[p] # None /\ slots[p] <= Floor(clock)
                            THEN None ELSE slots[p]]

Taken(s) == {p \in Presence : s[p] # None}

\* ZCARD against the limit.  Faulty variant: one too many.
FullLater == Cardinality(Taken(Kept)) > MaxInstances

Full == Cardinality(Taken(Kept)) >= MaxInstances

\* register_runtime_instance: one script.
RegisterInstance(q) ==
  LET t == req[q]
      p == t.lease.presence
  IN
  /\ At(q, "register")
  /\ IF Full
     THEN /\ slots' = Kept
          /\ Done(q)                             \* INSTANCE_LIMIT_REACHED
          /\ UNCHANGED <<instance, until, binding, bindingUntil>>
     ELSE /\ Bind(t.fresh, t.lease, {binding[p]})
          /\ slots' = [Kept EXCEPT ![p] = Floor(t.lease.expiresAt)]
          /\ Go(q, [t EXCEPT !.at = "announce"])
  /\ UNCHANGED <<clock, presence, ghosts>>

\* put_presence of the initial Presence, and the answer; or the roll back.
\* (Caching the profile and the friends are best effort and not modelled.)
Announce(q) ==
  LET t == req[q]
      announced == [presence EXCEPT ![t.lease.presence] = clock + InitialTtl]
  IN
  /\ At(q, "announce")
  /\ \/ /\ presence' = announced
        /\ known' = [known EXCEPT ![t.fresh] = t.lease.expiresAt]
        /\ Done(q)
     \/ /\ presence' \in {presence, announced}   \* an error, before or after
        /\ Go(q, [t EXCEPT !.at = "deleteRead", !.token = t.fresh])
        /\ UNCHANGED known
  /\ UNCHANGED <<clock, instance, until, binding, bindingUntil, slots,
                 minted, ended, closedAt, ousted>>
-----------------------------------------------------------------------------
(* authenticate_instance, the first step of every other request.           *)

\* A request that presents h and finds a lease that has not expired.
Authenticated(q, h) ==
  /\ At(q, "idle")
  /\ known[h] # None
  /\ instance[h] # None
  /\ ~Expired(instance[h])

\* One that has: delete_runtime_instance, and INVALID_INSTANCE_TOKEN.
FindExpired(q, h) ==
  /\ At(q, "idle")
  /\ known[h] # None
  /\ instance[h] # None
  /\ Expired(instance[h])
  /\ Go(q, [Rest EXCEPT !.at = "deleteRead", !.since = clock, !.token = h])
  /\ UNCHANGED <<clock, redis, ghosts>>

\* close, publish or clear begins.
Begin(q, h, label) ==
  /\ Authenticated(q, h)
  /\ Go(q, [at |-> label, since |-> clock, token |-> h, lease |-> instance[h],
            fresh |-> None])
  /\ UNCHANGED <<clock, redis, ghosts>>

BeginRenew(q, h) ==
  /\ Authenticated(q, h)
  /\ \E g \in Token \ minted :
       /\ Go(q, [at |-> "rotate", since |-> clock, token |-> h,
                 lease |-> [instance[h] EXCEPT !.expiresAt = clock + InstanceTtl],
                 fresh |-> g])
       /\ minted' = minted \cup {g}
  /\ UNCHANGED <<clock, redis, known, ended, closedAt, ousted>>

\* The scripts' comparison: the token presented is still the one in use.
\* Faulty variant: no comparison.
CurrentAny(t) == TRUE

Current(t) == binding[t.lease.presence] = t.token

\* rotate_runtime_instance: one script.  The slot is written whether or not a
\* registration has pruned it in the meantime, and used it.
Rotate(q) ==
  LET t == req[q]
      p == t.lease.presence
  IN
  /\ At(q, "rotate")
  /\ IF ~Current(t)
     THEN Done(q) /\ UNCHANGED <<redis, ended, ousted>>
     ELSE /\ Bind(t.fresh, t.lease, {t.token})
          /\ slots' = [slots EXCEPT ![p] = Floor(t.lease.expiresAt)]
          /\ Go(q, [t EXCEPT !.at = "reply"])
          /\ ended' = [ended EXCEPT ![t.token] = "rotated"]
          /\ ousted' = IF slots[p] = None THEN ousted \cup {p} ELSE ousted
          /\ UNCHANGED presence
  /\ UNCHANGED <<clock, known, minted, closedAt>>

\* The client is given the new token, unless the answer is lost (Cancel).
Reply(q) ==
  /\ At(q, "reply")
  /\ known' = [known EXCEPT ![req[q].fresh] = req[q].lease.expiresAt]
  /\ Done(q)
  /\ UNCHANGED <<clock, redis, minted, ended, closedAt, ousted>>

\* close_runtime_instance: one script.  (What close does after it, to the
\* connection and its sessions, is for the other modules.)
CloseInstance(q) ==
  LET t == req[q]
      p == t.lease.presence
  IN
  /\ At(q, "close")
  /\ IF ~Current(t)
     THEN UNCHANGED <<redis, ended, closedAt>>
     ELSE /\ instance' = [instance EXCEPT ![t.token] = None]
          /\ binding' = [binding EXCEPT ![p] = None]
          /\ presence' = [presence EXCEPT ![p] = 0]
          /\ slots' = [slots EXCEPT ![p] = None]
          /\ ended' = [ended EXCEPT ![t.token] = "closed"]
          /\ closedAt' = [closedAt EXCEPT ![p] = clock]
          /\ UNCHANGED <<until, bindingUntil>>
  /\ Done(q)
  /\ UNCHANGED <<clock, known, minted, ousted>>
-----------------------------------------------------------------------------
(* Presence.                                                               *)

\* put_presence.  (The Presence read before it gives the display text.)
Publish(q, ttl) ==
  /\ At(q, "publish")
  /\ presence' = [presence EXCEPT ![req[q].lease.presence] = clock + ttl]
  /\ Done(q)
  /\ UNCHANGED <<clock, instance, until, binding, bindingUntil, slots, ghosts>>

\* delete_presence: a GET, then MULTI.
ClearRead(q) ==
  LET t == req[q] IN
  /\ At(q, "clearRead")
  /\ IF presence[t.lease.presence] = 0
     THEN Done(q)
     ELSE Go(q, [t EXCEPT !.at = "clear"])
  /\ UNCHANGED <<clock, redis, ghosts>>

Clear(q) ==
  /\ At(q, "clear")
  /\ presence' = [presence EXCEPT ![req[q].lease.presence] = 0]
  /\ Done(q)
  /\ UNCHANGED <<clock, instance, until, binding, bindingUntil, slots, ghosts>>
-----------------------------------------------------------------------------
(* delete_runtime_instance: a GET for the lease, then MULTI.               *)

\* Faulty variant: the lease is not missed when it is gone.
DeleteReadBlindly(q) ==
  /\ At(q, "deleteRead")
  /\ Go(q, [req[q] EXCEPT !.at = "delete", !.lease = instance[req[q].token]])
  /\ UNCHANGED <<clock, redis, ghosts>>

DeleteRead(q) ==
  LET t == req[q] IN
  /\ At(q, "deleteRead")
  /\ IF instance[t.token] = None
     THEN Done(q)
     ELSE Go(q, [t EXCEPT !.at = "delete", !.lease = instance[t.token]])
  /\ UNCHANGED <<clock, redis, ghosts>>

\* The reverse mapping and the slot are deleted whichever token they are for by
\* now; a renewal between the GET and the MULTI leaves its new token without them.
DeleteInstance(q) ==
  LET t == req[q]
      p == t.lease.presence
      renewed == \E h \in Token \ {t.token} : instance[h] # None /\ instance[h].presence = p
  IN
  /\ At(q, "delete")
  /\ instance' = [instance EXCEPT ![t.token] = None]
  /\ binding' = [binding EXCEPT ![p] = None]
  /\ slots' = [slots EXCEPT ![p] = None]
  /\ ended' = [ended EXCEPT ![t.token] =
                 IF known[t.token] = None THEN "undone" ELSE @]
  /\ ousted' = IF renewed THEN ousted \cup {p} ELSE ousted
  /\ Done(q)
  /\ UNCHANGED <<clock, until, bindingUntil, presence, known, minted, closedAt>>
-----------------------------------------------------------------------------
(* The surroundings.                                                       *)

\* Redis answers with an error, TimeoutLayer drops the handler, the client is
\* gone or the server dies: the request goes no further.
Cancel(q) ==
  /\ ~At(q, "idle")
  /\ Done(q)
  /\ UNCHANGED <<clock, redis, ghosts>>

\* No handler is alive beyond RequestTimeout.  Faulty variant: a route
\* outside of TimeoutLayer.
InTimeAny(q) == TRUE

InTime(q) == At(q, "idle") \/ clock < req[q].since + RequestTimeout

\* Time passes; Redis drops what has outlived its time.
Tick ==
  /\ clock < MaxClock
  /\ \A q \in Request : InTime(q)
  /\ clock' = clock + 1
  /\ instance' = [h \in Token |-> IF until[h] <= clock + 1 THEN None ELSE instance[h]]
  /\ binding' = [p \in Presence |-> IF bindingUntil[p] <= clock + 1
                                    THEN None ELSE binding[p]]
  /\ presence' = [p \in Presence |-> IF presence[p] <= clock + 1 THEN 0 ELSE presence[p]]
  /\ UNCHANGED <<until, bindingUntil, slots, req, ghosts>>

Next ==
  \/ \E q \in Request :
       \/ BeginCreate(q) \/ RegisterInstance(q) \/ Announce(q)
       \/ Rotate(q) \/ Reply(q) \/ CloseInstance(q)
       \/ ClearRead(q) \/ Clear(q) \/ DeleteRead(q) \/ DeleteInstance(q)
       \/ Cancel(q)
  \/ \E q \in Request, ttl \in PublishTtl : Publish(q, ttl)
  \/ \E q \in Request, h \in Token :
       \/ FindExpired(q, h) \/ BeginRenew(q, h)
       \/ \E label \in {"close", "publish", "clearRead"} : Begin(q, h, label)
  \/ Tick

Spec == Init /\ [][Next]_vars
-----------------------------------------------------------------------------
(* Properties.                                                             *)

(* Safety: a Presence is authenticated by one token, however renewals of   *)
(* the same token, closures and expiries race.                             *)
OneToken ==
  \A g, h \in Token :
    instance[g] # None /\ instance[h] # None /\ instance[g].presence = instance[h].presence
      => g = h

(* Safety: a token a client was given authenticates until the expiresAt it *)
(* was told, unless the client has renewed or closed it.  What other       *)
(* requests delete, they delete late enough.                               *)
TokenLasts ==
  \A h \in Token :
    known[h] # None /\ ended[h] = "none" /\ clock < known[h] => instance[h] # None

(* Safety: no request that was authenticated before the closure brings a   *)
(* closed instance, or its slot, back.                                     *)
ClosedForGood ==
  \A p \in Presence :
    closedAt[p] # None =>
      /\ binding[p] = None
      /\ slots[p] = None
      /\ \A h \in Token : instance[h] # None => instance[h].presence # p

(* Safety: a publish that overtakes the closure leaves a Presence behind,  *)
(* but not for longer than a request and a Presence may live.              *)
PresenceEnds ==
  \A p \in Presence :
    closedAt[p] # None /\ clock >= closedAt[p] + RequestTimeout + MaxPresenceTtl
      => presence[p] = 0

\* The Presences some token authenticates, and whose lease has not begun its
\* last second.
Leased == {p \in Presence : \E h \in Token : /\ instance[h] # None
                                             /\ instance[h].presence = p
                                             /\ Floor(clock) < Floor(instance[h].expiresAt)}

(* Safety: registrations that race, are rolled back, cancelled or renewed  *)
(* keep the limit on a profile's instances, but for two kinds that count   *)
(* as instances and have lost their slot: one renewed in the last second   *)
(* of its lease, when a registration had pruned its slot; and one whose    *)
(* renewal was overtaken by the deletion of its expired token, which frees *)
(* the slot of the instance that goes on living.  The limit is exceeded by *)
(* no more than those.                                                     *)
LimitUnlessOusted == Cardinality(Leased \ ousted) <= MaxInstances

\* The token of a Presence, and what is drawn but not yet used.
TokenOf(leases, p) ==
  IF \E h \in Token : leases[h] # None /\ leases[h].presence = p
  THEN CHOOSE h \in Token : leases[h] # None /\ leases[h].presence = p
  ELSE None
Unused(x) ==
  x \in minted =>
    \E q \in Request : \/ At(q, "register") /\ x \in {req[q].lease.presence, req[q].fresh}
                       \/ At(q, "rotate") /\ x = req[q].fresh

Life == INSTANCE TokenLife WITH
  NoToken <- None,
  current <- [p \in Presence |-> TokenOf(instance, p)],
  ids <- {p \in Presence : Unused(p)},
  tokens <- {h \in Token : Unused(h)}

(* Refinement: whatever requests race, fail or are dropped, the keys in    *)
(* Redis change like the tokens of TokenLife: a registration issues one    *)
(* for a new Presence, a renewal replaces the one that is there, and       *)
(* nothing that had its time comes back.                                   *)
TokensLive == Life!Spec

(* Safety, as documented: closing an instance removes its Presence.        *)
PresenceRemoved == \A p \in Presence : closedAt[p] # None => presence[p] = 0

(* Safety, as documented: the reverse mapping leads to the token in use.   *)
MappingKept ==
  \A h \in Token :
    instance[h] # None => binding[instance[h].presence] = h
=============================================================================
