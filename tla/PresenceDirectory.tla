------------------------- MODULE PresenceDirectory -------------------------
(***************************************************************************)
(* The Presences of one profile in Redis, and the index that finds them:   *)
(* a sorted set of their ids by expiry, with a time to live of its own.    *)
(* Publishes are counted, and refused beyond a rate.  Publishing, clearing *)
(* and reading take several awaited commands each, between which the       *)
(* commands of others run and time passes.                                 *)
(***************************************************************************)
EXTENDS Naturals

CONSTANTS
  Presence,        (* ids of the instances of the profile                  *)
  Request,         (* bound: requests served at a time                     *)
  None,            (* the absent value                                     *)
  Second,          (* ticks of the clock per second                        *)
  PublishTtl,      (* the times to live a publish may ask for, clamped     *)
  Slack,           (* how much longer the index is to live: 60 seconds     *)
  RequestTimeout,  (* DEFAULT_REQUEST_TIMEOUT                              *)
  Window,          (* PRESENCE_PUBLISH_WINDOW                              *)
  Limit,           (* PRESENCE_PUBLISH_LIMIT_PER_WINDOW                    *)
  MaxClock         (* bound: of the clock                                  *)

ASSUME DirectoryAssumption ==
  /\ Second \in Nat \ {0} /\ \A ttl \in PublishTtl : ttl \in Nat /\ ttl >= Second
  /\ Slack \in Nat /\ RequestTimeout \in Nat
  /\ Window \in Nat \ {0} /\ Limit \in Nat \ {0} /\ MaxClock \in Nat
  /\ None \notin Presence

VARIABLES
  clock,
  until,         (* presence:<id>: when Redis drops it, 0 when absent      *)
  score,         (* profile-presences:<profile>: 0 for who is no member    *)
  indexUntil,    (* when Redis drops it                                    *)
  count,         (* rate-limit:presence-publish:<id>, 0 when absent        *)
  countUntil,    (* when Redis drops it                                    *)
  req,           (* where a request stands, and its locals                 *)
  shortened,     (* Presences that another publish let the index end before *)
  dropped        (* stored Presences whose id a reader removed             *)

stored == <<until, score, indexUntil>>
buckets == <<count, countUntil>>
ghosts == <<shortened, dropped>>
vars == <<clock, stored, buckets, req, ghosts>>

Label == {"idle", "put", "clear", "range", "get", "drop", "answer"}

\* stamp: the reader's time; ids: those it has still to read; gone: those that
\* were not stored and listed all the time since it began (a ghost).
Locals == [at : Label, since : Nat, presence : Presence \cup {None}, stamp : Nat,
           ids : SUBSET Presence, found : SUBSET Presence, gone : SUBSET Presence]

Rest == [at |-> "idle", since |-> 0, presence |-> None, stamp |-> 0,
         ids |-> {}, found |-> {}, gone |-> {}]

TypeOK ==
  /\ clock \in Nat
  /\ until \in [Presence -> Nat]
  /\ score \in [Presence -> Nat]
  /\ indexUntil \in Nat
  /\ count \in [Presence -> 0..(Limit + 1)]
  /\ countUntil \in [Presence -> Nat]
  /\ req \in [Request -> Locals]
  /\ \A q \in Request : req[q].at \in {"put", "clear", "drop"} => req[q].presence \in Presence
  /\ shortened \subseteq Presence
  /\ dropped \subseteq Presence

Init ==
  /\ clock = 0
  /\ until = [p \in Presence |-> 0]
  /\ score = [p \in Presence |-> 0]
  /\ indexUntil = 0
  /\ count = [p \in Presence |-> 0]
  /\ countUntil = [p \in Presence |-> 0]
  /\ req = [q \in Request |-> Rest]
  /\ shortened = {}
  /\ dropped = {}
-----------------------------------------------------------------------------
At(q, label) == req[q].at = label
Floor(t) == t \div Second
Stored(p) == until[p] # 0
Reading(locals) == locals.at \in {"range", "get", "drop", "answer"}

\* The Presences a reader that began at now need not find: those it could not,
\* were it to look after this step.
Missed(now) == {p \in Presence : until'[p] = 0 \/ score'[p] <= now}

\* Every step is noted down for the readers.
Watch(locals) ==
  req' = [q \in Request |->
            LET l == locals[q]
            IN  IF Reading(l) THEN [l EXCEPT !.gone = l.gone \cup Missed(l.stamp)] ELSE l]

Go(q, locals) == Watch([req EXCEPT ![q] = locals])
Done(q) == Go(q, Rest)
-----------------------------------------------------------------------------
(* Publishing.                                                             *)

\* Faulty: INCR alone, as when EXPIRE were a command of its own that got lost.
IncrementOnly(p) ==
  /\ count' = [count EXCEPT ![p] = IF @ > Limit THEN @ ELSE @ + 1]
  /\ UNCHANGED countUntil

\* increment_rate_limit, one script: INCR, and EXPIRE for the first.  A count
\* above the limit is as good as any other.
Increment(p) ==
  /\ count' = [count EXCEPT ![p] = IF @ > Limit THEN @ ELSE @ + 1]
  /\ countUntil' = [countUntil EXCEPT ![p] = IF count[p] = 0 THEN clock + Window ELSE @]

\* enforce_publish_rate_limit.
Refused(p) == count'[p] > Limit

\* publish, up to the command that stores: authentication, the rate limit, and
\* the display text of the Presence in place.  (What the latter two await is
\* part of the delay that the command may have.)
BeginPublish(q, p) ==
  /\ At(q, "idle")
  /\ Increment(p)
  /\ UNCHANGED <<clock, stored, ghosts>>
  /\ IF Refused(p)
       THEN UNCHANGED req
       ELSE Go(q, [Rest EXCEPT !.at = "put", !.since = clock, !.presence = p])

\* Faulty: the same for every Presence.
IndexTtlFixed(ttl) == Slack

\* The index is to outlive the Presence put last.
IndexTtl(ttl) == ttl + Slack

\* put_presence: SET, ZADD and EXPIRE of the index, in one MULTI; now is when it
\* was put together.
Put(q, ttl, now) ==
  LET p == req[q].presence
      end == clock + IndexTtl(ttl)
  IN
  /\ At(q, "put") /\ now \in (req[q].since)..clock
  /\ until' = [until EXCEPT ![p] = clock + ttl]
  /\ score' = [score EXCEPT ![p] = Floor(now + ttl)]
  /\ indexUntil' = end
  /\ shortened' = (shortened \cup {o \in Presence : until[o] > end}) \ {p}
  /\ dropped' = dropped \ {p}
  /\ UNCHANGED <<clock, buckets>>
  /\ Done(q)
-----------------------------------------------------------------------------
(* Clearing.  (The script that closes an instance does the same at once.)    *)

\* delete_presence: a GET, then MULTI.
BeginClear(q, p) ==
  /\ At(q, "idle")
  /\ Stored(p)
  /\ UNCHANGED <<clock, stored, buckets, ghosts>>
  /\ Go(q, [Rest EXCEPT !.at = "clear", !.since = clock, !.presence = p])

\* Faulty: the id stays in the index.
ClearValue(q) ==
  LET p == req[q].presence IN
  /\ At(q, "clear")
  /\ until' = [until EXCEPT ![p] = 0]
  /\ UNCHANGED <<clock, score, indexUntil, buckets, ghosts>>
  /\ Done(q)

Clear(q) ==
  LET p == req[q].presence IN
  /\ At(q, "clear")
  /\ until' = [until EXCEPT ![p] = 0]
  /\ score' = [score EXCEPT ![p] = 0]
  /\ UNCHANGED <<clock, indexUntil, buckets, ghosts>>
  /\ Done(q)
-----------------------------------------------------------------------------
(* presences_for_profile.                                                  *)

\* The members ZREMRANGEBYSCORE removes.
Due(now) == {p \in Presence : score[p] # 0 /\ score[p] <= now}

\* Those ZRANGEBYSCORE finds.
Listed(now) == {p \in Presence : score[p] >= now + 1}

Sweep(q) ==
  LET now == Floor(clock) IN
  /\ At(q, "idle")
  /\ score' = [p \in Presence |-> IF p \in Due(now) THEN 0 ELSE score[p]]
  /\ UNCHANGED <<clock, until, indexUntil, buckets, ghosts>>
  /\ Go(q, [Rest EXCEPT !.at = "range", !.since = clock, !.stamp = now])

Continue(q, locals) ==
  Go(q, [locals EXCEPT !.at = IF locals.ids = {} THEN "answer" ELSE "get"])

Range(q) ==
  /\ At(q, "range")
  /\ UNCHANGED <<clock, stored, buckets, ghosts>>
  /\ Continue(q, [req[q] EXCEPT !.ids = Listed(req[q].stamp)])

\* Faulty: the reader ends at an id that is not found.
GetOrStop(q, p) ==
  LET left == [req[q] EXCEPT !.ids = @ \ {p}] IN
  /\ At(q, "get") /\ p \in req[q].ids
  /\ UNCHANGED <<clock, stored, buckets, ghosts>>
  /\ IF Stored(p)
       THEN Continue(q, [left EXCEPT !.found = @ \cup {p}])
       ELSE Continue(q, [left EXCEPT !.ids = {}])

\* Faulty: the id that was not found is not the one to remove.
GetUnnamed(q, p) ==
  LET left == [req[q] EXCEPT !.ids = @ \ {p}] IN
  /\ At(q, "get") /\ p \in req[q].ids
  /\ UNCHANGED <<clock, stored, buckets, ghosts>>
  /\ IF Stored(p)
       THEN Continue(q, [left EXCEPT !.found = @ \cup {p}])
       ELSE Go(q, [left EXCEPT !.at = "drop"])

\* GET of one of them, and ZREM of the id when it finds nothing.
Get(q, p) ==
  LET left == [req[q] EXCEPT !.ids = @ \ {p}] IN
  /\ At(q, "get") /\ p \in req[q].ids
  /\ UNCHANGED <<clock, stored, buckets, ghosts>>
  /\ IF Stored(p)
       THEN Continue(q, [left EXCEPT !.found = @ \cup {p}])
       ELSE Go(q, [left EXCEPT !.at = "drop", !.presence = p])

Drop(q) ==
  LET p == req[q].presence IN
  /\ At(q, "drop")
  /\ score' = [score EXCEPT ![p] = 0]
  /\ dropped' = IF Stored(p) THEN dropped \cup {p} ELSE dropped
  /\ UNCHANGED <<clock, until, indexUntil, buckets, shortened>>
  /\ Continue(q, req[q])

Answer(q) ==
  /\ At(q, "answer")
  /\ UNCHANGED <<clock, stored, buckets, ghosts>>
  /\ Done(q)
-----------------------------------------------------------------------------
(* The surroundings.                                                       *)

\* A command fails, the request is dropped or the server dies.
Cancel(q) ==
  /\ ~ At(q, "idle")
  /\ UNCHANGED <<clock, stored, buckets, ghosts>>
  /\ Done(q)

InTime(q) == At(q, "idle") \/ clock < req[q].since + RequestTimeout

\* Time passes; Redis drops what has outlived its time.
Tick ==
  LET now == clock + 1 IN
  /\ clock < MaxClock
  /\ \A q \in Request : InTime(q)
  /\ clock' = now
  /\ until' = [p \in Presence |-> IF until[p] <= now THEN 0 ELSE until[p]]
  /\ score' = [p \in Presence |-> IF indexUntil <= now THEN 0 ELSE score[p]]
  /\ indexUntil' = IF indexUntil <= now THEN 0 ELSE indexUntil
  /\ count' = [p \in Presence |-> IF countUntil[p] <= now THEN 0 ELSE count[p]]
  /\ countUntil' = [p \in Presence |-> IF countUntil[p] <= now THEN 0 ELSE countUntil[p]]
  /\ UNCHANGED ghosts
  /\ Watch(req)

Next ==
  \/ \E q \in Request, p \in Presence : BeginPublish(q, p) \/ BeginClear(q, p) \/ Get(q, p)
  \/ \E q \in Request, ttl \in PublishTtl, now \in 0..clock : Put(q, ttl, now)
  \/ \E q \in Request : Clear(q) \/ Sweep(q) \/ Range(q) \/ Drop(q) \/ Answer(q) \/ Cancel(q)
  \/ Tick

Spec == Init /\ [][Next]_vars
-----------------------------------------------------------------------------
(* Properties.                                                             *)

\* An id whose expiry in the index has not come belongs to a stored Presence,
\* however late put_presence reaches Redis: readers find what they look for.
IndexSound == \A p \in Presence : score[p] > Floor(clock) => Stored(p)

\* A Presence is listed for as long as it is stored, but for its last moments,
\* unless a publish with a short time to live has let the index lapse, or a
\* reader that missed it earlier has removed its id.
ListedUnlessLapsed ==
  \A p \in Presence :
    until[p] > clock + Second + RequestTimeout /\ p \notin dropped \cup shortened
      => score[p] # 0

\* A reader returns every Presence that is listed from its first command to
\* its last, whatever else it finds missing on the way.
ReadComplete ==
  \A q \in Request : At(q, "answer") => Presence \ req[q].gone \subseteq req[q].found

\* Who was refused is not refused for ever: every counter is about to expire.
BucketLapses ==
  \A p \in Presence : count[p] # 0 => countUntil[p] \in (clock + 1)..(clock + Window)

\* As documented: every active instance is found.  (It need not be, see the
\* run.)
Listing ==
  \A p \in Presence : until[p] > clock + Second + RequestTimeout => score[p] # 0
=============================================================================
