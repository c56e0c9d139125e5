---------------------- MODULE PresenceDirectoryProofs ----------------------
(***************************************************************************)
(* That the index of a profile's Presences is sound, that it lists who is  *)
(* stored, that readers miss nothing that was there all the time, and that *)
(* the counters of the rate limit expire: for every number of Presences    *)
(* and requests, and whatever the times to live.                           *)
(***************************************************************************)
EXTENDS PresenceDirectory, TLAPS

-----------------------------------------------------------------------------
(* The inductive invariant.                                                *)

\* No request is older than the timeout allows.
Timely ==
  \A q \in Request :
    ~ At(q, "idle") => req[q].since <= clock /\ clock <= req[q].since + RequestTimeout

\* The expiry in the index is that of the Presence, in whole seconds, but for
\* the time put_presence took to reach Redis.
Scored ==
  \A p \in Presence :
    Stored(p) /\ score[p] # 0 =>
      \E end \in Nat : /\ score[p] = Floor(end)
                       /\ end <= until[p] /\ until[p] <= end + RequestTimeout

\* The index outlives whom no publish has let it end before.
Outlives ==
  \A p \in Presence : Stored(p) /\ p \notin shortened => until[p] <= indexUntil

\* A reader has found, or has still to read, all but those it may miss.
Gathered(locals) ==
  /\ locals.at \in {"get", "drop", "answer"} =>
       Presence \ locals.gone \subseteq locals.found \cup locals.ids
  /\ locals.at = "answer" => locals.ids = {}

Missing(now) == {p \in Presence : until[p] = 0 \/ score[p] <= now}

Readers ==
  \A q \in Request :
    /\ Gathered(req[q])
    /\ Reading(req[q]) => Missing(req[q].stamp) \subseteq req[q].gone

Index == IndexSound /\ Scored /\ Outlives /\ ListedUnlessLapsed

Inv == TypeOK /\ Timely /\ Index /\ Readers /\ BucketLapses
-----------------------------------------------------------------------------
(* Whole seconds.                                                          *)

LEMMA FloorIsNat ==
  ASSUME NEW t \in Nat
  PROVE  Floor(t) \in Nat
BY DirectoryAssumption DEF Floor

LEMMA FloorBounds ==
  ASSUME NEW t \in Nat
  PROVE  Second * Floor(t) <= t /\ t < Second * Floor(t) + Second
BY DirectoryAssumption DEF Floor

LEMMA FloorMonotone ==
  ASSUME NEW s \in Nat, NEW t \in Nat, s <= t
  PROVE  Floor(s) <= Floor(t)
BY DirectoryAssumption DEF Floor

LEMMA FloorLater ==
  ASSUME NEW s \in Nat, NEW t \in Nat, s + Second <= t
  PROVE  Floor(s) < Floor(t)
BY DirectoryAssumption DEF Floor

LEMMA FloorPositive ==
  ASSUME NEW t \in Nat, Second <= t
  PROVE  Floor(t) # 0
BY DirectoryAssumption DEF Floor
-----------------------------------------------------------------------------
(* What the steps have in common.                                          *)

\* A step only adds to what a request knows about the Presences it may miss.
LEMMA Watching ==
  ASSUME NEW locals, locals \in [Request -> Locals], Watch(locals),
         \A q \in Request : Gathered(locals[q])
  PROVE  /\ req' \in [Request -> Locals]
         /\ \A q \in Request : /\ req'[q].at = locals[q].at
                              /\ req'[q].since = locals[q].since
                              /\ req'[q].presence = locals[q].presence
         /\ Readers'
<1>1. ASSUME NEW q \in Request
      PROVE  /\ req'[q] \in Locals
             /\ req'[q].at = locals[q].at
             /\ req'[q].since = locals[q].since
             /\ req'[q].presence = locals[q].presence
             /\ req'[q].stamp = locals[q].stamp
             /\ req'[q].ids = locals[q].ids
             /\ req'[q].found = locals[q].found
             /\ locals[q].gone \subseteq req'[q].gone
             /\ Reading(locals[q]) => Missed(locals[q].stamp) \subseteq req'[q].gone
  <2> DEFINE l == locals[q]
             more == l.gone \cup Missed(l.stamp)
  <2>1. l \in Locals
    OBVIOUS
  <2>2. req'[q] = IF Reading(l) THEN [l EXCEPT !.gone = more] ELSE l
    BY DEF Watch
  <2>3. more \subseteq Presence
    BY <2>1 DEF Missed, Locals
  <2> QED
    BY <2>1, <2>2, <2>3 DEF Locals, Reading
<1>2. req' \in [Request -> Locals]
  <2>1. req' = [q \in Request |-> req'[q]]
    BY DEF Watch
  <2> QED
    BY <1>1, <2>1
<1>3. \A n : Missed(n) = Missing(n)'
  BY DEF Missed, Missing
<1>4. ASSUME NEW q \in Request
      PROVE  /\ Gathered(req[q])'
             /\ (Reading(req[q]) => Missing(req[q].stamp) \subseteq req[q].gone)'
  <2>1. Gathered(locals[q])
    OBVIOUS
  <2> QED
    BY <1>1, <1>3, <2>1 DEF Gathered, Reading
<1> QED
  BY <1>1, <1>2, <1>4 DEF Readers

\* A step of one request, which leaves the clock: the others stay as they were.
LEMMA Going ==
  ASSUME TypeOK, Timely, Readers, NEW q \in Request, NEW locals,
         locals \in Locals, Gathered(locals), Go(q, locals), clock' = clock,
         locals.at # "idle" =>
           locals.since <= clock /\ clock <= locals.since + RequestTimeout,
         locals.at \in {"put", "clear", "drop"} => locals.presence \in Presence
  PROVE  /\ req' \in [Request -> Locals]
         /\ \A r \in Request :
              req'[r].at \in {"put", "clear", "drop"} => req'[r].presence \in Presence
         /\ Timely'
         /\ Readers'
<1> DEFINE all == [req EXCEPT ![q] = locals]
<1>1. req \in [Request -> Locals]
  BY DEF TypeOK
<1>2. all \in [Request -> Locals] /\ Watch(all)
  BY <1>1 DEF Go
<1>3. ASSUME NEW r \in Request
      PROVE  /\ Gathered(all[r])
             /\ all[r].at # "idle" =>
                  all[r].since <= clock /\ clock <= all[r].since + RequestTimeout
             /\ all[r].at \in {"put", "clear", "drop"} => all[r].presence \in Presence
  <2>1. CASE r = q
    <3>1. all[r] = locals
      BY <1>1, <2>1
    <3> QED
      BY <3>1
  <2>2. CASE r # q
    <3>1. all[r] = req[r]
      BY <1>1, <2>2
    <3> QED
      BY <3>1 DEF TypeOK, Timely, Readers, At
  <2> QED
    BY <2>1, <2>2
<1> HIDE DEF all
<1>4. /\ req' \in [Request -> Locals]
      /\ \A r \in Request : /\ req'[r].at = all[r].at
                           /\ req'[r].since = all[r].since
                           /\ req'[r].presence = all[r].presence
      /\ Readers'
  BY <1>2, <1>3, Watching
<1> QED
  BY <1>3, <1>4 DEF Timely, At

\* A request that is over.
LEMMA Resting == Rest \in Locals /\ Gathered(Rest) /\ Rest.at = "idle"
BY DEF Rest, Locals, Label, Gathered

\* What the index promises does not change while Redis and the clock do not.
LEMMA IndexRests ==
  ASSUME Index, UNCHANGED <<clock, stored, ghosts>>
  PROVE  Index'
BY DEF Index, IndexSound, Scored, Outlives, ListedUnlessLapsed, Stored, Floor, stored, ghosts

LEMMA BucketsRest ==
  ASSUME BucketLapses, UNCHANGED <<clock, buckets>>
  PROVE  BucketLapses'
BY DEF BucketLapses, buckets

\* Nor when Presences are removed from it together with what it lists.
LEMMA Removing ==
  ASSUME Index, NEW p \in Presence, UNCHANGED <<clock, indexUntil, ghosts>>, TypeOK,
         until' = [until EXCEPT ![p] = 0], score' = [score EXCEPT ![p] = 0]
  PROVE  Index'
<1>1. /\ until' \in [Presence -> Nat] /\ until'[p] = 0
      /\ score' \in [Presence -> Nat] /\ score'[p] = 0
      /\ \A o \in Presence \ {p} : until'[o] = until[o] /\ score'[o] = score[o]
      /\ clock \in Nat
  BY DEF TypeOK
<1>2. IndexSound' 
  BY <1>1, FloorIsNat DEF Index, IndexSound, Stored, Floor
<1>3. Scored' /\ Outlives'
  BY <1>1 DEF Index, Scored, Outlives, Stored, Floor, ghosts
<1>4. ListedUnlessLapsed'
  <2>1. ASSUME NEW o \in Presence, until'[o] > clock + Second + RequestTimeout
        PROVE  o # p
    BY <1>1, <2>1, DirectoryAssumption
  <2> QED
    BY <1>1, <2>1 DEF Index, ListedUnlessLapsed, ghosts
<1> QED
  BY <1>2, <1>3, <1>4 DEF Index
-----------------------------------------------------------------------------
(* The initial state and the steps.                                        *)

LEMMA Starts == Init => Inv
<1> SUFFICES ASSUME Init PROVE Inv
  OBVIOUS
<1>1. TypeOK
  BY Resting, DirectoryAssumption DEF Init, TypeOK, Rest
<1>2. Timely /\ Readers
  BY Resting DEF Init, Timely, Readers, At, Reading
<1>3. Index
  BY FloorIsNat, DirectoryAssumption
    DEF Init, Index, IndexSound, Scored, Outlives, ListedUnlessLapsed, Stored
<1>4. BucketLapses
  BY DEF Init, BucketLapses
<1> QED
  BY <1>1, <1>2, <1>3, <1>4 DEF Inv

\* The counter expires by itself from the first increment on.
LEMMA Counting ==
  ASSUME TypeOK, BucketLapses, NEW p \in Presence, Increment(p), clock' = clock
  PROVE  /\ BucketLapses'
         /\ count' \in [Presence -> 0..(Limit + 1)]
         /\ countUntil' \in [Presence -> Nat]
<1>1. /\ clock \in Nat /\ Window \in Nat \ {0} /\ Limit \in Nat
      /\ count \in [Presence -> 0..(Limit + 1)] /\ countUntil \in [Presence -> Nat]
  BY DirectoryAssumption DEF TypeOK
<1>2. count' = [count EXCEPT ![p] = IF count[p] > Limit THEN count[p] ELSE count[p] + 1]
  BY DEF Increment
<1>3. countUntil' = [countUntil EXCEPT ![p] = IF count[p] = 0 THEN clock + Window
                                                              ELSE countUntil[p]]
  BY DEF Increment
<1>4. count' \in [Presence -> 0..(Limit + 1)] /\ countUntil' \in [Presence -> Nat]
  BY <1>1, <1>2, <1>3
<1> QED
  BY <1>1, <1>2, <1>3, <1>4 DEF BucketLapses

LEMMA BeginPublishKeeps ==
  ASSUME Inv, NEW q \in Request, NEW p \in Presence, BeginPublish(q, p)
  PROVE  Inv'
<1> DEFINE locals == [Rest EXCEPT !.at = "put", !.since = clock, !.presence = p]
<1>1. TypeOK /\ Timely /\ Index /\ Readers /\ BucketLapses
  BY DEF Inv
<1>2. /\ UNCHANGED <<clock, stored, ghosts>> /\ Increment(p)
      /\ Go(q, locals) \/ UNCHANGED req
  BY DEF BeginPublish
<1>3. /\ BucketLapses'
      /\ count' \in [Presence -> 0..(Limit + 1)]
      /\ countUntil' \in [Presence -> Nat]
  BY <1>1, <1>2, Counting
<1>4. /\ Timely' /\ Readers' /\ req' \in [Request -> Locals]
      /\ \A r \in Request :
           req'[r].at \in {"put", "clear", "drop"} => req'[r].presence \in Presence
  <2>1. CASE Go(q, locals)
    <3>1. /\ locals \in Locals /\ Gathered(locals)
          /\ locals.at = "put" /\ locals.since = clock /\ locals.presence = p
      BY <1>1 DEF Rest, Locals, Label, Gathered, TypeOK
    <3>2. clock <= clock + RequestTimeout /\ clock <= clock
      BY <1>1, DirectoryAssumption DEF TypeOK
    <3> HIDE DEF locals
    <3> QED
      BY <1>1, <1>2, <2>1, <3>1, <3>2, Going
  <2>2. CASE UNCHANGED req
    BY <1>1, <1>2, <2>2
      DEF TypeOK, Timely, Readers, At, Reading, Gathered, Missing, stored
  <2> QED
    BY <1>2, <2>1, <2>2
<1>5. TypeOK'
  BY <1>1, <1>2, <1>3, <1>4 DEF TypeOK, stored, ghosts
<1> QED
  BY <1>1, <1>2, <1>3, <1>4, <1>5, IndexRests DEF Inv

LEMMA BeginClearKeeps ==
  ASSUME Inv, NEW q \in Request, NEW p \in Presence, BeginClear(q, p)
  PROVE  Inv'
<1> DEFINE locals == [Rest EXCEPT !.at = "clear", !.since = clock, !.presence = p]
<1>1. /\ TypeOK /\ Timely /\ Index /\ Readers /\ BucketLapses
      /\ req[q] \in Locals
  BY DEF Inv, TypeOK
<1>2. locals \in Locals /\ Gathered(locals)
  BY <1>1 DEF Rest, Locals, Label, Gathered, TypeOK
<1>3. /\ locals.at # "idle" =>
           locals.since <= clock /\ clock <= locals.since + RequestTimeout
      /\ locals.at \in {"put", "clear", "drop"} => locals.presence \in Presence
  BY <1>1, DirectoryAssumption DEF TypeOK, Rest
<1>4. Go(q, locals) /\ UNCHANGED <<clock, stored, buckets, ghosts>>
  BY DEF BeginClear
<1> HIDE DEF locals
<1>5. Timely' /\ Readers' /\ TypeOK'
  BY <1>1, <1>2, <1>3, <1>4, Going DEF TypeOK, stored, buckets, ghosts
<1> QED
  BY <1>1, <1>4, <1>5, IndexRests, BucketsRest DEF Inv

LEMMA RangeKeeps ==
  ASSUME Inv, NEW q \in Request, Range(q)
  PROVE  Inv'
<1> DEFINE locals == [req[q] EXCEPT !.ids = Listed(req[q].stamp),
                              !.at = IF Listed(req[q].stamp) = {} THEN "answer" ELSE "get"]
<1>1. /\ TypeOK /\ Timely /\ Index /\ Readers /\ BucketLapses
      /\ req[q] \in Locals
  BY DEF Inv, TypeOK
<1>2. locals \in Locals /\ Gathered(locals)
  <2>1. Missing(req[q].stamp) \subseteq req[q].gone
    BY <1>1 DEF Range, At, Readers, Reading
  <2>2. /\ Listed(req[q].stamp) \subseteq Presence
        /\ Presence \ Missing(req[q].stamp) \subseteq Listed(req[q].stamp)
    BY <1>1 DEF Listed, Missing, TypeOK, Locals
  <2> QED
    BY <1>1, <2>1, <2>2 DEF Locals, Label, Gathered
<1>3. /\ locals.at # "idle" =>
           locals.since <= clock /\ clock <= locals.since + RequestTimeout
      /\ locals.at \in {"put", "clear", "drop"} => locals.presence \in Presence
  BY <1>1 DEF Timely, At, Locals, Range
<1>4. Go(q, locals) /\ UNCHANGED <<clock, stored, buckets, ghosts>>
  BY <1>1 DEF Range, Continue, Locals
<1> HIDE DEF locals
<1>5. Timely' /\ Readers' /\ TypeOK'
  BY <1>1, <1>2, <1>3, <1>4, Going DEF TypeOK, stored, buckets, ghosts
<1> QED
  BY <1>1, <1>4, <1>5, IndexRests, BucketsRest DEF Inv

LEMMA GetKeeps ==
  ASSUME Inv, NEW q \in Request, NEW p \in Presence, Get(q, p)
  PROVE  Inv'
<1> DEFINE left == req[q].ids \ {p}
           next == IF left = {} THEN "answer" ELSE "get"
           locals == IF Stored(p)
                       THEN [req[q] EXCEPT !.ids = left, !.found = req[q].found \cup {p},
                                           !.at = next]
                       ELSE [req[q] EXCEPT !.ids = left, !.at = "drop", !.presence = p]
<1>1. /\ TypeOK /\ Timely /\ Index /\ Readers /\ BucketLapses
      /\ req[q] \in Locals /\ req[q].at = "get"
  BY DEF Inv, TypeOK, Get, At
<1>2. locals \in Locals /\ Gathered(locals)
  <2>1. /\ Missing(req[q].stamp) \subseteq req[q].gone
        /\ Presence \ req[q].gone \subseteq req[q].found \cup req[q].ids
    BY <1>1 DEF Readers, Reading, Gathered
  <2>2. ~ Stored(p) => p \in req[q].gone
    BY <2>1 DEF Stored, Missing
  <2>3. locals \in Locals
    BY <1>1 DEF Locals, Label
  <2>4. /\ locals.ids = left /\ locals.gone = req[q].gone
        /\ locals.found = IF Stored(p) THEN req[q].found \cup {p} ELSE req[q].found
        /\ locals.at = "answer" => left = {}
    BY <1>1 DEF Locals
  <2> QED
    BY <2>1, <2>2, <2>3, <2>4 DEF Gathered
<1>3. /\ locals.at # "idle" =>
           locals.since <= clock /\ clock <= locals.since + RequestTimeout
      /\ locals.at \in {"put", "clear", "drop"} => locals.presence \in Presence
  BY <1>1 DEF Timely, At, Locals
<1>4. Go(q, locals) /\ UNCHANGED <<clock, stored, buckets, ghosts>>
  <2>1. CASE Stored(p)
    <3>1. locals = [[[req[q] EXCEPT !.ids = left] EXCEPT !.found = req[q].found \cup {p}]
                      EXCEPT !.at = next]
      BY <1>1, <2>1 DEF Locals
    <3> QED
      BY <1>1, <2>1, <3>1 DEF Get, Continue, Locals
  <2>2. CASE ~ Stored(p)
    BY <1>1, <2>2 DEF Get, Locals
  <2> QED
    BY <2>1, <2>2
<1> HIDE DEF locals
<1>5. Timely' /\ Readers' /\ TypeOK'
  BY <1>1, <1>2, <1>3, <1>4, Going DEF TypeOK, stored, buckets, ghosts
<1> QED
  BY <1>1, <1>4, <1>5, IndexRests, BucketsRest DEF Inv

LEMMA AnswerKeeps ==
  ASSUME Inv, NEW q \in Request, Answer(q)
  PROVE  Inv'
<1>1. TypeOK /\ Timely /\ Index /\ Readers /\ BucketLapses
  BY DEF Inv
<1>2. Done(q) /\ UNCHANGED <<clock, stored, buckets, ghosts>>
  BY DEF Answer
<1>3. Timely' /\ Readers' /\ TypeOK'
  BY <1>1, <1>2, Resting, Going DEF Done, TypeOK, Rest, stored, buckets, ghosts
<1> QED
  BY <1>1, <1>2, <1>3, IndexRests, BucketsRest DEF Inv

LEMMA CancelKeeps ==
  ASSUME Inv, NEW q \in Request, Cancel(q)
  PROVE  Inv'
<1>1. TypeOK /\ Timely /\ Index /\ Readers /\ BucketLapses
  BY DEF Inv
<1>2. Done(q) /\ UNCHANGED <<clock, stored, buckets, ghosts>>
  BY DEF Cancel
<1>3. Timely' /\ Readers' /\ TypeOK'
  BY <1>1, <1>2, Resting, Going DEF Done, TypeOK, Rest, stored, buckets, ghosts
<1> QED
  BY <1>1, <1>2, <1>3, IndexRests, BucketsRest DEF Inv

LEMMA ClearKeeps ==
  ASSUME Inv, NEW q \in Request, Clear(q)
  PROVE  Inv'
<1> DEFINE p == req[q].presence
<1>1. TypeOK /\ Timely /\ Index /\ Readers /\ BucketLapses /\ p \in Presence
  BY DEF Inv, TypeOK, Clear, At
<1>2. /\ until' = [until EXCEPT ![p] = 0] /\ score' = [score EXCEPT ![p] = 0]
      /\ UNCHANGED <<clock, indexUntil, buckets, ghosts>> /\ Done(q)
  BY DEF Clear
<1> HIDE DEF p
<1>3. /\ Timely' /\ Readers' /\ req' \in [Request -> Locals]
      /\ \A r \in Request :
           req'[r].at \in {"put", "clear", "drop"} => req'[r].presence \in Presence
  BY <1>1, <1>2, Resting, Going DEF Done, Rest
<1>4. TypeOK'
  BY <1>1, <1>2, <1>3 DEF TypeOK, buckets, ghosts
<1> QED
  BY <1>1, <1>2, <1>3, <1>4, Removing, BucketsRest DEF Inv

LEMMA SweepKeeps ==
  ASSUME Inv, NEW q \in Request, Sweep(q)
  PROVE  Inv'
<1> DEFINE now == Floor(clock)
           locals == [Rest EXCEPT !.at = "range", !.since = clock, !.stamp = now]
<1>1. /\ TypeOK /\ Timely /\ Index /\ Readers /\ BucketLapses
      /\ clock \in Nat /\ now \in Nat
      /\ until \in [Presence -> Nat] /\ score \in [Presence -> Nat]
  BY FloorIsNat DEF Inv, TypeOK
<1>2. /\ score' = [p \in Presence |-> IF p \in Due(now) THEN 0 ELSE score[p]]
      /\ UNCHANGED <<clock, until, indexUntil, buckets, ghosts>>
      /\ Go(q, locals)
  BY DEF Sweep
<1>3. /\ Timely' /\ Readers' /\ req' \in [Request -> Locals]
      /\ \A r \in Request :
           req'[r].at \in {"put", "clear", "drop"} => req'[r].presence \in Presence
  <2>1. /\ locals \in Locals /\ Gathered(locals)
        /\ locals.at = "range" /\ locals.since = clock
    BY <1>1 DEF Rest, Locals, Label, Gathered
  <2>2. clock <= clock /\ clock <= clock + RequestTimeout
    BY <1>1, DirectoryAssumption
  <2> HIDE DEF locals
  <2> QED
    BY <1>1, <1>2, <2>1, <2>2, Going
<1>4. /\ score' \in [Presence -> Nat]
      /\ \A p \in Presence : score'[p] # 0 => score'[p] = score[p]
      /\ \A p \in Presence : score[p] # 0 /\ score'[p] = 0 => score[p] <= now
  BY <1>1, <1>2 DEF Due
<1>5. TypeOK'
  BY <1>1, <1>2, <1>3, <1>4 DEF TypeOK, buckets, ghosts
<1>6. IndexSound'
  BY <1>1, <1>2, <1>4 DEF Index, IndexSound, Stored, Floor
<1>7. Scored' /\ Outlives'
  BY <1>1, <1>2, <1>4 DEF Index, Scored, Outlives, Stored, Floor, ghosts
<1>8. ListedUnlessLapsed'
  <2> SUFFICES ASSUME NEW p \in Presence, until[p] > clock + Second + RequestTimeout,
                      p \notin dropped \cup shortened
               PROVE  score'[p] # 0
    BY <1>2 DEF ListedUnlessLapsed, ghosts
  <2>1. score[p] # 0 /\ until[p] # 0
    BY <1>1, DirectoryAssumption DEF Index, ListedUnlessLapsed
  <2>2. PICK end \in Nat : /\ score[p] = Floor(end)
                           /\ until[p] <= end + RequestTimeout
    BY <1>1, <2>1 DEF Index, Scored, Stored
  <2>3. clock + Second <= end
    BY <1>1, <2>2, DirectoryAssumption
  <2>4. now < score[p]
    BY <1>1, <2>2, <2>3, FloorLater
  <2> QED
    BY <1>1, <1>4, <2>1, <2>4
<1> QED
  BY <1>1, <1>2, <1>3, <1>5, <1>6, <1>7, <1>8, BucketsRest DEF Inv, Index

LEMMA DropKeeps ==
  ASSUME Inv, NEW q \in Request, Drop(q)
  PROVE  Inv'
<1> DEFINE p == req[q].presence
           locals == [req[q] EXCEPT !.at = IF req[q].ids = {} THEN "answer" ELSE "get"]
<1>1. /\ TypeOK /\ Timely /\ Index /\ Readers /\ BucketLapses
      /\ req[q] \in Locals /\ req[q].at = "drop" /\ p \in Presence
      /\ score \in [Presence -> Nat] /\ until \in [Presence -> Nat] /\ clock \in Nat
  BY DEF Inv, TypeOK, Drop, At
<1>2. /\ score' = [score EXCEPT ![p] = 0]
      /\ dropped' = IF Stored(p) THEN dropped \cup {p} ELSE dropped
      /\ UNCHANGED <<clock, until, indexUntil, buckets, shortened>>
      /\ Go(q, locals)
  BY DEF Drop, Continue
<1>3. /\ Timely' /\ Readers' /\ req' \in [Request -> Locals]
      /\ \A r \in Request :
           req'[r].at \in {"put", "clear", "drop"} => req'[r].presence \in Presence
  <2>1. /\ locals \in Locals /\ Gathered(locals)
        /\ locals.since = req[q].since /\ locals.at \in {"answer", "get"}
    BY <1>1 DEF Locals, Label, Gathered, Readers
  <2>2. req[q].since <= clock /\ clock <= req[q].since + RequestTimeout
    BY <1>1 DEF Timely, At
  <2> HIDE DEF locals
  <2> QED
    BY <1>1, <1>2, <2>1, <2>2, Going
<1> HIDE DEF p
<1>4. /\ score' \in [Presence -> Nat] /\ score'[p] = 0
      /\ \A o \in Presence \ {p} : score'[o] = score[o]
  BY <1>1, <1>2
<1>5. TypeOK'
  BY <1>1, <1>2, <1>3, <1>4 DEF TypeOK, buckets
<1>6. IndexSound'
  BY <1>1, <1>2, <1>4, FloorIsNat DEF Index, IndexSound, Stored, Floor
<1>7. Scored' /\ Outlives'
  BY <1>1, <1>2, <1>4 DEF Index, Scored, Outlives, Stored, Floor
<1>8. ListedUnlessLapsed'
  <2> SUFFICES ASSUME NEW o \in Presence, until[o] > clock + Second + RequestTimeout,
                      o \notin dropped' \cup shortened
               PROVE  score'[o] # 0
    BY <1>2 DEF ListedUnlessLapsed
  <2>1. Stored(o)
    BY <1>1, DirectoryAssumption DEF Stored
  <2>2. o # p /\ o \notin dropped
    BY <1>2, <2>1
  <2> QED
    BY <1>1, <1>4, <2>2 DEF Index, ListedUnlessLapsed
<1> QED
  BY <1>1, <1>2, <1>3, <1>5, <1>6, <1>7, <1>8, BucketsRest DEF Inv, Index

LEMMA PutKeeps ==
  ASSUME Inv, NEW q \in Request, NEW ttl \in PublishTtl, NEW now \in 0..clock,
         Put(q, ttl, now)
  PROVE  Inv'
<1> DEFINE p == req[q].presence
           end == clock + IndexTtl(ttl)
<1>1. /\ TypeOK /\ Timely /\ Index /\ Readers /\ BucketLapses
      /\ req[q] \in Locals /\ req[q].at = "put" /\ p \in Presence
      /\ score \in [Presence -> Nat] /\ until \in [Presence -> Nat]
      /\ clock \in Nat /\ indexUntil \in Nat /\ now \in Nat
      /\ shortened \subseteq Presence /\ dropped \subseteq Presence
  BY DEF Inv, TypeOK, Put, At
<1>2. /\ ttl \in Nat /\ Second <= ttl /\ Second \in Nat \ {0} /\ Slack \in Nat
      /\ RequestTimeout \in Nat
  BY DirectoryAssumption
<1>3. /\ until' = [until EXCEPT ![p] = clock + ttl]
      /\ score' = [score EXCEPT ![p] = Floor(now + ttl)]
      /\ indexUntil' = end
      /\ shortened' = (shortened \cup {o \in Presence : until[o] > end}) \ {p}
      /\ dropped' = dropped \ {p}
      /\ UNCHANGED <<clock, buckets>> /\ Done(q)
  BY DEF Put
<1>4. /\ end \in Nat /\ clock + ttl <= end
  BY <1>1, <1>2 DEF IndexTtl
<1>5. /\ Floor(now + ttl) \in Nat /\ Floor(now + ttl) # 0
      /\ now + ttl \in Nat /\ now + ttl <= clock + ttl
      /\ clock <= now + RequestTimeout
  <2>1. now + ttl \in Nat /\ Second <= now + ttl /\ now <= clock
    BY <1>1, <1>2
  <2>2. /\ req[q].since <= now /\ clock <= req[q].since + RequestTimeout
        /\ req[q].since \in Nat
    BY <1>1 DEF Put, Timely, At, Locals
  <2> QED
    BY <1>1, <1>2, <2>1, <2>2, FloorIsNat, FloorPositive
<1>6. /\ Timely' /\ Readers' /\ req' \in [Request -> Locals]
      /\ \A r \in Request :
           req'[r].at \in {"put", "clear", "drop"} => req'[r].presence \in Presence
  BY <1>1, <1>3, Resting, Going DEF Done, Rest
<1> HIDE DEF p, end
<1>7. /\ until' \in [Presence -> Nat] /\ until'[p] = clock + ttl
      /\ score' \in [Presence -> Nat] /\ score'[p] = Floor(now + ttl)
      /\ \A o \in Presence \ {p} : until'[o] = until[o] /\ score'[o] = score[o]
  BY <1>1, <1>2, <1>3, <1>5
<1>8. TypeOK'
  BY <1>1, <1>3, <1>4, <1>6, <1>7 DEF TypeOK, buckets
<1>9. IndexSound'
  BY <1>1, <1>2, <1>3, <1>7 DEF Index, IndexSound, Stored, Floor
<1>10. Scored'
  <2> SUFFICES ASSUME NEW o \in Presence, until'[o] # 0, score'[o] # 0
               PROVE  \E e \in Nat : /\ score'[o] = Floor(e)
                                     /\ e <= until'[o] /\ until'[o] <= e + RequestTimeout
    BY DEF Scored, Stored, Floor
  <2>1. CASE o = p
    <3>1. clock + ttl <= now + ttl + RequestTimeout
      BY <1>1, <1>2, <1>5
    <3> QED
      BY <1>5, <1>7, <2>1, <3>1
  <2>2. CASE o # p
    BY <1>1, <1>7, <2>2 DEF Index, Scored, Stored
  <2> QED
    BY <2>1, <2>2
<1>11. Outlives'
  <2> SUFFICES ASSUME NEW o \in Presence, until'[o] # 0, o \notin shortened'
               PROVE  until'[o] <= end
    BY <1>3 DEF Outlives, Stored
  <2>1. CASE o = p
    BY <1>4, <1>7, <2>1
  <2>2. CASE o # p
    BY <1>1, <1>3, <1>4, <1>7, <2>2
  <2> QED
    BY <2>1, <2>2
<1>12. ListedUnlessLapsed'
  <2> SUFFICES ASSUME NEW o \in Presence, until'[o] > clock + Second + RequestTimeout,
                      o \notin dropped' \cup shortened'
               PROVE  score'[o] # 0
    BY <1>3 DEF ListedUnlessLapsed
  <2>1. CASE o = p
    BY <1>5, <1>7, <2>1
  <2>2. CASE o # p
    BY <1>1, <1>3, <1>7, <2>2 DEF Index, ListedUnlessLapsed
  <2> QED
    BY <2>1, <2>2
<1> QED
  BY <1>1, <1>3, <1>6, <1>8, <1>9, <1>10, <1>11, <1>12, BucketsRest DEF Inv, Index

\* Time takes from Redis no Presence that the index still promises.
LEMMA TickKeeps ==
  ASSUME Inv, Tick
  PROVE  Inv'
<1> DEFINE now == clock + 1
<1>1. /\ TypeOK /\ Timely /\ Index /\ Readers /\ BucketLapses
      /\ score \in [Presence -> Nat] /\ until \in [Presence -> Nat]
      /\ clock \in Nat /\ now \in Nat /\ indexUntil \in Nat
      /\ Second \in Nat \ {0} /\ RequestTimeout \in Nat
      /\ Limit \in Nat /\ Window \in Nat \ {0}
      /\ req \in [Request -> Locals]
  BY DirectoryAssumption DEF Inv, TypeOK
<1>2. /\ clock' = now
      /\ until' = [p \in Presence |-> IF until[p] <= now THEN 0 ELSE until[p]]
      /\ score' = [p \in Presence |-> IF indexUntil <= now THEN 0 ELSE score[p]]
      /\ indexUntil' = IF indexUntil <= now THEN 0 ELSE indexUntil
      /\ count' = [p \in Presence |-> IF countUntil[p] <= now THEN 0 ELSE count[p]]
      /\ countUntil' = [p \in Presence |-> IF countUntil[p] <= now THEN 0 ELSE countUntil[p]]
      /\ UNCHANGED ghosts /\ Watch(req)
      /\ \A q \in Request : InTime(q)
  BY DEF Tick
<1>3. /\ Readers' /\ req' \in [Request -> Locals]
      /\ \A q \in Request : /\ req'[q].at = req[q].at
                           /\ req'[q].since = req[q].since
                           /\ req'[q].presence = req[q].presence
  BY <1>1, <1>2, Watching DEF Readers
<1>4. Timely'
  <2> SUFFICES ASSUME NEW q \in Request, req[q].at # "idle"
               PROVE  req[q].since <= now /\ now <= req[q].since + RequestTimeout
    BY <1>2, <1>3 DEF Timely, At
  <2>1. /\ req[q].since \in Nat /\ req[q].since <= clock
        /\ clock < req[q].since + RequestTimeout
    BY <1>1, <1>2 DEF Timely, InTime, At, Locals
  <2> QED
    BY <1>1, <2>1
<1>5. /\ until' \in [Presence -> Nat] /\ score' \in [Presence -> Nat]
      /\ indexUntil' \in Nat
      /\ \A p \in Presence :
           /\ until'[p] # 0 => until'[p] = until[p] /\ until[p] > now
           /\ until'[p] = 0 /\ until[p] # 0 => until[p] <= now
           /\ score'[p] # 0 => score'[p] = score[p]
           /\ score[p] # 0 /\ score'[p] = 0 => indexUntil <= now
  BY <1>1, <1>2
<1>6. TypeOK'
  <2>1. /\ count' \in [Presence -> 0..(Limit + 1)]
        /\ countUntil' \in [Presence -> Nat]
    BY <1>1, <1>2 DEF TypeOK
  <2> QED
    BY <1>1, <1>2, <1>3, <1>5, <2>1 DEF TypeOK, ghosts
<1>7. BucketLapses'
  <2> SUFFICES ASSUME NEW p \in Presence, count'[p] # 0
               PROVE  countUntil'[p] \in (now + 1)..(now + Window)
    BY <1>2 DEF BucketLapses
  <2>1. /\ count[p] # 0 /\ countUntil[p] > now /\ countUntil'[p] = countUntil[p]
        /\ countUntil[p] \in Nat
    BY <1>1, <1>2 DEF TypeOK
  <2>2. countUntil[p] \in (clock + 1)..(clock + Window)
    BY <1>1, <2>1 DEF BucketLapses
  <2> QED
    BY <1>1, <2>1, <2>2
<1>8. IndexSound'
  <2> SUFFICES ASSUME NEW p \in Presence, score'[p] > Floor(now)
               PROVE  until'[p] # 0
    BY <1>2 DEF IndexSound, Stored, Floor
  <2>1. Floor(clock) \in Nat /\ Floor(now) \in Nat /\ Floor(clock) <= Floor(now)
    BY <1>1, FloorIsNat, FloorMonotone
  <2>2. score'[p] = score[p] /\ score[p] # 0 /\ score[p] > Floor(clock)
    BY <1>1, <1>5, <2>1
  <2>3. until[p] # 0
    BY <1>1, <2>2 DEF Index, IndexSound, Stored
  <2>4. PICK end \in Nat : score[p] = Floor(end) /\ end <= until[p]
    BY <1>1, <2>2, <2>3 DEF Index, Scored, Stored
  <2>5. ~ (until[p] <= now)
    <3> SUFFICES ASSUME until[p] <= now
                 PROVE  FALSE
      OBVIOUS
    <3>1. end <= now
      BY <1>1, <2>4
    <3>2. Floor(end) <= Floor(now)
      BY <1>1, <2>4, <3>1, FloorMonotone
    <3> QED
      BY <1>1, <2>1, <2>2, <2>4, <3>2
  <2> QED
    BY <1>5, <2>3, <2>5
<1>9. Scored'
  BY <1>1, <1>5 DEF Index, Scored, Stored, Floor
<1>10. Outlives'
  <2> SUFFICES ASSUME NEW p \in Presence, until'[p] # 0, p \notin shortened
               PROVE  until'[p] <= indexUntil'
    BY <1>2 DEF Outlives, Stored, ghosts
  <2>1. until'[p] = until[p] /\ until[p] > now /\ until[p] # 0
    BY <1>1, <1>5
  <2>2. until[p] <= indexUntil
    BY <1>1, <2>1 DEF Index, Outlives, Stored
  <2> QED
    BY <1>1, <1>2, <2>1, <2>2
<1>11. ListedUnlessLapsed'
  <2> SUFFICES ASSUME NEW p \in Presence, until'[p] > now + Second + RequestTimeout,
                      p \notin dropped \cup shortened
               PROVE  score'[p] # 0
    BY <1>2 DEF ListedUnlessLapsed, ghosts
  <2>1. /\ until'[p] = until[p] /\ until[p] # 0 /\ until[p] > now
        /\ until[p] > clock + Second + RequestTimeout
    BY <1>1, <1>5
  <2>2. score[p] # 0 /\ until[p] <= indexUntil
    BY <1>1, <2>1 DEF Index, ListedUnlessLapsed, Outlives, Stored
  <2> QED
    BY <1>1, <1>5, <2>1, <2>2
<1> QED
  BY <1>3, <1>4, <1>6, <1>7, <1>8, <1>9, <1>10, <1>11 DEF Inv, Index
-----------------------------------------------------------------------------
(* The theorems.                                                           *)

\* The invariant holds of every behaviour.
THEOREM InvHolds == Spec => []Inv
<1>1. Init => Inv
  BY Starts
<1>2. Inv /\ [Next]_vars => Inv'
  <2> SUFFICES ASSUME Inv, [Next]_vars
               PROVE  Inv'
    OBVIOUS
  <2>1. ASSUME NEW q \in Request, NEW p \in Presence, BeginPublish(q, p)
        PROVE  Inv'
    BY <2>1, BeginPublishKeeps
  <2>2. ASSUME NEW q \in Request, NEW p \in Presence, BeginClear(q, p)
        PROVE  Inv'
    BY <2>2, BeginClearKeeps
  <2>3. ASSUME NEW q \in Request, NEW p \in Presence, Get(q, p)
        PROVE  Inv'
    BY <2>3, GetKeeps
  <2>4. ASSUME NEW q \in Request, NEW ttl \in PublishTtl, NEW now \in 0..clock, Put(q, ttl, now)
        PROVE  Inv'
    BY <2>4, PutKeeps
  <2>5. ASSUME NEW q \in Request, Clear(q) \/ Sweep(q) \/ Range(q)
        PROVE  Inv'
    BY <2>5, ClearKeeps, SweepKeeps, RangeKeeps
  <2>6. ASSUME NEW q \in Request, Drop(q) \/ Answer(q) \/ Cancel(q)
        PROVE  Inv'
    BY <2>6, DropKeeps, AnswerKeeps, CancelKeeps
  <2>7. CASE Tick
    BY <2>7, TickKeeps
  <2>8. CASE UNCHANGED vars
    BY <2>8 DEF vars, stored, buckets, ghosts, Inv, TypeOK, Timely, Index, IndexSound, Scored,
                Outlives, ListedUnlessLapsed, Readers, Gathered, Missing, Reading, BucketLapses,
                At, Stored, Floor
  <2> QED
    BY <2>1, <2>2, <2>3, <2>4, <2>5, <2>6, <2>7, <2>8 DEF Next
<1> QED
  BY <1>1, <1>2, PTL DEF Spec

\* The variables keep their types (redis.rs, api/presence.rs).
THEOREM TypeCorrect == Spec => []TypeOK
<1>1. Inv => TypeOK
  BY DEF Inv
<1> QED
  BY <1>1, InvHolds, PTL

\* An id whose time has not come belongs to a stored Presence, however late
\* put_presence reached Redis and whichever way it goes (redis.rs:230).
THEOREM IndexIsSound == Spec => []IndexSound
<1>1. Inv => IndexSound
  BY DEF Inv, Index
<1> QED
  BY <1>1, InvHolds, PTL

\* A stored Presence is listed, but for its last moments, the index being cut
\* short, and a reader that missed it earlier (redis.rs:230, :260).
THEOREM StaysListed == Spec => []ListedUnlessLapsed
<1>1. Inv => ListedUnlessLapsed
  BY DEF Inv, Index
<1> QED
  BY <1>1, InvHolds, PTL

\* A reader returns every Presence that was listed all the time it read,
\* whatever disappears and comes back meanwhile (redis.rs:260).
THEOREM ReadsAll == Spec => []ReadComplete
<1>1. Inv => ReadComplete
  BY DEF Inv, Readers, Gathered, ReadComplete, At
<1> QED
  BY <1>1, InvHolds, PTL

\* Every counter of the rate limit is about to expire (redis.rs:408).
THEOREM BucketsLapse == Spec => []BucketLapses
<1>1. Inv => BucketLapses
  BY DEF Inv
<1> QED
  BY <1>1, InvHolds, PTL
=============================================================================
