----------------------- MODULE RuntimeInstancesProofs -----------------------
(***************************************************************************)
(* Proofs about RuntimeInstances for every number of Presences, tokens and *)
(* concurrent requests, and every time to live: the invariants, and at the *)
(* end that the requests implement TokenLife.                              *)
(***************************************************************************)
EXTENDS RuntimeInstances, FiniteSetTheorems, TLAPS

USE DEF At, Go, redis, ghosts, Current, Full

-----------------------------------------------------------------------------
(* Type correctness.                                                       *)

LEMMA FloorType ==
  ASSUME NEW t \in Nat
  PROVE  Floor(t) \in Nat
BY InstancesAssumption DEF Floor

LEMMA NextCases ==
  ASSUME Next
  PROVE  \/ \E q \in Request : BeginCreate(q) \/ RegisterInstance(q) \/ Announce(q)
         \/ \E q \in Request : Rotate(q) \/ Reply(q) \/ CloseInstance(q)
         \/ \E q \in Request : ClearRead(q) \/ Clear(q) \/ DeleteRead(q)
         \/ \E q \in Request : DeleteInstance(q) \/ Cancel(q)
         \/ \E q \in Request, ttl \in PublishTtl : Publish(q, ttl)
         \/ \E q \in Request, h \in Token : FindExpired(q, h) \/ BeginRenew(q, h)
         \/ \E q \in Request, h \in Token, label \in {"close", "publish", "clearRead"} :
              Begin(q, h, label)
         \/ Tick
BY DEF Next

\* A request that goes on at a typed place leaves all requests typed.
RequestsOK == req \in [Request -> Task] /\ \A q \in Request : InHand(req[q])

LEMMA GoType ==
  ASSUME TypeOK, NEW q \in Request, NEW t \in Task, InHand(t), Go(q, t)
  PROVE  RequestsOK'
BY DEF RequestsOK, TypeOK

LEMMA RestType == Rest \in Task /\ InHand(Rest)
BY DEF Rest, Task, Label, InHand

LEMMA DoneType ==
  ASSUME TypeOK, NEW q \in Request, Done(q)
  PROVE  RequestsOK'
BY RestType, GoType DEF Done

LEMMA BindType ==
  ASSUME TypeOK, NEW h \in Token, NEW lease \in Lease, NEW others, Bind(h, lease, others)
  PROVE  /\ instance' \in [Token -> Lease \cup {None}]
         /\ until' \in [Token -> Nat]
         /\ binding' \in [Presence -> Token \cup {None}]
         /\ bindingUntil' \in [Presence -> Nat]
<1>1. clock + InstanceTtl \in Nat
  BY InstancesAssumption DEF TypeOK
<1> QED BY <1>1 DEF Bind, TypeOK, Lease

LEMMA KeptType ==
  ASSUME TypeOK
  PROVE  Kept \in [Presence -> Nat \cup {None}]
BY DEF Kept, TypeOK

(* TypeOK holds in every reachable state; among other things every request *)
(* still holds the lease and the tokens its next step works on.            *)
THEOREM TypeCorrect == Spec => []TypeOK
<1>1. Init => TypeOK
  <2> SUFFICES ASSUME Init PROVE TypeOK
    OBVIOUS
  <2>1. req \in [Request -> Task] /\ \A q \in Request : InHand(req[q])
    <3> HIDE DEF Rest
    <3> QED BY RestType DEF Init
  <2>2. /\ instance \in [Token -> Lease \cup {None}]
        /\ binding \in [Presence -> Token \cup {None}]
        /\ slots \in [Presence -> Nat \cup {None}]
        /\ known \in [Token -> Nat \cup {None}]
        /\ closedAt \in [Presence -> Nat \cup {None}]
    BY DEF Init
  <2> QED BY <2>1, <2>2 DEF Init, TypeOK
<1>2. TypeOK /\ [Next]_vars => TypeOK'
  <2> SUFFICES ASSUME TypeOK, [Next]_vars PROVE TypeOK'
    OBVIOUS
  <2>1. ASSUME NEW q \in Request, BeginCreate(q) PROVE TypeOK'
    <3>1. PICK p \in Presence \ minted, h \in Token \ minted :
            /\ Go(q, [at |-> "register", since |-> clock, token |-> None,
                      lease |-> [presence |-> p, expiresAt |-> clock + InstanceTtl],
                      fresh |-> h])
            /\ minted' = minted \cup {p, h}
      BY <2>1, Zenon DEF BeginCreate
    <3> DEFINE l == [presence |-> p, expiresAt |-> clock + InstanceTtl]
               t == [at |-> "register", since |-> clock, token |-> None,
                     lease |-> l, fresh |-> h]
    <3>2. l \in Lease
      BY InstancesAssumption DEF TypeOK, Lease
    <3>3. t \in Task /\ InHand(t)
      BY <3>2 DEF Task, Label, InHand, TypeOK
    <3>4. RequestsOK'
      BY <3>1, <3>3, GoType
    <3> QED BY <2>1, <3>1, <3>4 DEF BeginCreate, TypeOK, RequestsOK
  <2>2. ASSUME NEW q \in Request, RegisterInstance(q) PROVE TypeOK'
    <3> DEFINE l == req[q].lease
               t == [req[q] EXCEPT !.at = "announce"]
    <3>1. req[q] \in Task /\ l \in Lease /\ req[q].fresh \in Token
      BY <2>2 DEF RegisterInstance, TypeOK, InHand
    <3>2. CASE Cardinality(Taken(Kept)) >= MaxInstances
      BY <2>2, <3>2, DoneType, KeptType DEF RegisterInstance, TypeOK, RequestsOK
    <3>3. CASE ~(Cardinality(Taken(Kept)) >= MaxInstances)
      <4>1. t \in Task /\ InHand(t)
        BY <3>1 DEF Task, Label, InHand
      <4>2. RequestsOK'
        BY <2>2, <3>3, <4>1, GoType DEF RegisterInstance
      <4>3. Floor(l.expiresAt) \in Nat
        BY <3>1, FloorType DEF Lease
      <4>4. slots' \in [Presence -> Nat \cup {None}]
        BY <2>2, <3>3, <4>3, KeptType DEF RegisterInstance
      <4>5. Bind(req[q].fresh, l, {binding[l.presence]})
        BY <2>2, <3>3 DEF RegisterInstance
      <4> QED BY <2>2, <3>1, <4>2, <4>4, <4>5, BindType DEF RegisterInstance, TypeOK, RequestsOK
    <3> QED BY <3>2, <3>3
  <2>3. ASSUME NEW q \in Request, Announce(q) PROVE TypeOK'
    <3> DEFINE t == [req[q] EXCEPT !.at = "deleteRead", !.token = req[q].fresh]
    <3>1. req[q] \in Task /\ req[q].lease \in Lease /\ req[q].fresh \in Token
      BY <2>3 DEF Announce, TypeOK, InHand
    <3>2. t \in Task /\ InHand(t)
      BY <3>1 DEF Task, Label, InHand
    <3>3. Done(q) \/ Go(q, t)
      BY <2>3, Zenon DEF Announce
    <3>4. RequestsOK'
      BY <3>2, <3>3, GoType, DoneType
    <3>5. clock + InitialTtl \in Nat
      BY InstancesAssumption DEF TypeOK
    <3>6. presence' \in [Presence -> Nat]
      BY <2>3, <3>5 DEF Announce, TypeOK
    <3>7. known' \in [Token -> Nat \cup {None}]
      BY <2>3, <3>1 DEF Announce, TypeOK, Lease
    <3> QED BY <2>3, <3>4, <3>6, <3>7 DEF Announce, TypeOK, RequestsOK
  <2>4. ASSUME NEW q \in Request, Rotate(q) PROVE TypeOK'
    <3> DEFINE l == req[q].lease
               t == [req[q] EXCEPT !.at = "reply"]
    <3>1. /\ req[q] \in Task /\ l \in Lease
          /\ req[q].fresh \in Token /\ req[q].token \in Token
      BY <2>4 DEF Rotate, TypeOK, InHand
    <3>2. CASE binding[l.presence] # req[q].token
      BY <2>4, <3>2, DoneType DEF Rotate, TypeOK, RequestsOK
    <3>3. CASE binding[l.presence] = req[q].token
      <4>1. t \in Task /\ InHand(t)
        BY <3>1 DEF Task, Label, InHand
      <4>2. RequestsOK'
        BY <2>4, <3>3, <4>1, GoType DEF Rotate
      <4>3. Floor(l.expiresAt) \in Nat
        BY <3>1, FloorType DEF Lease
      <4>4. slots' \in [Presence -> Nat \cup {None}]
        BY <2>4, <3>3, <4>3 DEF Rotate, TypeOK
      <4>5. Bind(req[q].fresh, l, {req[q].token})
        BY <2>4, <3>3 DEF Rotate
      <4>6. ended' \in [Token -> {"none", "rotated", "closed", "undone"}]
        BY <2>4, <3>3 DEF Rotate, TypeOK
      <4>7. ousted' \subseteq Presence
        BY <2>4, <3>1, <3>3 DEF Rotate, TypeOK, Lease
      <4> QED BY <2>4, <3>1, <3>3, <4>2, <4>4, <4>5, <4>6, <4>7, BindType
              DEF Rotate, TypeOK, RequestsOK
    <3> QED BY <3>2, <3>3
  <2>5. ASSUME NEW q \in Request, Reply(q) PROVE TypeOK'
    <3>1. req[q].lease \in Lease
      BY <2>5 DEF Reply, TypeOK, InHand
    <3> QED BY <2>5, <3>1, DoneType DEF Reply, TypeOK, RequestsOK, Lease
  <2>6. ASSUME NEW q \in Request, CloseInstance(q) PROVE TypeOK'
    <3>1. RequestsOK'
      BY <2>6, DoneType DEF CloseInstance
    <3> QED BY <2>6, <3>1 DEF CloseInstance, TypeOK, RequestsOK
  <2>7. ASSUME NEW q \in Request, NEW ttl \in PublishTtl, Publish(q, ttl) PROVE TypeOK'
    <3>1. clock + ttl \in Nat
      BY InstancesAssumption DEF TypeOK
    <3>2. RequestsOK'
      BY <2>7, DoneType DEF Publish
    <3> QED BY <2>7, <3>1, <3>2 DEF Publish, TypeOK, RequestsOK
  <2>8. ASSUME NEW q \in Request, ClearRead(q) PROVE TypeOK'
    <3> DEFINE t == [req[q] EXCEPT !.at = "clear"]
    <3>1. req[q] \in Task /\ req[q].lease \in Lease
      BY <2>8 DEF ClearRead, TypeOK, InHand
    <3>2. t \in Task /\ InHand(t)
      BY <3>1 DEF Task, Label, InHand
    <3>3. Done(q) \/ Go(q, t)
      BY <2>8, Zenon DEF ClearRead
    <3>4. RequestsOK'
      BY <3>2, <3>3, GoType, DoneType
    <3> QED BY <2>8, <3>4 DEF ClearRead, TypeOK, RequestsOK
  <2>9. ASSUME NEW q \in Request, Clear(q) PROVE TypeOK'
    <3>1. RequestsOK'
      BY <2>9, DoneType DEF Clear
    <3> QED BY <2>9, <3>1 DEF Clear, TypeOK, RequestsOK
  <2>10. ASSUME NEW q \in Request, DeleteRead(q) PROVE TypeOK'
    <3> DEFINE t == [req[q] EXCEPT !.at = "delete", !.lease = instance[req[q].token]]
    <3>1. req[q] \in Task /\ req[q].token \in Token
      BY <2>10 DEF DeleteRead, TypeOK, InHand
    <3>2. Done(q) \/ (instance[req[q].token] # None /\ Go(q, t))
      BY <2>10, Zenon DEF DeleteRead
    <3>3. ASSUME instance[req[q].token] # None PROVE t \in Task /\ InHand(t)
      <4>1. instance[req[q].token] \in Lease
        BY <3>1, <3>3 DEF TypeOK
      <4> QED BY <3>1, <4>1 DEF Task, Label, InHand
    <3>4. RequestsOK'
      BY <3>2, <3>3, GoType, DoneType
    <3> QED BY <2>10, <3>4 DEF DeleteRead, TypeOK, RequestsOK
  <2>11. ASSUME NEW q \in Request, DeleteInstance(q) PROVE TypeOK'
    <3>1. RequestsOK'
      BY <2>11, DoneType DEF DeleteInstance
    <3>2. ended' \in [Token -> {"none", "rotated", "closed", "undone"}]
      BY <2>11 DEF DeleteInstance, TypeOK
    <3>3. ousted' \subseteq Presence
      <4>1. req[q].lease.presence \in Presence
        BY <2>11 DEF DeleteInstance, TypeOK, InHand, Lease
      <4>2. ousted' = ousted \/ ousted' = ousted \cup {req[q].lease.presence}
        BY <2>11 DEF DeleteInstance
      <4> QED BY <4>1, <4>2 DEF TypeOK
    <3>4. /\ instance' \in [Token -> Lease \cup {None}]
          /\ binding' \in [Presence -> Token \cup {None}]
          /\ slots' \in [Presence -> Nat \cup {None}]
          /\ UNCHANGED <<clock, until, bindingUntil, presence, known, minted, closedAt>>
      BY <2>11 DEF DeleteInstance, TypeOK
    <3> QED BY <3>1, <3>2, <3>3, <3>4 DEF TypeOK, RequestsOK
  <2>12. ASSUME NEW q \in Request, Cancel(q) PROVE TypeOK'
    BY <2>12, DoneType DEF Cancel, TypeOK, RequestsOK
  <2>13. ASSUME NEW q \in Request, NEW h \in Token, FindExpired(q, h) PROVE TypeOK'
    <3> DEFINE t == [Rest EXCEPT !.at = "deleteRead", !.since = clock, !.token = h]
    <3>1. t \in Task /\ InHand(t)
      BY DEF Rest, Task, Label, InHand, TypeOK
    <3>2. RequestsOK'
      BY <2>13, <3>1, GoType DEF FindExpired
    <3> QED BY <2>13, <3>2 DEF FindExpired, TypeOK, RequestsOK
  <2>14. ASSUME NEW q \in Request, NEW h \in Token,
                NEW label \in {"close", "publish", "clearRead"}, Begin(q, h, label)
         PROVE  TypeOK'
    <3> DEFINE t == [at |-> label, since |-> clock, token |-> h, lease |-> instance[h],
                     fresh |-> None]
    <3>1. instance[h] \in Lease
      BY <2>14 DEF Begin, Authenticated, TypeOK
    <3>2. t \in Task /\ InHand(t)
      BY <3>1 DEF Task, Label, InHand, TypeOK
    <3>3. RequestsOK'
      BY <2>14, <3>2, GoType DEF Begin
    <3> QED BY <2>14, <3>3 DEF Begin, TypeOK, RequestsOK
  <2>15. ASSUME NEW q \in Request, NEW h \in Token, BeginRenew(q, h) PROVE TypeOK'
    <3> DEFINE l == [instance[h] EXCEPT !.expiresAt = clock + InstanceTtl]
    <3>1. PICK g \in Token \ minted :
            /\ Go(q, [at |-> "rotate", since |-> clock, token |-> h, lease |-> l,
                      fresh |-> g])
            /\ minted' = minted \cup {g}
      BY <2>15, Zenon DEF BeginRenew
    <3> DEFINE t == [at |-> "rotate", since |-> clock, token |-> h, lease |-> l,
                     fresh |-> g]
    <3>2. instance[h] \in Lease
      BY <2>15 DEF BeginRenew, Authenticated, TypeOK
    <3>3. l \in Lease
      BY <3>2, InstancesAssumption DEF TypeOK, Lease
    <3>4. t \in Task /\ InHand(t)
      BY <3>3 DEF Task, Label, InHand, TypeOK
    <3>5. RequestsOK'
      BY <3>1, <3>4, GoType
    <3> QED BY <2>15, <3>1, <3>5 DEF BeginRenew, TypeOK, RequestsOK
  <2>16. CASE Tick
    BY <2>16 DEF Tick, TypeOK
  <2>17. CASE UNCHANGED vars
    BY <2>17 DEF vars, TypeOK
  <2> QED
    BY <2>1, <2>2, <2>3, <2>4, <2>5, <2>6, <2>7, <2>8, <2>9, <2>10, <2>11, <2>12, <2>13,
       <2>14, <2>15, <2>16, <2>17, NextCases
<1> QED BY <1>1, <1>2, PTL DEF Spec
-----------------------------------------------------------------------------
(* Tokens, their Presences and the reverse mapping.                        *)

\* Whatever refers to a Presence refers to one that was drawn.
Drawn ==
  /\ \A h \in Token : instance[h] # None => instance[h].presence \in minted
  /\ \A p \in Presence : binding[p] # None => p \in minted
  /\ \A p \in Presence : closedAt[p] # None => p \in minted
  /\ \A q \in Request : req[q].lease # None => req[q].lease.presence \in minted

\* A Presence that is about to be registered is nobody else's.
Unregistered ==
  \A q \in Request : At(q, "register") =>
    LET p == req[q].lease.presence IN
    /\ binding[p] = None
    /\ closedAt[p] = None
    /\ \A h \in Token : instance[h] # None => instance[h].presence # p
    /\ \A r \in Request : At(r, "register") /\ r # q => req[r].lease.presence # p

\* The reverse mapping leads to the token in use, or nowhere.
Bound ==
  \A h \in Token : instance[h] # None => binding[instance[h].presence] \in {h, None}

Consistent == Drawn /\ Unregistered /\ Bound /\ OneToken /\ ClosedForGood

\* Whatever a step does not touch, it does not break.
LEMMA ShrinkStep ==
  ASSUME TypeOK, Consistent,
         \A h \in Token : instance'[h] \in {instance[h], None},
         \A p \in Presence : binding'[p] \in {binding[p], None},
         \A p \in Presence : slots'[p] \in {slots[p], None},
         closedAt' = closedAt, minted \subseteq minted',
         \A q \in Request : req'[q].lease # None => req'[q].lease.presence \in minted',
         \A q \in Request : req'[q].at = "register" => req'[q] = req[q]
  PROVE  Consistent'
<1>1. Drawn'
  BY DEF Consistent, Drawn
<1>2. Unregistered'
  <2> SUFFICES ASSUME NEW q \in Request, req'[q].at = "register"
               PROVE  LET p == req'[q].lease.presence IN
                      /\ binding'[p] = None
                      /\ closedAt'[p] = None
                      /\ \A h \in Token : instance'[h] # None => instance'[h].presence # p
                      /\ \A r \in Request : req'[r].at = "register" /\ r # q
                                              => req'[r].lease.presence # p
    BY DEF Unregistered
  <2>1. req'[q] = req[q] /\ req[q].at = "register"
    OBVIOUS
  <2>2. req[q].lease.presence \in Presence
    BY <2>1 DEF TypeOK, InHand, Lease
  <2> QED BY <2>1, <2>2 DEF Consistent, Unregistered
<1>3. Bound'
  <2> SUFFICES ASSUME NEW h \in Token, instance'[h] # None
               PROVE  binding'[instance'[h].presence] \in {h, None}
    BY DEF Bound
  <2>1. instance'[h] = instance[h] /\ instance[h] \in Lease
    BY DEF TypeOK
  <2> QED BY <2>1 DEF Consistent, Bound, Lease
<1>4. OneToken'
  BY DEF Consistent, OneToken
<1>5. ClosedForGood'
  BY DEF Consistent, ClosedForGood, TypeOK
<1> QED BY <1>1, <1>2, <1>3, <1>4, <1>5 DEF Consistent

\* One request goes on, not towards a registration.
LEMMA GoStep ==
  ASSUME TypeOK, Consistent, NEW q \in Request, NEW t, Go(q, t),
         minted \subseteq minted', t.at # "register",
         t.lease # None => t.lease.presence \in minted'
  PROVE  /\ \A r \in Request : req'[r].lease # None => req'[r].lease.presence \in minted'
         /\ \A r \in Request : req'[r].at = "register" => req'[r] = req[r]
BY DEF TypeOK, Consistent, Drawn

\* A step of one request that writes no key of an instance.
LEMMA ReadStep ==
  ASSUME TypeOK, Consistent, NEW q \in Request, NEW t, Go(q, t),
         UNCHANGED <<instance, binding, slots, closedAt>>,
         minted \subseteq minted', t.at # "register",
         t.lease # None => t.lease.presence \in minted'
  PROVE  Consistent'
BY GoStep, ShrinkStep DEF TypeOK

\* A request that finishes, whatever keys it deletes.
LEMMA DoneStep ==
  ASSUME TypeOK, Consistent, NEW q \in Request, Done(q),
         \A h \in Token : instance'[h] \in {instance[h], None},
         \A p \in Presence : binding'[p] \in {binding[p], None},
         \A p \in Presence : slots'[p] \in {slots[p], None},
         closedAt' = closedAt, minted' = minted
  PROVE  Consistent'
<1>1. Rest.at # "register" /\ Rest.lease = None
  BY DEF Rest
<1>2. Go(q, Rest)
  BY DEF Done
<1> HIDE DEF Rest
<1> QED BY <1>1, <1>2, GoStep, ShrinkStep

LEMMA BeginCreateStep ==
  ASSUME TypeOK, Consistent, NEW q \in Request, BeginCreate(q)
  PROVE  Consistent'
<1>1. PICK p \in Presence \ minted, h \in Token \ minted :
        /\ Go(q, [at |-> "register", since |-> clock, token |-> None,
                  lease |-> [presence |-> p, expiresAt |-> clock + InstanceTtl],
                  fresh |-> h])
        /\ minted' = minted \cup {p, h}
  BY Zenon DEF BeginCreate
<1>2. UNCHANGED <<instance, binding, slots, closedAt>>
  BY DEF BeginCreate
<1>3. req'[q].at = "register" /\ req'[q].lease.presence = p /\ req[q].at = "idle"
  BY <1>1 DEF TypeOK, BeginCreate
<1>4. \A r \in Request : r # q => req'[r] = req[r]
  BY <1>1 DEF TypeOK
<1>5. Drawn'
  BY <1>1, <1>2, <1>3, <1>4 DEF Consistent, Drawn
<1>6. \A r \in Request : req[r].at = "register" =>
        req[r].lease.presence \in minted
  BY InstancesAssumption DEF TypeOK, InHand, Consistent, Drawn, Lease
<1>7. Unregistered'
  <2>1. /\ binding[p] = None /\ closedAt[p] = None
        /\ \A g \in Token : instance[g] # None => instance[g].presence # p
    BY DEF Consistent, Drawn
  <2>2. \A r \in Request : req[r].at = "register" => req[r].lease.presence # p
    BY <1>6
  <2> QED BY <1>2, <1>3, <1>4, <2>1, <2>2 DEF Consistent, Unregistered
<1>8. Bound' /\ OneToken' /\ ClosedForGood'
  BY <1>2 DEF Consistent, Bound, OneToken, ClosedForGood
<1> QED BY <1>5, <1>7, <1>8 DEF Consistent

\* A lease and its reverse mapping are written for a Presence that has no other.
LEMMA BindStep ==
  ASSUME TypeOK, Consistent, NEW h \in Token, NEW l \in Lease, NEW others,
         Bind(h, l, others),
         \A g \in Token : instance[g] # None /\ instance[g].presence = l.presence
                           => g \in others \cup {h},
         l.presence \in minted, minted' = minted,
         closedAt' = closedAt, closedAt[l.presence] = None,
         \A p \in Presence : p # l.presence => slots'[p] \in {slots[p], None},
         \A q \in Request : req'[q].lease # None => req'[q].lease.presence \in minted,
         \A q \in Request : req'[q].at = "register" =>
           req'[q] = req[q] /\ req[q].lease.presence # l.presence
  PROVE  Consistent'
<1> DEFINE p == l.presence
<1>1. p \in Presence
  BY DEF Lease
<1>2. /\ instance'[h] = l
      /\ \A g \in Token : g # h => instance'[g] \in {instance[g], None}
      /\ \A g \in Token : g # h /\ instance'[g] # None => instance'[g] = instance[g]
                                                      /\ instance[g].presence # p
  BY DEF Bind
<1>3. binding'[p] = h /\ \A x \in Presence : x # p => binding'[x] = binding[x]
  BY <1>1 DEF Bind, TypeOK
<1>4. Drawn'
  BY <1>2, <1>3 DEF Consistent, Drawn
<1>5. Unregistered'
  <2> SUFFICES ASSUME NEW q \in Request, req'[q].at = "register"
               PROVE  LET x == req'[q].lease.presence IN
                      /\ binding'[x] = None
                      /\ closedAt'[x] = None
                      /\ \A g \in Token : instance'[g] # None => instance'[g].presence # x
                      /\ \A r \in Request : req'[r].at = "register" /\ r # q
                                              => req'[r].lease.presence # x
    BY DEF Unregistered
  <2>1. req'[q] = req[q] /\ req[q].at = "register" /\ req[q].lease.presence # p
    OBVIOUS
  <2>2. req[q].lease.presence \in Presence
    BY <2>1 DEF TypeOK, InHand, Lease
  <2> QED BY <1>2, <1>3, <2>1, <2>2 DEF Consistent, Unregistered
<1>6. Bound'
  <2> SUFFICES ASSUME NEW g \in Token, instance'[g] # None
               PROVE  binding'[instance'[g].presence] \in {g, None}
    BY DEF Bound
  <2>1. CASE g = h
    BY <1>2, <1>3, <2>1
  <2>2. CASE g # h
    <3>1. /\ instance'[g] = instance[g] /\ instance[g].presence # p
          /\ instance[g] \in Lease
      BY <1>2, <2>2 DEF TypeOK
    <3> QED BY <1>3, <3>1 DEF Consistent, Bound, Lease
  <2> QED BY <2>1, <2>2
<1>7. OneToken'
  BY <1>2 DEF Consistent, OneToken
<1>8. ClosedForGood'
  <2> SUFFICES ASSUME NEW x \in Presence, closedAt[x] # None
               PROVE  /\ binding'[x] = None
                      /\ slots'[x] = None
                      /\ \A g \in Token : instance'[g] # None => instance'[g].presence # x
    BY DEF ClosedForGood
  <2>1. x # p
    OBVIOUS
  <2> QED BY <1>2, <1>3, <2>1 DEF Consistent, ClosedForGood
<1> QED BY <1>4, <1>5, <1>6, <1>7, <1>8 DEF Consistent

LEMMA RegisterStep ==
  ASSUME TypeOK, Consistent, NEW q \in Request, RegisterInstance(q)
  PROVE  Consistent'
<1> DEFINE l == req[q].lease
           p == l.presence
           t == [req[q] EXCEPT !.at = "announce"]
<1>1. /\ req[q] \in Task /\ req[q].at = "register"
      /\ l \in Lease /\ req[q].fresh \in Token /\ p \in Presence
  BY DEF RegisterInstance, TypeOK, InHand, Lease
<1>2. \A x \in Presence : Kept[x] \in {slots[x], None}
  BY DEF Kept
<1>3. CASE Cardinality(Taken(Kept)) >= MaxInstances
  BY <1>2, <1>3, DoneStep DEF RegisterInstance
<1>4. CASE ~(Cardinality(Taken(Kept)) >= MaxInstances)
  <2>1. /\ Bind(req[q].fresh, l, {binding[p]}) /\ Go(q, t)
        /\ slots' = [Kept EXCEPT ![p] = Floor(l.expiresAt)]
        /\ UNCHANGED <<closedAt, minted>>
    BY <1>4 DEF RegisterInstance
  <2>2. closedAt[p] = None /\ \A g \in Token : instance[g] # None => instance[g].presence # p
    BY <1>1 DEF Consistent, Unregistered
  <2>3. p \in minted
    BY <1>1, InstancesAssumption DEF Consistent, Drawn
  <2>4. t.at = "announce" /\ t.lease = l
    BY <1>1 DEF Task
  <2>5. \A x \in Presence : x # p => slots'[x] \in {slots[x], None}
    BY <1>2, <2>1 DEF Kept
  <2>6. /\ \A r \in Request : req'[r].lease # None => req'[r].lease.presence \in minted
        /\ \A r \in Request : req'[r].at = "register" => req'[r] = req[r] /\ r # q
    BY <2>1, <2>3, <2>4 DEF TypeOK, Consistent, Drawn
  <2>7. \A r \in Request : req'[r].at = "register" =>
          req'[r] = req[r] /\ req[r].lease.presence # p
    BY <1>1, <2>6 DEF Consistent, Unregistered
  <2> HIDE DEF t, p, l
  <2> QED BY <1>1, <2>1, <2>2, <2>3, <2>5, <2>6, <2>7, BindStep DEF p, l
<1> QED BY <1>3, <1>4

LEMMA RotateStep ==
  ASSUME TypeOK, Consistent, NEW q \in Request, Rotate(q)
  PROVE  Consistent'
<1> DEFINE l == req[q].lease
           p == l.presence
           t == [req[q] EXCEPT !.at = "reply"]
<1>1. /\ req[q] \in Task /\ l \in Lease /\ p \in Presence
      /\ req[q].fresh \in Token /\ req[q].token \in Token
  BY DEF Rotate, TypeOK, InHand, Lease
<1>2. CASE binding[p] # req[q].token
  BY <1>2, DoneStep DEF Rotate
<1>3. CASE binding[p] = req[q].token
  <2>1. /\ Bind(req[q].fresh, l, {req[q].token}) /\ Go(q, t)
        /\ slots' = [slots EXCEPT ![p] = Floor(l.expiresAt)]
        /\ UNCHANGED <<closedAt, minted>>
    BY <1>3 DEF Rotate
  <2>2. binding[p] # None
    BY <1>1, <1>3, InstancesAssumption
  <2>3. closedAt[p] = None /\ p \in minted
    BY <1>1, <2>2 DEF Consistent, ClosedForGood, Drawn
  <2>4. \A g \in Token : instance[g] # None /\ instance[g].presence = p
                          => g = req[q].token
    BY <1>3, <2>2 DEF Consistent, Bound
  <2>5. t.at = "reply" /\ t.lease = l
    BY <1>1 DEF Task
  <2>6. \A x \in Presence : x # p => slots'[x] \in {slots[x], None}
    BY <2>1 DEF TypeOK
  <2>7. /\ \A r \in Request : req'[r].lease # None => req'[r].lease.presence \in minted
        /\ \A r \in Request : req'[r].at = "register" => req'[r] = req[r]
    BY <2>1, <2>3, <2>5 DEF TypeOK, Consistent, Drawn
  <2>8. \A r \in Request : req'[r].at = "register" =>
          req'[r] = req[r] /\ req[r].lease.presence # p
    BY <2>2, <2>7 DEF Consistent, Unregistered
  <2> HIDE DEF t, p, l
  <2> QED BY <1>1, <2>1, <2>3, <2>4, <2>6, <2>7, <2>8, BindStep DEF p, l
<1> QED BY <1>2, <1>3

LEMMA CloseStep ==
  ASSUME TypeOK, Consistent, NEW q \in Request, CloseInstance(q)
  PROVE  Consistent'
<1> DEFINE h == req[q].token
           p == req[q].lease.presence
<1>1. h \in Token /\ req[q].lease \in Lease /\ p \in Presence
  BY DEF CloseInstance, TypeOK, InHand, Lease
<1>2. Done(q) /\ UNCHANGED minted
  BY DEF CloseInstance
<1>3. CASE binding[p] # h
  BY <1>2, <1>3, DoneStep DEF CloseInstance
<1>4. CASE binding[p] = h
  <2>1. /\ instance' = [instance EXCEPT ![h] = None]
        /\ binding' = [binding EXCEPT ![p] = None]
        /\ slots' = [slots EXCEPT ![p] = None]
        /\ closedAt' = [closedAt EXCEPT ![p] = clock]
    BY <1>4 DEF CloseInstance
  <2>2. binding[p] # None
    BY <1>1, <1>4, InstancesAssumption
  <2>3. /\ \A r \in Request : req'[r].lease # None => req'[r].lease.presence \in minted
        /\ \A r \in Request : req'[r].at = "register" => req'[r] = req[r] /\ r # q
    <3>1. Rest.at # "register" /\ Rest.lease = None
      BY DEF Rest
    <3>2. Go(q, Rest)
      BY <1>2 DEF Done
    <3>3. \A r \in Request : req'[r] = IF r = q THEN Rest ELSE req[r]
      BY <3>2 DEF TypeOK
    <3> HIDE DEF Rest
    <3> QED BY <3>1, <3>3 DEF Consistent, Drawn
  <2>4. Drawn'
    BY <1>1, <1>2, <2>1, <2>2, <2>3 DEF TypeOK, Consistent, Drawn
  <2>5. \A r \in Request : req[r].at = "register" => req[r].lease.presence \in Presence \ {p}
    BY <2>2 DEF TypeOK, InHand, Lease, Consistent, Unregistered
  <2>6. Unregistered'
    <3> SUFFICES ASSUME NEW r \in Request, req'[r].at = "register"
                 PROVE  LET x == req'[r].lease.presence IN
                        /\ binding'[x] = None
                        /\ closedAt'[x] = None
                        /\ \A g \in Token : instance'[g] # None => instance'[g].presence # x
                        /\ \A z \in Request : req'[z].at = "register" /\ z # r
                                                => req'[z].lease.presence # x
      BY DEF Unregistered
    <3>1. /\ req'[r] = req[r] /\ req[r].at = "register"
          /\ req[r].lease.presence \in Presence \ {p}
      BY <2>3, <2>5
    <3>2. \A z \in Request : req'[z].at = "register" => req'[z] = req[z]
      BY <2>3
    <3> QED BY <2>1, <3>1, <3>2 DEF TypeOK, Consistent, Unregistered
  <2>7. Bound'
    BY <1>1, <1>4, <2>1, <2>2 DEF TypeOK, Lease, Consistent, Bound
  <2>8. OneToken'
    BY <2>1 DEF TypeOK, Consistent, OneToken
  <2>9. \A g \in Token : instance[g] # None /\ instance[g].presence = p => g = h
    BY <1>4, <2>2 DEF Consistent, Bound
  <2>10. ClosedForGood'
    BY <1>1, <2>1, <2>9 DEF TypeOK, Consistent, ClosedForGood
  <2> QED BY <2>4, <2>6, <2>7, <2>8, <2>10 DEF Consistent
<1> QED BY <1>3, <1>4

LEMMA ConsistentInvariant == Spec => []Consistent
<1>1. Init => Consistent
  BY DEF Init, Consistent, Drawn, Unregistered, Bound, OneToken, ClosedForGood, Rest
<1>2. TypeOK /\ Consistent /\ [Next]_vars => Consistent'
  <2> SUFFICES ASSUME TypeOK, Consistent, [Next]_vars PROVE Consistent'
    OBVIOUS
  <2>1. ASSUME NEW q \in Request, Announce(q) PROVE Consistent'
    <3> DEFINE t == [req[q] EXCEPT !.at = "deleteRead", !.token = req[q].fresh]
    <3>1. /\ UNCHANGED <<instance, binding, slots, closedAt, minted>>
          /\ Done(q) \/ Go(q, t)
      BY <2>1, Zenon DEF Announce, ghosts
    <3>2. t.at = "deleteRead" /\ t.lease = req[q].lease
      BY DEF TypeOK, Task
    <3>3. t.lease # None => t.lease.presence \in minted
      BY <3>2 DEF Consistent, Drawn
    <3> HIDE DEF t
    <3> QED BY <3>1, <3>2, <3>3, ReadStep, DoneStep
  <2>2. ASSUME NEW q \in Request,
               Reply(q) \/ Clear(q) \/ DeleteInstance(q) \/ Cancel(q)
        PROVE  Consistent'
    <3>1. /\ Done(q) /\ UNCHANGED <<closedAt, minted>>
          /\ \A h \in Token : instance'[h] \in {instance[h], None}
          /\ \A p \in Presence : binding'[p] \in {binding[p], None}
          /\ \A p \in Presence : slots'[p] \in {slots[p], None}
      BY <2>2 DEF Reply, Clear, DeleteInstance, Cancel, TypeOK
    <3> QED BY <3>1, DoneStep
  <2>3. ASSUME NEW q \in Request, NEW ttl \in PublishTtl, Publish(q, ttl)
        PROVE  Consistent'
    BY <2>3, DoneStep DEF Publish
  <2>4. ASSUME NEW q \in Request, ClearRead(q) PROVE Consistent'
    <3> DEFINE t == [req[q] EXCEPT !.at = "clear"]
    <3>1. /\ UNCHANGED <<instance, binding, slots, closedAt, minted>>
          /\ Done(q) \/ Go(q, t)
      BY <2>4, Zenon DEF ClearRead
    <3>2. t.at = "clear" /\ t.lease = req[q].lease
      BY DEF TypeOK, Task
    <3>3. t.lease # None => t.lease.presence \in minted
      BY <3>2 DEF Consistent, Drawn
    <3> HIDE DEF t
    <3> QED BY <3>1, <3>2, <3>3, ReadStep, DoneStep
  <2>5. ASSUME NEW q \in Request, DeleteRead(q) PROVE Consistent'
    <3> DEFINE l == instance[req[q].token]
               t == [req[q] EXCEPT !.at = "delete", !.lease = l]
    <3>1. /\ UNCHANGED <<instance, binding, slots, closedAt, minted>>
          /\ Done(q) \/ (l # None /\ Go(q, t))
      BY <2>5, Zenon DEF DeleteRead
    <3>2. t.at = "delete" /\ t.lease = l
      BY DEF TypeOK, Task
    <3>3. req[q].token \in Token
      BY <2>5 DEF DeleteRead, TypeOK, InHand
    <3>4. t.lease # None => t.lease.presence \in minted
      BY <3>2, <3>3 DEF Consistent, Drawn
    <3> HIDE DEF t
    <3> QED BY <3>1, <3>2, <3>4, ReadStep, DoneStep
  <2>6. ASSUME NEW q \in Request, NEW h \in Token, FindExpired(q, h) PROVE Consistent'
    <3> DEFINE t == [Rest EXCEPT !.at = "deleteRead", !.since = clock, !.token = h]
    <3>1. t.at = "deleteRead" /\ t.lease = None
      BY DEF Rest
    <3>2. Go(q, t) /\ UNCHANGED <<instance, binding, slots, closedAt, minted>>
      BY <2>6 DEF FindExpired
    <3> HIDE DEF t
    <3> QED BY <3>1, <3>2, ReadStep
  <2>7. ASSUME NEW q \in Request, NEW h \in Token,
               NEW label \in {"close", "publish", "clearRead"}, Begin(q, h, label)
        PROVE  Consistent'
    <3> DEFINE t == [at |-> label, since |-> clock, token |-> h, lease |-> instance[h],
                     fresh |-> None]
    <3>1. Go(q, t) /\ UNCHANGED <<instance, binding, slots, closedAt, minted>>
      BY <2>7 DEF Begin
    <3>2. t.at # "register" /\ (t.lease # None => t.lease.presence \in minted)
      BY DEF Consistent, Drawn
    <3> HIDE DEF t
    <3> QED BY <3>1, <3>2, ReadStep
  <2>8. ASSUME NEW q \in Request, NEW h \in Token, BeginRenew(q, h) PROVE Consistent'
    <3> DEFINE l == [instance[h] EXCEPT !.expiresAt = clock + InstanceTtl]
    <3>1. PICK g \in Token \ minted :
            /\ Go(q, [at |-> "rotate", since |-> clock, token |-> h, lease |-> l,
                      fresh |-> g])
            /\ minted' = minted \cup {g}
      BY <2>8, Zenon DEF BeginRenew
    <3> DEFINE t == [at |-> "rotate", since |-> clock, token |-> h, lease |-> l,
                     fresh |-> g]
    <3>2. instance[h] \in Lease /\ instance[h] # None
      BY <2>8, InstancesAssumption DEF BeginRenew, Authenticated, TypeOK
    <3>3. l.presence \in minted
      BY <3>2 DEF Lease, Consistent, Drawn
    <3>4. UNCHANGED <<instance, binding, slots, closedAt>>
      BY <2>8 DEF BeginRenew
    <3>5. t.at # "register" /\ t.lease = l
      OBVIOUS
    <3>6. Go(q, t) /\ minted \subseteq minted'
      BY <3>1
    <3> HIDE DEF t, l
    <3> QED BY <3>3, <3>4, <3>5, <3>6, ReadStep
  <2>9. ASSUME UNCHANGED req, UNCHANGED <<slots, closedAt, minted>>,
               \A h \in Token : instance'[h] \in {instance[h], None},
               \A p \in Presence : binding'[p] \in {binding[p], None}
        PROVE  Consistent'
    BY <2>9, ShrinkStep DEF Consistent, Drawn
  <2>10. CASE Tick
    BY <2>9, <2>10 DEF Tick
  <2>11. CASE UNCHANGED vars
    BY <2>9, <2>11 DEF vars
  <2> QED
    BY <2>1, <2>2, <2>3, <2>4, <2>5, <2>6, <2>7, <2>8, <2>10, <2>11,
       BeginCreateStep, RegisterStep, RotateStep, CloseStep, NextCases
<1> QED BY <1>1, <1>2, TypeCorrect, PTL DEF Spec

(* At any time at most one token authenticates as a given Presence: of the *)
(* renewals that race with one token, one wins.                            *)
THEOREM OneTokenHolds == Spec => []OneToken
<1>1. Consistent => OneToken
  BY DEF Consistent
<1> QED BY <1>1, ConsistentInvariant, PTL

(* A closed instance stays closed: neither a registration nor a renewal    *)
(* that was under way brings its token, its mapping or its slot back.      *)
THEOREM ClosedForGoodHolds == Spec => []ClosedForGood
<1>1. Consistent => ClosedForGood
  BY DEF Consistent
<1> QED BY <1>1, ConsistentInvariant, PTL
-----------------------------------------------------------------------------
(* What a publish under way leaves behind a closure.                       *)

\* A request that may still store a Presence.
Storing(t) == t.at \in {"announce", "publish"}

InTimes(t, now) == t.at # "idle" => t.since <= now /\ now <= t.since + RequestTimeout

\* It had begun by the time the instance was closed.
Overtaken(t, closed) ==
  Storing(t) /\ closed[t.lease.presence] # None => t.since <= closed[t.lease.presence]

\* The last moment of a Presence that is stored at all.
Brief(p, stored, now, closed) ==
  /\ stored[p] = 0 \/ now < stored[p]
  /\ closed[p] # None => stored[p] <= closed[p] + RequestTimeout + MaxPresenceTtl

Passing ==
  /\ \A q \in Request : InTimes(req[q], clock) /\ Overtaken(req[q], closedAt)
  /\ \A p \in Presence : Brief(p, presence, clock, closedAt)

LEMMA RestPasses == \A now, closed : InTimes(Rest, now) /\ Overtaken(Rest, closed)
BY DEF InTimes, Overtaken, Storing, Rest

\* One request goes on; Presences stay, are removed, or are stored briefly.
LEMMA PassingStep ==
  ASSUME TypeOK, Passing, UNCHANGED <<clock, closedAt>>,
         NEW q \in Request, NEW t, Go(q, t),
         InTimes(t, clock), Overtaken(t, closedAt),
         \A p \in Presence : presence'[p] \in {presence[p], 0}
                               \/ Brief(p, presence', clock, closedAt)
  PROVE  Passing'
<1>1. \A r \in Request : req'[r] = t \/ req'[r] = req[r]
  BY DEF TypeOK
<1>2. ASSUME NEW p \in Presence PROVE Brief(p, presence', clock', closedAt')
  <2>1. CASE presence'[p] \in {presence[p], 0}
    <3>1. Brief(p, presence, clock, closedAt)
      BY DEF Passing
    <3>2. closedAt[p] # None => closedAt[p] + RequestTimeout + MaxPresenceTtl \in Nat
      BY InstancesAssumption DEF TypeOK
    <3> QED BY <2>1, <3>1, <3>2 DEF Brief
  <2>2. CASE Brief(p, presence', clock, closedAt)
    BY <2>2
  <2> QED BY <2>1, <2>2
<1>3. \A r \in Request : InTimes(req'[r], clock') /\ Overtaken(req'[r], closedAt')
  BY <1>1 DEF Passing
<1> QED BY <1>2, <1>3 DEF Passing

\* A request that goes on with what it began with, to where it stores nothing.
LEMMA PassingMove ==
  ASSUME TypeOK, Passing, UNCHANGED <<clock, closedAt>>,
         NEW q \in Request, NEW t, Go(q, t),
         t.at \notin {"announce", "publish"},
         t.at # "idle" => \/ req[q].at # "idle" /\ t.since = req[q].since
                          \/ t.since = clock,
         \A p \in Presence : presence'[p] \in {presence[p], 0}
  PROVE  Passing'
<1>1. InTimes(t, clock)
  <2>1. clock <= clock + RequestTimeout /\ clock <= clock
    BY InstancesAssumption DEF TypeOK
  <2> QED BY <2>1 DEF Passing, InTimes
<1>2. Overtaken(t, closedAt)
  BY DEF Overtaken, Storing
<1> QED BY <1>1, <1>2, PassingStep

\* What a request that may store a Presence stores is brief enough.
LEMMA StoredBriefly ==
  ASSUME TypeOK, Passing, NEW q \in Request, Storing(req[q]), NEW ttl \in 1..MaxPresenceTtl,
         presence' = [presence EXCEPT ![req[q].lease.presence] = clock + ttl]
  PROVE  \A p \in Presence : presence'[p] \in {presence[p], 0}
                               \/ Brief(p, presence', clock, closedAt)
<1> DEFINE x == req[q].lease.presence
<1>1. x \in Presence /\ req[q].since \in Nat /\ req[q].at # "idle"
  BY DEF TypeOK, InHand, Lease, Storing, Task
<1>2. clock \in Nat /\ ttl \in Nat /\ ttl > 0 /\ ttl <= MaxPresenceTtl
      /\ MaxPresenceTtl \in Nat /\ RequestTimeout \in Nat
      /\ closedAt[x] \in Nat \cup {None}
  BY <1>1, InstancesAssumption DEF TypeOK
<1>3. clock <= req[q].since + RequestTimeout
      /\ (closedAt[x] # None => req[q].since <= closedAt[x])
  BY <1>1 DEF Passing, InTimes, Overtaken
<1>4. clock < clock + ttl
      /\ (closedAt[x] # None => clock + ttl <= closedAt[x] + RequestTimeout + MaxPresenceTtl)
  BY <1>1, <1>2, <1>3
<1>5. presence'[x] = clock + ttl /\ \A p \in Presence : p # x => presence'[p] = presence[p]
  BY <1>1 DEF TypeOK
<1> HIDE DEF x
<1> QED BY <1>4, <1>5 DEF Brief

LEMMA PassingInvariant == Spec => []Passing
<1>1. Init => Passing
  BY RestPasses DEF Init, Passing, Brief
<1>2. TypeOK /\ TypeOK' /\ Consistent /\ Passing /\ [Next]_vars => Passing'
  <2> SUFFICES ASSUME TypeOK, TypeOK', Consistent, Passing, [Next]_vars PROVE Passing'
    OBVIOUS
  <2>0. \A q \in Request : req[q] \in Task
    BY DEF TypeOK
  <2>1. ASSUME NEW q \in Request, Done(q), UNCHANGED <<clock, closedAt>>,
               \A p \in Presence : presence'[p] \in {presence[p], 0}
        PROVE  Passing'
    BY <2>1, PassingMove DEF Done, Rest
  <2>2. ASSUME NEW q \in Request, BeginCreate(q) PROVE Passing'
    <3>1. PICK p \in Presence \ minted, h \in Token \ minted :
            Go(q, [at |-> "register", since |-> clock, token |-> None,
                   lease |-> [presence |-> p, expiresAt |-> clock + InstanceTtl],
                   fresh |-> h])
      BY <2>2, Zenon DEF BeginCreate
    <3> QED BY <2>2, <3>1, PassingMove DEF BeginCreate
  <2>3. ASSUME NEW q \in Request, RegisterInstance(q) PROVE Passing'
    <3> DEFINE t == [req[q] EXCEPT !.at = "announce"]
    <3>1. UNCHANGED <<clock, presence, closedAt>> /\ (Done(q) \/ Go(q, t))
      BY <2>3 DEF RegisterInstance
    <3>2. CASE Done(q)
      BY <2>1, <3>1, <3>2
    <3>3. CASE Go(q, t)
      <4>1. t.since = req[q].since /\ t.lease = req[q].lease /\ req[q].at = "register"
        BY <2>0, <2>3 DEF RegisterInstance, Task
      <4>2. closedAt[req[q].lease.presence] = None
        BY <4>1 DEF Consistent, Unregistered
      <4>3. InTimes(t, clock) /\ Overtaken(t, closedAt)
        BY <4>1, <4>2 DEF Passing, InTimes, Overtaken
      <4> HIDE DEF t
      <4> QED BY <3>1, <3>3, <4>3, PassingStep
    <3> QED BY <3>1, <3>2, <3>3
  <2>4. ASSUME NEW q \in Request, Announce(q) PROVE Passing'
    <3> DEFINE t == [req[q] EXCEPT !.at = "deleteRead", !.token = req[q].fresh]
               announced == [presence EXCEPT ![req[q].lease.presence] = clock + InitialTtl]
    <3>1. /\ UNCHANGED <<clock, closedAt>>
          /\ presence' \in {presence, announced}
          /\ Done(q) \/ Go(q, t)
      BY <2>4, Zenon DEF Announce, ghosts
    <3>2. \A p \in Presence : presence'[p] \in {presence[p], 0}
                                \/ Brief(p, presence', clock, closedAt)
      <4>1. CASE presence' = presence
        BY <4>1
      <4>2. CASE presence' = announced
        BY <2>4, <4>2, StoredBriefly, InstancesAssumption DEF Announce, Storing
      <4> QED BY <3>1, <4>1, <4>2
    <3>3. InTimes(t, clock) /\ Overtaken(t, closedAt)
      <4>1. t.at = "deleteRead" /\ t.since = req[q].since /\ req[q].at = "announce"
        BY <2>0, <2>4 DEF Announce, Task
      <4> QED BY <4>1 DEF Passing, InTimes, Overtaken, Storing
    <3> HIDE DEF t, announced
    <3> QED BY <3>1, <3>2, <3>3, PassingStep, RestPasses DEF Done
  <2>5. ASSUME NEW q \in Request, Rotate(q) PROVE Passing'
    <3> DEFINE t == [req[q] EXCEPT !.at = "reply"]
    <3>1. UNCHANGED <<clock, presence, closedAt>> /\ (Done(q) \/ Go(q, t))
      BY <2>5 DEF Rotate
    <3>2. t.at = "reply" /\ t.since = req[q].since /\ req[q].at = "rotate"
      BY <2>0, <2>5 DEF Rotate, Task
    <3> HIDE DEF t
    <3> QED BY <2>1, <3>1, <3>2, PassingMove
  <2>6. ASSUME NEW q \in Request, Reply(q) \/ Clear(q) \/ DeleteInstance(q) \/ Cancel(q)
        PROVE  Passing'
    <3>1. /\ Done(q) /\ UNCHANGED <<clock, closedAt>>
          /\ \A p \in Presence : presence'[p] \in {presence[p], 0}
      BY <2>6 DEF Reply, Clear, DeleteInstance, Cancel, TypeOK
    <3> QED BY <2>1, <3>1
  <2>7. ASSUME NEW q \in Request, CloseInstance(q) PROVE Passing'
    <3> DEFINE x == req[q].lease.presence
    <3>1. Done(q) /\ UNCHANGED clock /\ x \in Presence
      BY <2>7 DEF CloseInstance, TypeOK, InHand, Lease
    <3>2. CASE UNCHANGED <<presence, closedAt>>
      BY <2>1, <3>1, <3>2
    <3>3. CASE presence' = [presence EXCEPT ![x] = 0] /\ closedAt' = [closedAt EXCEPT ![x] = clock]
      <4>1. clock \in Nat /\ clock + RequestTimeout + MaxPresenceTtl \in Nat
        BY InstancesAssumption DEF TypeOK
      <4>2. \A p \in Presence : Brief(p, presence', clock', closedAt')
        BY <3>1, <3>3, <4>1 DEF TypeOK, Passing, Brief
      <4>3. ASSUME NEW r \in Request
            PROVE  InTimes(req'[r], clock') /\ Overtaken(req'[r], closedAt')
        <5>1. CASE req'[r] = Rest
          BY <5>1, RestPasses
        <5>2. CASE req'[r] = req[r]
          <6>1. InTimes(req[r], clock) /\ Overtaken(req[r], closedAt)
            BY DEF Passing
          <6>2. ASSUME Storing(req[r]) PROVE req[r].lease.presence \in Presence
            BY <6>2 DEF TypeOK, InHand, Storing, Lease
          <6>3. Storing(req[r]) => req[r].since <= clock
            BY <6>1 DEF InTimes, Storing
          <6>4. Overtaken(req[r], closedAt')
            BY <3>1, <3>3, <6>1, <6>2, <6>3 DEF TypeOK, Overtaken
          <6> QED BY <3>1, <5>2, <6>1, <6>4
        <5> QED BY <3>1, <5>1, <5>2 DEF Done, TypeOK
      <4> QED BY <4>2, <4>3 DEF Passing
    <3> QED BY <2>7, <3>2, <3>3 DEF CloseInstance
  <2>8. ASSUME NEW q \in Request, NEW ttl \in PublishTtl, Publish(q, ttl) PROVE Passing'
    <3>1. \A p \in Presence : presence'[p] \in {presence[p], 0}
                                \/ Brief(p, presence', clock, closedAt)
      BY <2>8, StoredBriefly, InstancesAssumption DEF Publish, Storing
    <3>2. Go(q, Rest) /\ UNCHANGED <<clock, closedAt>>
      BY <2>8 DEF Publish, Done
    <3> QED BY <3>1, <3>2, RestPasses, PassingStep
  <2>9. ASSUME NEW q \in Request, ClearRead(q) PROVE Passing'
    <3> DEFINE t == [req[q] EXCEPT !.at = "clear"]
    <3>1. UNCHANGED <<clock, presence, closedAt>> /\ (Done(q) \/ Go(q, t))
      BY <2>9, Zenon DEF ClearRead, redis, ghosts
    <3>2. t.at = "clear" /\ t.since = req[q].since /\ req[q].at = "clearRead"
      BY <2>0, <2>9 DEF ClearRead, Task
    <3> HIDE DEF t
    <3> QED BY <2>1, <3>1, <3>2, PassingMove
  <2>10. ASSUME NEW q \in Request, DeleteRead(q) PROVE Passing'
    <3> DEFINE t == [req[q] EXCEPT !.at = "delete", !.lease = instance[req[q].token]]
    <3>1. UNCHANGED <<clock, presence, closedAt>> /\ (Done(q) \/ Go(q, t))
      BY <2>10, Zenon DEF DeleteRead, redis, ghosts
    <3>2. t.at = "delete" /\ t.since = req[q].since /\ req[q].at = "deleteRead"
      BY <2>0, <2>10 DEF DeleteRead, Task
    <3> HIDE DEF t
    <3> QED BY <2>1, <3>1, <3>2, PassingMove
  <2>11. ASSUME NEW q \in Request, NEW h \in Token, FindExpired(q, h) PROVE Passing'
    <3> DEFINE t == [Rest EXCEPT !.at = "deleteRead", !.since = clock, !.token = h]
    <3>1. Go(q, t) /\ UNCHANGED <<clock, presence, closedAt>>
      BY <2>11 DEF FindExpired
    <3>2. t.at = "deleteRead" /\ t.since = clock
      BY DEF Rest
    <3> HIDE DEF t
    <3> QED BY <3>1, <3>2, PassingMove
  <2>12. ASSUME NEW q \in Request, NEW h \in Token,
                NEW label \in {"close", "publish", "clearRead"}, Begin(q, h, label)
         PROVE  Passing'
    <3> DEFINE t == [at |-> label, since |-> clock, token |-> h, lease |-> instance[h],
                     fresh |-> None]
    <3>1. Go(q, t) /\ UNCHANGED <<clock, presence, closedAt>>
      BY <2>12 DEF Begin
    <3>2. instance[h] \in Lease /\ instance[h] # None
      BY <2>12 DEF Begin, Authenticated, TypeOK
    <3>3. closedAt[instance[h].presence] = None
      BY <3>2 DEF Lease, Consistent, ClosedForGood
    <3>4. clock <= clock /\ clock <= clock + RequestTimeout
      BY InstancesAssumption DEF TypeOK
    <3>5. InTimes(t, clock) /\ Overtaken(t, closedAt)
      BY <3>3, <3>4 DEF InTimes, Overtaken
    <3> HIDE DEF t
    <3> QED BY <3>1, <3>5, PassingStep
  <2>13. ASSUME NEW q \in Request, NEW h \in Token, BeginRenew(q, h) PROVE Passing'
    <3>1. PICK g \in Token \ minted :
            Go(q, [at |-> "rotate", since |-> clock, token |-> h,
                   lease |-> [instance[h] EXCEPT !.expiresAt = clock + InstanceTtl],
                   fresh |-> g])
      BY <2>13, Zenon DEF BeginRenew
    <3> QED BY <2>13, <3>1, PassingMove DEF BeginRenew
  <2>14. CASE Tick
    <3>1. /\ clock \in Nat /\ RequestTimeout \in Nat /\ clock' = clock + 1
          /\ UNCHANGED <<req, closedAt>>
      BY <2>14, InstancesAssumption DEF Tick, TypeOK
    <3>2. ASSUME NEW p \in Presence PROVE Brief(p, presence', clock', closedAt')
      <4>1. presence[p] \in Nat /\ Brief(p, presence, clock, closedAt)
            /\ presence'[p] = IF presence[p] <= clock + 1 THEN 0 ELSE presence[p]
        BY <2>14 DEF Tick, TypeOK, Passing
      <4>2. closedAt[p] # None => closedAt[p] + RequestTimeout + MaxPresenceTtl \in Nat
        BY InstancesAssumption DEF TypeOK
      <4> QED BY <3>1, <4>1, <4>2 DEF Brief
    <3>3. ASSUME NEW r \in Request PROVE InTimes(req[r], clock')
      <4>1. req[r].at = "idle" \/ clock < req[r].since + RequestTimeout
        BY <2>14 DEF Tick, InTime
      <4>2. req[r].since \in Nat /\ InTimes(req[r], clock)
        BY DEF TypeOK, Task, Passing
      <4> QED BY <3>1, <4>1, <4>2 DEF InTimes
    <3> QED BY <3>1, <3>2, <3>3 DEF Passing
  <2>15. CASE UNCHANGED vars
    BY <2>15 DEF vars, Passing
  <2> QED
    BY <2>2, <2>3, <2>4, <2>5, <2>6, <2>7, <2>8, <2>9, <2>10, <2>11, <2>12, <2>13,
       <2>14, <2>15, NextCases
<1> QED BY <1>1, <1>2, TypeCorrect, ConsistentInvariant, PTL DEF Spec

(* A publish (or a first announcement) that was authenticated before the   *)
(* closure and stores the Presence after it does not leave it behind for   *)
(* longer than the time of a request and the time of a Presence.           *)
THEOREM PresenceEndsHolds == Spec => []PresenceEnds
<1>1. TypeOK /\ Passing => PresenceEnds
  <2> SUFFICES ASSUME TypeOK, Passing, NEW p \in Presence, closedAt[p] # None,
                      clock >= closedAt[p] + RequestTimeout + MaxPresenceTtl
               PROVE  presence[p] = 0
    BY DEF PresenceEnds
  <2>1. /\ closedAt[p] \in Nat /\ clock \in Nat /\ presence[p] \in Nat
        /\ RequestTimeout \in Nat /\ MaxPresenceTtl \in Nat
    BY InstancesAssumption DEF TypeOK
  <2>2. Brief(p, presence, clock, closedAt)
    BY DEF Passing
  <2> QED BY <2>1, <2>2 DEF Brief
<1> QED BY <1>1, PassingInvariant, TypeCorrect, PTL
-----------------------------------------------------------------------------
(* Who holds which token, and what may be deleted.                         *)

\* A request that has drawn a token and has not passed it on.
Drawing(t) == t.at \in {"register", "announce", "rotate", "reply"}
Deleting(t) == t.at \in {"deleteRead", "delete"}

\* A token is deleted when it is over, or when nobody will ever be given it.
Discarded(h, now, given, drawn, requests) ==
  \/ given[h] # None /\ given[h] <= now
  \/ /\ given[h] = None /\ h \in drawn
     /\ \A q \in Request : Drawing(requests[q]) => requests[q].fresh # h

Held ==
  /\ \A h \in Token : known[h] # None => h \in minted
  /\ \A q \in Request : Drawing(req[q]) =>
       req[q].fresh \in minted /\ known[req[q].fresh] = None
  /\ \A q, r \in Request :
       Drawing(req[q]) /\ Drawing(req[r]) /\ req[q].fresh = req[r].fresh => q = r
  /\ \A q \in Request : Deleting(req[q]) => Discarded(req[q].token, clock, known, minted, req)

\* One request goes on, and its client is given nothing.
LEMMA HeldStep ==
  ASSUME TypeOK, TypeOK', Held, UNCHANGED <<clock, known>>, minted \subseteq minted',
         NEW q \in Request, NEW t, Go(q, t),
         Drawing(t) => \/ Drawing(req[q]) /\ t.fresh = req[q].fresh
                       \/ t.fresh \in (minted' \cap Token) \ minted,
         Deleting(t) => \/ Deleting(req[q]) /\ t.token = req[q].token
                        \/ known[t.token] # None /\ known[t.token] <= clock
                        \/ Drawing(req[q]) /\ t.token = req[q].fresh
  PROVE  Held'
<1>1. req'[q] = t /\ \A r \in Request : r # q => req'[r] = req[r]
  BY DEF TypeOK
<1>2. \A r \in Request : Drawing(req[r]) => req[r].fresh \in Token
  BY DEF TypeOK, InHand, Drawing
<1>3. \A r \in Request : Drawing(req'[r]) =>
        req'[r].fresh \in minted' /\ known[req'[r].fresh] = None
  BY <1>1 DEF Held
<1>4. \A r, s \in Request :
        Drawing(req'[r]) /\ Drawing(req'[s]) /\ req'[r].fresh = req'[s].fresh => r = s
  BY <1>1 DEF Held
<1>5. ASSUME NEW h, Discarded(h, clock, known, minted, req),
             Drawing(t) => t.fresh # h
      PROVE  Discarded(h, clock', known', minted', req')
  BY <1>1, <1>5 DEF Discarded
<1>6. ASSUME NEW r \in Request, Deleting(req'[r])
      PROVE  Discarded(req'[r].token, clock', known', minted', req')
  <2>1. CASE r # q
    <3>1. req'[r] = req[r] /\ Discarded(req[r].token, clock, known, minted, req)
      BY <1>1, <1>6, <2>1 DEF Held
    <3>2. Drawing(t) => t.fresh # req[r].token
      BY <3>1 DEF Held, Discarded
    <3> QED BY <3>1, <3>2, <1>5
  <2>2. CASE r = q
    <3>1. ~ Drawing(t) /\ Deleting(t) /\ req'[r] = t
      BY <1>1, <1>6, <2>2 DEF Drawing, Deleting
    <3>2. CASE Deleting(req[q]) /\ t.token = req[q].token
      BY <1>5, <3>1, <3>2 DEF Held
    <3>3. CASE known[t.token] # None /\ known[t.token] <= clock
      BY <3>1, <3>3 DEF Discarded
    <3>4. CASE Drawing(req[q]) /\ t.token = req[q].fresh
      <4>1. known[t.token] = None /\ t.token \in minted
        BY <3>4 DEF Held
      <4>2. \A s \in Request : Drawing(req'[s]) => req'[s].fresh # t.token
        BY <1>1, <3>1, <3>4 DEF Held
      <4> QED BY <3>1, <4>1, <4>2 DEF Discarded
    <3> QED BY <3>1, <3>2, <3>3, <3>4
  <2> QED BY <2>1, <2>2
<1> QED BY <1>3, <1>4, <1>6 DEF Held

\* The client of a request is given the token it has drawn.
LEMMA HeldGrant ==
  ASSUME TypeOK, TypeOK', Held, UNCHANGED <<clock, minted>>,
         NEW q \in Request, Drawing(req[q]), Done(q), NEW e \in Nat,
         known' = [known EXCEPT ![req[q].fresh] = e]
  PROVE  Held'
<1> DEFINE h == req[q].fresh
<1>1. ~ Drawing(Rest) /\ ~ Deleting(Rest)
  BY DEF Drawing, Deleting, Rest
<1>2. req'[q] = Rest /\ \A r \in Request : r # q => req'[r] = req[r]
  BY DEF TypeOK, Done
<1>3. h \in Token /\ h \in minted /\ known[h] = None
  BY DEF TypeOK, InHand, Drawing, Held
<1>4. known'[h] = e /\ \A g \in Token : g # h => known'[g] = known[g]
  BY <1>3 DEF TypeOK
<1>5. ASSUME NEW r \in Request, Drawing(req'[r])
      PROVE  req'[r].fresh \in minted /\ known'[req'[r].fresh] = None
  <2>1. r # q /\ req'[r] = req[r]
    BY <1>1, <1>2, <1>5
  <2>2. req[r].fresh \in Token /\ req[r].fresh # h
    BY <1>5, <2>1 DEF TypeOK, InHand, Drawing, Held
  <2> QED BY <1>4, <1>5, <2>1, <2>2 DEF Held
<1>6. ASSUME NEW r \in Request, Deleting(req'[r])
      PROVE  Discarded(req'[r].token, clock', known', minted', req')
  <2>1. r # q /\ req'[r] = req[r]
    BY <1>1, <1>2, <1>6
  <2>2. req[r].token \in Token /\ Discarded(req[r].token, clock, known, minted, req)
    BY <1>6, <2>1 DEF TypeOK, InHand, Deleting, Held
  <2>3. req[r].token # h
    BY <1>3, <2>2 DEF Discarded
  <2>4. \A s \in Request : Drawing(req'[s]) => req'[s] = req[s]
    BY <1>1, <1>2
  <2> QED BY <1>4, <2>1, <2>2, <2>3, <2>4 DEF Discarded
<1>7. \A r, s \in Request :
        Drawing(req'[r]) /\ Drawing(req'[s]) /\ req'[r].fresh = req'[s].fresh => r = s
  BY <1>1, <1>2 DEF Held
<1>8. \A g \in Token : known'[g] # None => g \in minted'
  BY <1>3, <1>4 DEF Held
<1> QED BY <1>5, <1>6, <1>7, <1>8 DEF Held

\* Requests stand still while time passes.
LEMMA HeldLater ==
  ASSUME TypeOK, TypeOK', Held, UNCHANGED <<req, known, minted>>, clock <= clock'
  PROVE  Held'
<1>1. ASSUME NEW h \in Token, Discarded(h, clock, known, minted, req) PROVE Discarded(h, clock', known', minted', req')
  <2>1. known[h] \in Nat \cup {None} /\ clock \in Nat /\ clock' \in Nat
    BY DEF TypeOK
  <2> QED BY <1>1, <2>1, InstancesAssumption DEF Discarded
<1>2. \A q \in Request : Deleting(req[q]) => req[q].token \in Token
  BY DEF TypeOK, InHand, Deleting
<1> QED BY <1>1, <1>2 DEF Held
-----------------------------------------------------------------------------
(* How long a token lasts.                                                 *)

\* h authenticates until e, unless it has ended.
Lasting(h, e, leases, ends, now) ==
  /\ leases[h] # None => leases[h].expiresAt = e
  /\ ends[h] = "none" /\ now < e => leases[h] # None

\* A request that has stored the token it has drawn.
Stored(t) == t.at \in {"announce", "reply"}
Planning(t) == t.at \in {"register", "rotate"}

Enduring ==
  /\ \A q \in Request : Planning(req[q]) => req[q].lease.expiresAt <= clock + InstanceTtl
  /\ \A h \in Token : instance[h] # None => instance[h].expiresAt <= until[h]
  /\ \A h \in Token : known[h] # None => Lasting(h, known[h], instance, ended, clock)
  /\ \A q \in Request : Stored(req[q]) =>
       Lasting(req[q].fresh, req[q].lease.expiresAt, instance, ended, clock)

\* The tokens that count: those a client has, and those one will be given.
Granted(h) == known[h] # None \/ \E q \in Request : Stored(req[q]) /\ req[q].fresh = h

\* One request goes on.  What it deletes is renewed, closed or over.
LEMMA EnduringStep ==
  ASSUME TypeOK, TypeOK', Held, Enduring, UNCHANGED <<clock, known>>,
         \A h \in Token : instance'[h] # None => instance'[h].expiresAt <= until'[h],
         \A h \in Token : Granted(h) =>
           \A e \in Nat : Lasting(h, e, instance, ended, clock)
                            => Lasting(h, e, instance', ended', clock),
         NEW q \in Request, NEW t, Go(q, t),
         Planning(t) => t.lease.expiresAt <= clock + InstanceTtl,
         Stored(t) => Lasting(t.fresh, t.lease.expiresAt, instance', ended', clock)
  PROVE  Enduring'
<1>1. req'[q] = t /\ \A r \in Request : r # q => req'[r] = req[r]
  BY DEF TypeOK
<1>2. ASSUME NEW h \in Token, known'[h] # None
      PROVE  Lasting(h, known'[h], instance', ended', clock')
  <2>1. known[h] \in Nat /\ Granted(h) /\ Lasting(h, known[h], instance, ended, clock)
    BY <1>2 DEF TypeOK, Granted, Enduring
  <2> QED BY <2>1
<1>3. ASSUME NEW r \in Request, Stored(req'[r])
      PROVE  Lasting(req'[r].fresh, req'[r].lease.expiresAt, instance', ended', clock')
  <2>1. CASE r = q
    BY <1>1, <1>3, <2>1
  <2>2. CASE r # q
    <3>1. req'[r] = req[r] /\ req[r].fresh \in Token /\ req[r].lease.expiresAt \in Nat
      BY <1>1, <1>3, <2>2 DEF TypeOK, InHand, Stored, Lease
    <3>2. Granted(req[r].fresh)
      BY <1>3, <3>1 DEF Granted
    <3>3. Lasting(req[r].fresh, req[r].lease.expiresAt, instance, ended, clock)
      BY <1>3, <3>1 DEF Enduring
    <3> QED BY <3>1, <3>2, <3>3
  <2> QED BY <2>1, <2>2
<1>4. \A r \in Request : Planning(req'[r]) => req'[r].lease.expiresAt <= clock' + InstanceTtl
  BY <1>1 DEF Enduring
<1> QED BY <1>2, <1>3, <1>4 DEF Enduring

\* One request goes on and changes no token, and keeps what it has.
LEMMA EnduringMove ==
  ASSUME TypeOK, TypeOK', Held, Enduring, UNCHANGED <<clock, known, instance, until, ended>>,
         NEW q \in Request, NEW t, Go(q, t), ~ Stored(t),
         Planning(t) => t.lease.expiresAt <= clock + InstanceTtl
  PROVE  Enduring'
<1>1. \A h \in Token : instance'[h] # None => instance'[h].expiresAt <= until'[h]
  BY DEF Enduring
<1> QED BY <1>1, EnduringStep

LEMMA EnduringDone ==
  ASSUME TypeOK, TypeOK', Held, Enduring, UNCHANGED <<clock, known, instance, until, ended>>,
         NEW q \in Request, Done(q)
  PROVE  Enduring'
BY EnduringMove DEF Done, Rest, Stored, Planning

\* A token that was just drawn gets its lease, and others lose theirs.
LEMMA EnduringBind ==
  ASSUME TypeOK, TypeOK', Held, Enduring, UNCHANGED <<clock, known>>,
         NEW q \in Request, Planning(req[q]), NEW others,
         Bind(req[q].fresh, req[q].lease, others),
         \A h \in Token : h \in others => ended'[h] # "none",
         \A h \in Token : ended[h] # "none" => ended'[h] # "none",
         NEW t, Go(q, t), ~ Planning(t), t.fresh = req[q].fresh, t.lease = req[q].lease
  PROVE  Enduring'
<1> DEFINE f == req[q].fresh
           l == req[q].lease
<1>1. f \in Token /\ l \in Lease /\ Drawing(req[q]) /\ l.expiresAt <= clock + InstanceTtl
  BY DEF TypeOK, InHand, Planning, Drawing, Enduring
<1>2. /\ instance'[f] = l /\ until'[f] = clock + InstanceTtl
      /\ \A h \in Token : h # f => instance'[h] = (IF h \in others THEN None ELSE instance[h])
                                    /\ until'[h] = until[h]
  BY <1>1 DEF Bind, TypeOK
<1>3. \A h \in Token : instance'[h] # None => instance'[h].expiresAt <= until'[h]
  BY <1>1, <1>2 DEF Enduring
<1>4. ASSUME NEW h \in Token, Granted(h) PROVE h # f
  BY <1>1, <1>4 DEF Granted, Held, Stored, Planning, Drawing
<1>5. ASSUME NEW h \in Token, Granted(h), NEW e \in Nat, Lasting(h, e, instance, ended, clock)
      PROVE  Lasting(h, e, instance', ended', clock)
  BY <1>2, <1>4, <1>5 DEF Lasting
<1>6. Lasting(f, l.expiresAt, instance', ended', clock)
  <2>1. l # None
    BY <1>1, InstancesAssumption
  <2> QED BY <1>2, <2>1 DEF Lasting
<1>7. Lasting(t.fresh, t.lease.expiresAt, instance', ended', clock)
  BY <1>6
<1> HIDE DEF f, l
<1> QED BY <1>3, <1>5, <1>7, EnduringStep

\* The client is given its token.
LEMMA EnduringGrant ==
  ASSUME TypeOK, TypeOK', Held, Enduring, UNCHANGED <<clock, instance, until, ended>>,
         NEW q \in Request, Stored(req[q]), Done(q),
         known' = [known EXCEPT ![req[q].fresh] = req[q].lease.expiresAt]
  PROVE  Enduring'
<1>1. req[q].fresh \in Token
  BY DEF TypeOK, InHand, Stored
<1>2. ~ Stored(Rest) /\ ~ Planning(Rest)
  BY DEF Stored, Planning, Rest
<1>3. \A r \in Request : req'[r] = Rest \/ req'[r] = req[r]
  BY DEF TypeOK, Done
<1>4. \A h \in Token : known'[h] # None => Lasting(h, known'[h], instance, ended, clock)
  BY <1>1 DEF TypeOK, Enduring
<1>5. \A r \in Request : Stored(req'[r]) => req'[r] = req[r]
  BY <1>2, <1>3
<1>6. \A r \in Request : Planning(req'[r]) => req'[r] = req[r]
  BY <1>2, <1>3
<1> QED BY <1>4, <1>5, <1>6 DEF Enduring

\* Redis keeps the lease of every token for as long as its clients were told.
LEMMA EndureTick ==
  ASSUME TypeOK, TypeOK', Enduring, Tick
  PROVE  Enduring'
<1>1. /\ clock \in Nat /\ clock' = clock + 1 /\ InstanceTtl \in Nat
      /\ UNCHANGED <<until, req, known, ended>>
      /\ \A h \in Token : instance'[h] = IF until[h] <= clock + 1 THEN None ELSE instance[h]
  BY InstancesAssumption DEF Tick, TypeOK
<1>2. ASSUME NEW h \in Token, NEW e \in Nat, Lasting(h, e, instance, ended, clock)
      PROVE  Lasting(h, e, instance', ended', clock')
  <2>1. until[h] \in Nat
    BY DEF TypeOK
  <2>2. instance[h] # None => e <= until[h]
    BY <1>2 DEF Enduring, Lasting
  <2> QED BY <1>1, <1>2, <2>1, <2>2 DEF Lasting
<1>3. \A h \in Token : known'[h] # None => Lasting(h, known'[h], instance', ended', clock')
  BY <1>1, <1>2 DEF TypeOK, Enduring
<1>4. ASSUME NEW q \in Request, Stored(req[q])
      PROVE  Lasting(req[q].fresh, req[q].lease.expiresAt, instance', ended', clock')
  <2>1. req[q].fresh \in Token /\ req[q].lease.expiresAt \in Nat
    BY <1>4 DEF TypeOK, InHand, Stored, Lease
  <2> QED BY <1>2, <1>4, <2>1 DEF Enduring
<1>5. ASSUME NEW q \in Request, Planning(req[q])
      PROVE  req[q].lease.expiresAt <= clock' + InstanceTtl
  <2>1. req[q].lease.expiresAt \in Nat /\ req[q].lease.expiresAt <= clock + InstanceTtl
    BY <1>5 DEF TypeOK, InHand, Planning, Lease, Enduring
  <2> QED BY <1>1, <2>1
<1>6. \A h \in Token : instance'[h] # None => instance'[h].expiresAt <= until'[h]
  BY <1>1 DEF Enduring
<1> QED BY <1>1, <1>3, <1>4, <1>5, <1>6 DEF Enduring

\* A lease is removed by a request that ends with it.
LEMMA EnduringRemoval ==
  ASSUME TypeOK, TypeOK', Held, Enduring, UNCHANGED <<clock, known, until>>,
         NEW q \in Request, Done(q), NEW h \in Token,
         instance' = [instance EXCEPT ![h] = None],
         \A g \in Token : g # h => ended'[g] = ended[g],
         ended[h] # "none" => ended'[h] # "none",
         \/ ended'[h] # "none"
         \/ Discarded(h, clock, known, minted, req)
  PROVE  Enduring'
<1>1. \A g \in Token : instance'[g] # None => instance'[g].expiresAt <= until'[g]
  BY DEF TypeOK, Enduring
<1>2. instance'[h] = None /\ \A g \in Token : g # h => instance'[g] = instance[g]
  BY DEF TypeOK
<1>3. ASSUME NEW g \in Token, Granted(g), NEW e \in Nat, Lasting(g, e, instance, ended, clock)
      PROVE  g # h \/ ended'[h] # "none" \/ (known[h] # None /\ known[h] <= clock)
  <2>1. ASSUME Discarded(h, clock, known, minted, req), Granted(h)
        PROVE  known[h] # None /\ known[h] <= clock
    BY <2>1 DEF Granted, Discarded, Stored, Drawing
  <2> QED BY <1>3, <2>1
<1>4. ASSUME NEW g \in Token, Granted(g), NEW e \in Nat, Lasting(g, e, instance, ended, clock)
      PROVE  Lasting(g, e, instance', ended', clock)
  <2>1. CASE g # h
    BY <1>2, <1>4, <2>1 DEF Lasting
  <2>2. CASE g = h /\ ended'[h] # "none"
    BY <1>2, <2>2 DEF Lasting
  <2>3. CASE g = h /\ known[h] # None /\ known[h] <= clock
    <3>1. known[h] \in Nat /\ clock \in Nat /\ Lasting(h, known[h], instance, ended, clock)
      BY <2>3 DEF TypeOK, Enduring
    <3>2. instance[h] # None => e = known[h]
      BY <1>4, <2>3, <3>1 DEF Lasting
    <3> QED BY <1>2, <1>4, <2>3, <3>1, <3>2 DEF Lasting
  <2> QED BY <1>3, <1>4, <2>1, <2>2, <2>3
<1> QED BY <1>1, <1>4, EnduringStep DEF Done, Rest, Stored, Planning

LEMMA EnduringInvariant == Spec => [](Held /\ Enduring)
<1>1. Init => Held /\ Enduring
  BY DEF Init, Held, Enduring, Drawing, Deleting, Stored, Planning, Rest
<1>2. TypeOK /\ TypeOK' /\ Consistent /\ Held /\ Enduring /\ [Next]_vars => Held' /\ Enduring'
  <2> SUFFICES ASSUME TypeOK, TypeOK', Consistent, Held, Enduring, [Next]_vars
               PROVE  Held' /\ Enduring'
    OBVIOUS
  <2>0. \A q \in Request : req[q] \in Task
    BY DEF TypeOK
  <2>1. ASSUME NEW q \in Request, Done(q), UNCHANGED <<clock, known, minted>> PROVE Held'
    BY <2>1, HeldStep DEF Done, Rest, Drawing, Deleting
  <2>2. ASSUME NEW q \in Request, NEW t, Go(q, t),
               UNCHANGED <<clock, known, minted, instance, until, ended>>,
               ~ Drawing(t), Deleting(t) => Deleting(req[q]) /\ t.token = req[q].token
        PROVE  Held' /\ Enduring'
    <3>1. Held'
      BY <2>2, HeldStep
    <3>2. ~ Stored(t) /\ ~ Planning(t)
      BY <2>2 DEF Drawing, Stored, Planning
    <3> QED BY <2>2, <3>1, <3>2, EnduringMove
  <2>3. ASSUME NEW q \in Request, BeginCreate(q) PROVE Held' /\ Enduring'
    <3>1. PICK p \in Presence \ minted, h \in Token \ minted :
            /\ Go(q, [at |-> "register", since |-> clock, token |-> None,
                      lease |-> [presence |-> p, expiresAt |-> clock + InstanceTtl],
                      fresh |-> h])
            /\ minted' = minted \cup {p, h}
      BY <2>3, Zenon DEF BeginCreate
    <3> DEFINE t == [at |-> "register", since |-> clock, token |-> None,
                     lease |-> [presence |-> p, expiresAt |-> clock + InstanceTtl],
                     fresh |-> h]
    <3>2. /\ t.fresh \in (minted' \cap Token) \ minted /\ ~ Deleting(t) /\ ~ Stored(t)
          /\ t.lease.expiresAt <= clock + InstanceTtl
      BY <3>1, InstancesAssumption DEF Deleting, Stored, TypeOK
    <3>3. Go(q, t) /\ minted \subseteq minted'
      BY <3>1
    <3>4. UNCHANGED <<clock, known, instance, until, ended>>
      BY <2>3 DEF BeginCreate
    <3> HIDE DEF t
    <3> QED BY <3>2, <3>3, <3>4, HeldStep, EnduringMove
  <2>4. ASSUME NEW q \in Request, RegisterInstance(q) PROVE Held' /\ Enduring'
    <3> DEFINE t == [req[q] EXCEPT !.at = "announce"]
               p == req[q].lease.presence
    <3>1. UNCHANGED <<clock, known, minted, ended>> /\ req[q].at = "register"
      BY <2>4 DEF RegisterInstance
    <3>2. CASE Done(q) /\ UNCHANGED <<instance, until>>
      BY <2>1, <3>1, <3>2, EnduringDone
    <3>3. CASE Bind(req[q].fresh, req[q].lease, {binding[p]}) /\ Go(q, t)
      <4>1. t.at = "announce" /\ t.fresh = req[q].fresh /\ t.lease = req[q].lease
        BY <2>0 DEF Task
      <4>2. Held'
        BY <3>1, <3>3, <4>1, HeldStep DEF Drawing, Deleting
      <4>3. binding[p] = None
        BY <3>1 DEF Consistent, Unregistered
      <4>4. \A h \in Token : h \notin {binding[p]}
        BY <4>3, InstancesAssumption
      <4> HIDE DEF t, p
      <4> QED BY <3>1, <3>3, <4>1, <4>2, <4>4, EnduringBind DEF Planning
    <3> QED BY <2>4, <3>2, <3>3 DEF RegisterInstance
  <2>5. ASSUME NEW q \in Request, Announce(q) PROVE Held' /\ Enduring'
    <3> DEFINE t == [req[q] EXCEPT !.at = "deleteRead", !.token = req[q].fresh]
    <3>1. UNCHANGED <<clock, minted, instance, until, ended>> /\ req[q].at = "announce"
      BY <2>5 DEF Announce
    <3>2. CASE Done(q) /\ known' = [known EXCEPT ![req[q].fresh] = req[q].lease.expiresAt]
      <4>1. req[q].lease.expiresAt \in Nat
        BY <3>1 DEF TypeOK, InHand, Lease
      <4> QED BY <3>1, <3>2, <4>1, HeldGrant, EnduringGrant DEF Drawing, Stored
    <3>3. CASE Go(q, t) /\ UNCHANGED known
      <4>1. t.at = "deleteRead" /\ t.token = req[q].fresh
        BY <2>0 DEF Task
      <4>2. Drawing(req[q]) /\ ~ Drawing(t) /\ ~ Stored(t) /\ ~ Planning(t)
        BY <3>1, <4>1 DEF Drawing, Stored, Planning
      <4> HIDE DEF t
      <4>3. Held'
        BY <3>1, <3>3, <4>1, <4>2, HeldStep
      <4>4. UNCHANGED <<clock, known, instance, until, ended>>
        BY <3>1, <3>3
      <4> QED BY <3>3, <4>2, <4>3, <4>4, EnduringMove
    <3> QED BY <2>5, <3>2, <3>3, Zenon DEF Announce
  <2>6. ASSUME NEW q \in Request, Rotate(q) PROVE Held' /\ Enduring'
    <3> DEFINE t == [req[q] EXCEPT !.at = "reply"]
    <3>1. UNCHANGED <<clock, known, minted>> /\ req[q].at = "rotate" /\ req[q].token \in Token
      BY <2>6 DEF Rotate, TypeOK, InHand
    <3>2. CASE Done(q) /\ UNCHANGED <<instance, until, ended>>
      BY <2>1, <3>1, <3>2, EnduringDone
    <3>3. CASE /\ Bind(req[q].fresh, req[q].lease, {req[q].token}) /\ Go(q, t)
               /\ ended' = [ended EXCEPT ![req[q].token] = "rotated"]
      <4>1. t.at = "reply" /\ t.fresh = req[q].fresh /\ t.lease = req[q].lease
        BY <2>0 DEF Task
      <4>2. Held'
        BY <3>1, <3>3, <4>1, HeldStep DEF Drawing, Deleting
      <4>3. /\ \A h \in Token : h \in {req[q].token} => ended'[h] # "none"
            /\ \A h \in Token : ended[h] # "none" => ended'[h] # "none"
        BY <3>1, <3>3 DEF TypeOK
      <4>4. ~ Planning(t) /\ Planning(req[q])
        BY <3>1, <4>1 DEF Planning
      <4> HIDE DEF t
      <4> QED BY <3>1, <3>3, <4>1, <4>2, <4>3, <4>4, EnduringBind
    <3> QED BY <2>6, <3>2, <3>3 DEF Rotate
  <2>7. ASSUME NEW q \in Request, Reply(q) PROVE Held' /\ Enduring'
    <3>1. /\ UNCHANGED <<clock, minted, instance, until, ended>>
          /\ req[q].at = "reply" /\ Done(q)
          /\ known' = [known EXCEPT ![req[q].fresh] = req[q].lease.expiresAt]
      BY <2>7 DEF Reply
    <3>2. req[q].lease.expiresAt \in Nat
      BY <3>1 DEF TypeOK, InHand, Lease
    <3> QED BY <3>1, <3>2, HeldGrant, EnduringGrant DEF Drawing, Stored
  <2>8. ASSUME NEW q \in Request, CloseInstance(q) PROVE Held' /\ Enduring'
    <3> DEFINE h == req[q].token
    <3>1. UNCHANGED <<clock, known, minted>> /\ Done(q) /\ h \in Token
      BY <2>8 DEF CloseInstance, TypeOK, InHand
    <3>2. CASE UNCHANGED <<instance, until, ended>>
      BY <2>1, <3>1, <3>2, EnduringDone
    <3>3. CASE /\ instance' = [instance EXCEPT ![h] = None] /\ UNCHANGED until
               /\ ended' = [ended EXCEPT ![h] = "closed"]
      <4>1. ended'[h] = "closed" /\ \A g \in Token : g # h => ended'[g] = ended[g]
        BY <3>1, <3>3 DEF TypeOK
      <4> HIDE DEF h
      <4> QED BY <2>1, <3>1, <3>3, <4>1, EnduringRemoval
    <3> QED BY <2>8, <3>2, <3>3 DEF CloseInstance
  <2>9. ASSUME NEW q \in Request, DeleteInstance(q) PROVE Held' /\ Enduring'
    <3> DEFINE h == req[q].token
    <3>1. /\ UNCHANGED <<clock, known, minted, until>> /\ Done(q) /\ h \in Token
          /\ instance' = [instance EXCEPT ![h] = None]
          /\ ended' = [ended EXCEPT ![h] = IF known[h] = None THEN "undone" ELSE @]
          /\ Discarded(h, clock, known, minted, req)
      BY <2>9 DEF DeleteInstance, TypeOK, InHand, Held, Deleting
    <3>2. /\ \A g \in Token : g # h => ended'[g] = ended[g]
          /\ ended[h] # "none" => ended'[h] # "none"
      BY <3>1 DEF TypeOK
    <3> HIDE DEF h
    <3> QED BY <2>1, <3>1, <3>2, EnduringRemoval
  <2>10. ASSUME NEW q \in Request, Clear(q) \/ Cancel(q) PROVE Held' /\ Enduring'
    <3>1. Done(q) /\ UNCHANGED <<clock, known, minted, instance, until, ended>>
      BY <2>10 DEF Clear, Cancel
    <3> QED BY <2>1, <3>1, EnduringDone
  <2>11. ASSUME NEW q \in Request, NEW ttl \in PublishTtl, Publish(q, ttl)
         PROVE  Held' /\ Enduring'
    <3>1. Done(q) /\ UNCHANGED <<clock, known, minted, instance, until, ended>>
      BY <2>11 DEF Publish
    <3> QED BY <2>1, <3>1, EnduringDone
  <2>12. ASSUME NEW q \in Request, ClearRead(q) PROVE Held' /\ Enduring'
    <3> DEFINE t == [req[q] EXCEPT !.at = "clear"]
    <3>1. /\ UNCHANGED <<clock, known, minted, instance, until, ended>>
          /\ Done(q) \/ Go(q, t)
      BY <2>12, Zenon DEF ClearRead, redis, ghosts
    <3>2. t.at = "clear"
      BY <2>0 DEF Task
    <3>3. ~ Drawing(t) /\ ~ Deleting(t)
      BY <3>2 DEF Drawing, Deleting
    <3> HIDE DEF t
    <3> QED BY <2>1, <2>2, <3>1, <3>3, EnduringDone
  <2>13. ASSUME NEW q \in Request, DeleteRead(q) PROVE Held' /\ Enduring'
    <3> DEFINE t == [req[q] EXCEPT !.at = "delete", !.lease = instance[req[q].token]]
    <3>1. /\ UNCHANGED <<clock, known, minted, instance, until, ended>>
          /\ Done(q) \/ Go(q, t)
      BY <2>13, Zenon DEF DeleteRead, redis, ghosts
    <3>2. t.at = "delete" /\ t.token = req[q].token /\ req[q].at = "deleteRead"
      BY <2>0, <2>13 DEF DeleteRead, Task
    <3>3. ~ Drawing(t) /\ Deleting(req[q])
      BY <3>2 DEF Drawing, Deleting
    <3> HIDE DEF t
    <3> QED BY <2>1, <2>2, <3>1, <3>2, <3>3, EnduringDone
  <2>14. ASSUME NEW q \in Request, NEW h \in Token, FindExpired(q, h)
         PROVE  Held' /\ Enduring'
    <3> DEFINE t == [Rest EXCEPT !.at = "deleteRead", !.since = clock, !.token = h]
    <3>1. Go(q, t) /\ UNCHANGED <<clock, known, minted, instance, until, ended>>
      BY <2>14 DEF FindExpired
    <3>2. t.at = "deleteRead" /\ t.token = h
      BY DEF Rest
    <3>3. known[h] # None /\ known[h] <= clock
      BY <2>14 DEF FindExpired, Expired, Enduring, Lasting
    <3>4. ~ Drawing(t) /\ ~ Stored(t) /\ ~ Planning(t)
      BY <3>2 DEF Drawing, Stored, Planning
    <3> HIDE DEF t
    <3>5. Held'
      BY <3>1, <3>2, <3>3, <3>4, HeldStep
    <3>6. UNCHANGED <<clock, known, instance, until, ended>>
      BY <3>1
    <3> QED BY <3>1, <3>4, <3>5, <3>6, EnduringMove
  <2>15. ASSUME NEW q \in Request, NEW h \in Token,
                NEW label \in {"close", "publish", "clearRead"}, Begin(q, h, label)
         PROVE  Held' /\ Enduring'
    <3> DEFINE t == [at |-> label, since |-> clock, token |-> h, lease |-> instance[h],
                     fresh |-> None]
    <3>1. Go(q, t) /\ UNCHANGED <<clock, known, minted, instance, until, ended>>
      BY <2>15 DEF Begin
    <3>2. ~ Drawing(t) /\ ~ Deleting(t)
      BY DEF Drawing, Deleting
    <3> HIDE DEF t
    <3> QED BY <2>2, <3>1, <3>2
  <2>16. ASSUME NEW q \in Request, NEW h \in Token, BeginRenew(q, h)
         PROVE  Held' /\ Enduring'
    <3> DEFINE l == [instance[h] EXCEPT !.expiresAt = clock + InstanceTtl]
    <3>1. PICK g \in Token \ minted :
            /\ Go(q, [at |-> "rotate", since |-> clock, token |-> h, lease |-> l,
                      fresh |-> g])
            /\ minted' = minted \cup {g}
      BY <2>16, Zenon DEF BeginRenew
    <3> DEFINE t == [at |-> "rotate", since |-> clock, token |-> h, lease |-> l,
                     fresh |-> g]
    <3>2. instance[h] \in Lease
      BY <2>16 DEF BeginRenew, Authenticated, TypeOK
    <3>3. l.expiresAt <= clock + InstanceTtl
      BY <3>2, InstancesAssumption DEF TypeOK, Lease
    <3>4. t.lease = l /\ t.fresh \in (minted' \cap Token) \ minted
          /\ ~ Deleting(t) /\ ~ Stored(t)
      BY <3>1 DEF Deleting, Stored
    <3>5. Go(q, t) /\ minted \subseteq minted'
      BY <3>1
    <3>6. UNCHANGED <<clock, known, instance, until, ended>>
      BY <2>16 DEF BeginRenew
    <3> HIDE DEF t, l
    <3> QED BY <3>3, <3>4, <3>5, <3>6, HeldStep, EnduringMove
  <2>17. CASE Tick
    <3>1. UNCHANGED <<req, known, minted>> /\ clock <= clock'
      BY <2>17 DEF Tick, TypeOK
    <3> QED BY <2>17, <3>1, HeldLater, EndureTick
  <2>18. CASE UNCHANGED vars
    <3>1. UNCHANGED <<req, known, minted>> /\ clock <= clock'
      BY <2>18 DEF vars, TypeOK
    <3>2. Enduring'
      BY <2>18 DEF vars, Enduring
    <3> QED BY <3>1, <3>2, HeldLater
  <2> QED
    BY <2>3, <2>4, <2>5, <2>6, <2>7, <2>8, <2>9, <2>10, <2>11, <2>12, <2>13,
       <2>14, <2>15, <2>16, <2>17, <2>18, NextCases
<1> QED BY <1>1, <1>2, TypeCorrect, ConsistentInvariant, PTL DEF Spec

(* A token that its client neither renewed nor closed authenticates until  *)
(* the expiresAt the client was told: neither a roll back, nor the         *)
(* deletion of a token found expired, nor Redis' own expiry comes early.   *)
THEOREM TokenLastsHolds == Spec => []TokenLasts
<1>1. Enduring => TokenLasts
  BY DEF Enduring, Lasting, TokenLasts
<1> QED BY <1>1, EnduringInvariant, PTL
-----------------------------------------------------------------------------
(* The limit of instances.                                                 *)

\* The score of a slot is the end of the lease it is for, in whole seconds.
Slot(h) ==
  instance[h] # None /\ instance[h].presence \notin ousted
    /\ Floor(clock) < Floor(instance[h].expiresAt)
      => slots[instance[h].presence] = Floor(instance[h].expiresAt)

\* The slots the limit is kept for.
Counted(s, out) == Taken(s) \ out

Within(s, out) == IsFiniteSet(Taken(s)) /\ Cardinality(Counted(s, out)) <= MaxInstances

Slotted == (\A h \in Token : Slot(h)) /\ Within(slots, ousted)

\* No token authenticates a Presence, but for h.
Deserted(leases, p, h) ==
  \A g \in Token : leases[g] # None /\ leases[g].presence = p => g = h

LEMMA FloorMonotone ==
  ASSUME NEW s \in Nat, NEW t \in Nat, s <= t
  PROVE  Floor(s) <= Floor(t)
BY InstancesAssumption DEF Floor

\* Fewer slots are within the limit too.
LEMMA WithinFewer ==
  ASSUME NEW s, NEW out, NEW fewer, NEW more, Within(s, out),
         IsFiniteSet(Taken(fewer)), Counted(fewer, more) \subseteq Counted(s, out)
  PROVE  Within(fewer, more)
<1>1. IsFiniteSet(Counted(s, out))
  BY FS_Subset DEF Within, Counted
<1>2. /\ Cardinality(Counted(fewer, more)) <= Cardinality(Counted(s, out))
      /\ Cardinality(Counted(fewer, more)) \in Nat /\ Cardinality(Counted(s, out)) \in Nat
  BY <1>1, FS_Subset, FS_CardinalityType
<1> QED BY <1>2, InstancesAssumption DEF Within

\* Leases and slots are removed; a slot goes when no token is left for it, or
\* is an ousted instance's.
LEMMA SlottedStep ==
  ASSUME TypeOK, TypeOK', Slotted, clock <= clock', ousted \subseteq ousted',
         \A h \in Token : instance'[h] \in {instance[h], None},
         \A p \in Presence :
           \/ slots'[p] = slots[p]
           \/ slots'[p] = None /\ p \in ousted'
           \/ slots'[p] = None /\ Deserted(instance', p, None)
  PROVE  Slotted'
<1>1. ASSUME NEW h \in Token, instance'[h] # None, instance'[h].presence \notin ousted',
             Floor(clock') < Floor(instance'[h].expiresAt)
      PROVE  slots'[instance'[h].presence] = Floor(instance'[h].expiresAt)
  <2> DEFINE l == instance[h]
  <2>1. instance'[h] = l /\ l \in Lease /\ l # None
    BY <1>1 DEF TypeOK
  <2>2. l.presence \in Presence /\ l.expiresAt \in Nat /\ clock \in Nat /\ clock' \in Nat
    BY <2>1 DEF Lease, TypeOK
  <2>3. Floor(clock) <= Floor(clock') /\ Floor(clock) \in Nat /\ Floor(clock') \in Nat
        /\ Floor(l.expiresAt) \in Nat
    BY <2>2, FloorMonotone, FloorType
  <2>4. Floor(clock) < Floor(l.expiresAt)
    BY <1>1, <2>1, <2>3
  <2>5. h # None
    BY InstancesAssumption
  <2>6. slots'[l.presence] = slots[l.presence]
    BY <1>1, <2>1, <2>2, <2>5 DEF Deserted
  <2>7. slots[l.presence] = Floor(l.expiresAt)
    BY <1>1, <2>1, <2>4 DEF Slotted, Slot
  <2> QED BY <2>1, <2>6, <2>7
<1>2. Taken(slots') \subseteq Taken(slots)
  BY DEF Taken
<1>3. Within(slots', ousted')
  <2>1. IsFiniteSet(Taken(slots'))
    BY <1>2, FS_Subset DEF Slotted, Within
  <2>2. Counted(slots', ousted') \subseteq Counted(slots, ousted)
    BY <1>2 DEF Counted
  <2> QED BY <2>1, <2>2, WithinFewer DEF Slotted
<1> QED BY <1>1, <1>3 DEF Slotted, Slot, Within, Counted, Taken

\* A slot is taken along with the lease it is for, the only one of its
\* Presence; of the other slots, those may go whose time is over.
LEMMA SlotTaken ==
  ASSUME TypeOK, Slotted, UNCHANGED clock, ousted \subseteq ousted',
         NEW h \in Token, NEW l \in Lease, NEW others, Bind(h, l, others),
         Deserted(instance', l.presence, h),
         slots'[l.presence] = Floor(l.expiresAt),
         \A p \in Presence \ {l.presence} :
           slots'[p] = slots[p] \/ (slots[p] # None /\ slots[p] <= Floor(clock))
  PROVE  (\A g \in Token : Slot(g))'
<1> DEFINE x == l.presence
<1>1. x \in Presence /\ clock \in Nat /\ Floor(clock) \in Nat
  BY FloorType DEF Lease, TypeOK
<1>2. /\ instance'[h] = l
      /\ \A g \in Token : g # h => instance'[g] \in {instance[g], None}
  BY <1>1 DEF Bind, TypeOK
<1>3. ASSUME NEW g \in Token, instance'[g] # None, instance'[g].presence \notin ousted',
             Floor(clock) < Floor(instance'[g].expiresAt)
      PROVE  slots'[instance'[g].presence] = Floor(instance'[g].expiresAt)
  <2>1. CASE g = h
    BY <1>2, <2>1
  <2>2. CASE g # h
    <3> DEFINE m == instance[g]
    <3>1. instance'[g] = m /\ m # None /\ m \in Lease
      BY <1>2, <1>3, <2>2 DEF TypeOK
    <3>2. m.presence \in Presence \ {x} /\ Floor(m.expiresAt) \in Nat
      BY <1>3, <2>2, <3>1, FloorType DEF Lease, Deserted
    <3>3. slots[m.presence] = Floor(m.expiresAt)
      BY <1>3, <3>1 DEF Slotted, Slot
    <3>4. ~ (slots[m.presence] <= Floor(clock))
      BY <1>1, <1>3, <3>1, <3>2, <3>3
    <3>5. slots'[m.presence] = slots[m.presence]
      BY <3>2, <3>4
    <3> QED BY <3>1, <3>3, <3>5
  <2> QED BY <2>1, <2>2
<1> QED BY <1>3 DEF Slot

LEMMA SlottedInvariant == Spec => []Slotted
<1>1. Init => Slotted
  <2> SUFFICES ASSUME Init PROVE Slotted
    OBVIOUS
  <2>1. \A h \in Token : Slot(h)
    BY DEF Init, Slot
  <2>2. Taken(slots) = {} /\ Counted(slots, ousted) = {}
    BY DEF Init, Taken, Counted
  <2>3. Within(slots, ousted)
    BY <2>2, FS_EmptySet, InstancesAssumption DEF Within
  <2> QED BY <2>1, <2>3 DEF Slotted
<1>2. TypeOK /\ TypeOK' /\ Consistent /\ Slotted /\ [Next]_vars => Slotted'
  <2> SUFFICES ASSUME TypeOK, TypeOK', Consistent, Slotted, [Next]_vars PROVE Slotted'
    OBVIOUS
  <2>0. clock \in Nat /\ clock <= clock
    BY DEF TypeOK
  <2>1. ASSUME UNCHANGED <<clock, instance, slots, ousted>> PROVE Slotted'
    BY <2>0, <2>1, SlottedStep
  <2>2. ASSUME NEW q \in Request, RegisterInstance(q) PROVE Slotted'
    <3> DEFINE l == req[q].lease
               p == l.presence
    <3>1. /\ req[q].at = "register" /\ l \in Lease /\ p \in Presence
          /\ req[q].fresh \in Token /\ UNCHANGED <<clock, ousted>>
      BY <2>2 DEF RegisterInstance, TypeOK, InHand, Lease, ghosts
    <3>2. Taken(Kept) \subseteq Taken(slots)
      BY DEF Taken, Kept
    <3>3. \A x \in Presence :
            Kept[x] = slots[x] \/ (slots[x] # None /\ slots[x] <= Floor(clock))
      BY DEF Kept
    <3>4. IsFiniteSet(Taken(Kept)) /\ Within(Kept, ousted)
      BY <3>2, WithinFewer, FS_Subset DEF Slotted, Within, Counted
    <3>5. CASE Full
      <4>1. slots' = Kept /\ UNCHANGED instance
        BY <2>2, <3>5 DEF RegisterInstance
      <4>2. \A h \in Token : Slot(h)'
        <5>1. ASSUME NEW h \in Token, instance[h] # None, instance[h].presence \notin ousted,
                     Floor(clock) < Floor(instance[h].expiresAt)
              PROVE  Kept[instance[h].presence] = Floor(instance[h].expiresAt)
          <6>1. instance[h].presence \in Presence /\ instance[h].expiresAt \in Nat
            BY <5>1 DEF TypeOK, Lease
          <6>2. slots[instance[h].presence] = Floor(instance[h].expiresAt)
            BY <5>1 DEF Slotted, Slot
          <6>3. Floor(instance[h].expiresAt) \in Nat /\ Floor(clock) \in Nat
            BY <2>0, <6>1, FloorType
          <6> QED BY <3>3, <5>1, <6>1, <6>2, <6>3
        <5> QED BY <3>1, <4>1, <5>1 DEF Slot
      <4> QED BY <3>1, <3>4, <4>1, <4>2 DEF Slotted, Within, Counted, Taken
    <3>6. CASE ~ Full
      <4>1. /\ Bind(req[q].fresh, l, {binding[p]})
            /\ slots' = [Kept EXCEPT ![p] = Floor(l.expiresAt)]
        BY <2>2, <3>6 DEF RegisterInstance
      <4>2. /\ slots'[p] = Floor(l.expiresAt)
            /\ \A x \in Presence : x # p => slots'[x] = Kept[x]
        BY <3>1, <4>1 DEF Kept
      <4>3. Deserted(instance', p, req[q].fresh)
        BY <3>1, <4>1 DEF Deserted, Bind, TypeOK, Consistent, Unregistered
      <4>4. (\A g \in Token : Slot(g))'
        BY <3>1, <3>3, <4>1, <4>2, <4>3, SlotTaken
      <4>5. Taken(slots') \subseteq Taken(Kept) \cup {p}
        BY <4>2 DEF Taken
      <4>6. Within(slots', ousted')
        <5>1. Cardinality(Taken(Kept)) \in Nat
          BY <3>4, FS_CardinalityType
        <5>2. /\ IsFiniteSet(Taken(Kept) \cup {p})
              /\ \/ Cardinality(Taken(Kept) \cup {p}) = Cardinality(Taken(Kept))
                 \/ Cardinality(Taken(Kept) \cup {p}) = Cardinality(Taken(Kept)) + 1
          BY <3>4, FS_AddElement, Zenon
        <5>3. /\ IsFiniteSet(Taken(slots'))
              /\ Counted(slots', ousted') \subseteq Taken(Kept) \cup {p}
          BY <4>5, <5>2, FS_Subset DEF Counted
        <5>4. /\ Cardinality(Counted(slots', ousted')) <= Cardinality(Taken(Kept) \cup {p})
              /\ Cardinality(Counted(slots', ousted')) \in Nat
          BY <5>2, <5>3, FS_Subset, FS_CardinalityType
        <5> QED BY <3>6, <5>1, <5>2, <5>3, <5>4, InstancesAssumption DEF Within, Full
      <4> QED BY <4>4, <4>6 DEF Slotted, Within, Counted, Taken
    <3> QED BY <3>5, <3>6
  <2>3. ASSUME NEW q \in Request, Rotate(q) PROVE Slotted'
    <3> DEFINE l == req[q].lease
               p == l.presence
    <3>1. l \in Lease /\ p \in Presence /\ req[q].fresh \in Token /\ UNCHANGED clock
      BY <2>3 DEF Rotate, TypeOK, InHand, Lease
    <3>2. CASE binding[p] # req[q].token
      BY <2>1, <2>3, <3>2 DEF Rotate, Current, redis
    <3>3. CASE binding[p] = req[q].token
      <4>1. /\ Bind(req[q].fresh, l, {req[q].token})
            /\ slots' = [slots EXCEPT ![p] = Floor(l.expiresAt)]
            /\ ousted' = IF slots[p] = None THEN ousted \cup {p} ELSE ousted
        BY <2>3, <3>3 DEF Rotate, Current
      <4>2. /\ slots'[p] = Floor(l.expiresAt)
            /\ \A x \in Presence : x # p => slots'[x] = slots[x]
        BY <3>1, <4>1 DEF TypeOK
      <4>3. Deserted(instance', p, req[q].fresh)
        <5>1. req[q].token # None
          BY <2>3, InstancesAssumption DEF Rotate, TypeOK, InHand
        <5>2. \A g \in Token : instance[g] # None /\ instance[g].presence = p
                                => g = req[q].token
          BY <3>3, <5>1 DEF Consistent, Bound
        <5> QED BY <3>1, <4>1, <5>2 DEF Deserted, Bind, TypeOK
      <4>4. (\A g \in Token : Slot(g))'
        BY <3>1, <4>1, <4>2, <4>3, SlotTaken
      <4>5. IsFiniteSet(Taken(slots'))
        <5>1. Taken(slots') \subseteq Taken(slots) \cup {p}
          BY <4>2 DEF Taken
        <5>2. IsFiniteSet(Taken(slots) \cup {p})
          BY FS_AddElement DEF Slotted, Within
        <5> QED BY <5>1, <5>2, FS_Subset
      <4>6. Counted(slots', ousted') \subseteq Counted(slots, ousted)
        BY <3>1, <4>1, <4>2 DEF Counted, Taken
      <4>7. Within(slots', ousted')
        BY <4>5, <4>6, WithinFewer DEF Slotted
      <4> QED BY <4>4, <4>7 DEF Slotted, Within, Counted, Taken
    <3> QED BY <3>2, <3>3
  <2>4. ASSUME NEW q \in Request, CloseInstance(q) PROVE Slotted'
    <3>1. UNCHANGED <<clock, ousted>> /\ req[q].token \in Token
          /\ req[q].lease.presence \in Presence /\ req[q].token # None
      BY <2>4, InstancesAssumption DEF CloseInstance, TypeOK, InHand, Lease
    <3>2. CASE binding[req[q].lease.presence] # req[q].token
      BY <2>1, <2>4, <3>1, <3>2 DEF CloseInstance, Current, redis
    <3>3. CASE binding[req[q].lease.presence] = req[q].token
      <4>1. /\ instance' = [instance EXCEPT ![req[q].token] = None]
            /\ slots' = [slots EXCEPT ![req[q].lease.presence] = None]
        BY <2>4, <3>3 DEF CloseInstance, Current
      <4>2. \A g \in Token : instance[g] # None /\ instance[g].presence = req[q].lease.presence
                              => g = req[q].token
        BY <3>1, <3>3 DEF Consistent, Bound
      <4>3. Deserted(instance', req[q].lease.presence, None)
        BY <3>1, <4>1, <4>2 DEF Deserted, TypeOK
      <4>4. \A h \in Token : instance'[h] \in {instance[h], None}
        BY <4>1 DEF TypeOK
      <4>5. \A p \in Presence : slots'[p] = slots[p]
              \/ (slots'[p] = None /\ p = req[q].lease.presence)
        BY <4>1 DEF TypeOK
      <4> QED BY <2>0, <3>1, <4>3, <4>4, <4>5, SlottedStep
    <3> QED BY <3>2, <3>3
  <2>5. ASSUME NEW q \in Request, DeleteInstance(q) PROVE Slotted'
    <3> DEFINE p == req[q].lease.presence
    <3>1. /\ UNCHANGED clock /\ req[q].token \in Token /\ p \in Presence
          /\ instance' = [instance EXCEPT ![req[q].token] = None]
          /\ slots' = [slots EXCEPT ![p] = None]
          /\ ousted \subseteq ousted'
          /\ \/ p \in ousted'
             \/ \A h \in Token \ {req[q].token} :
                  instance[h] # None => instance[h].presence # p
      BY <2>5 DEF DeleteInstance, TypeOK, InHand, Lease
    <3>2. p \in ousted' \/ Deserted(instance', p, None)
      BY <3>1 DEF Deserted, TypeOK
    <3>3. \A h \in Token : instance'[h] \in {instance[h], None}
      BY <3>1 DEF TypeOK
    <3>4. \A x \in Presence : slots'[x] = slots[x] \/ (slots'[x] = None /\ x = p)
      BY <3>1 DEF TypeOK
    <3> QED BY <2>0, <3>1, <3>2, <3>3, <3>4, SlottedStep
  <2>6. CASE Tick
    <3>1. /\ clock <= clock' /\ UNCHANGED <<ousted, slots>>
          /\ \A h \in Token : instance'[h] \in {instance[h], None}
      BY <2>6 DEF Tick, TypeOK, ghosts
    <3> QED BY <3>1, SlottedStep
  <2>7. ASSUME NEW q \in Request,
               BeginCreate(q) \/ Announce(q) \/ Reply(q) \/ ClearRead(q) \/ Clear(q)
                 \/ DeleteRead(q) \/ Cancel(q)
        PROVE  Slotted'
    BY <2>1, <2>7 DEF BeginCreate, Announce, Reply, ClearRead, Clear, DeleteRead, Cancel
  <2>8. ASSUME NEW q \in Request, NEW h \in Token,
               \/ FindExpired(q, h) \/ BeginRenew(q, h)
               \/ \E label \in {"close", "publish", "clearRead"} : Begin(q, h, label)
        PROVE  Slotted'
    BY <2>1, <2>8 DEF FindExpired, BeginRenew, Begin
  <2>9. ASSUME NEW q \in Request, NEW ttl \in PublishTtl, Publish(q, ttl) PROVE Slotted'
    BY <2>1, <2>9 DEF Publish
  <2>10. CASE UNCHANGED vars
    BY <2>1, <2>10 DEF vars
  <2> QED
    BY <2>2, <2>3, <2>4, <2>5, <2>6, <2>7, <2>8, <2>9, <2>10, NextCases
<1> QED BY <1>1, <1>2, TypeCorrect, ConsistentInvariant, PTL DEF Spec

(* The limit on the instances of a profile holds through every race of     *)
(* registrations, renewals, roll backs, expiries and cancelled requests,   *)
(* but for the instances that went on living when their slot was pruned in *)
(* the last second of the lease, or deleted with an expired token.         *)
THEOREM LimitUnlessOustedHolds == Spec => []LimitUnlessOusted
<1>1. TypeOK /\ Slotted => LimitUnlessOusted
  <2> SUFFICES ASSUME TypeOK, Slotted PROVE Cardinality(Leased \ ousted) <= MaxInstances
    BY DEF LimitUnlessOusted
  <2>1. ASSUME NEW p \in Leased \ ousted PROVE p \in Taken(slots)
    <3>1. PICK h \in Token : /\ instance[h] # None /\ instance[h].presence = p
                             /\ Floor(clock) < Floor(instance[h].expiresAt)
      BY <2>1 DEF Leased
    <3>2. slots[p] = Floor(instance[h].expiresAt)
      BY <2>1, <3>1 DEF Slotted, Slot
    <3>3. Floor(instance[h].expiresAt) \in Nat
      BY <3>1, FloorType DEF TypeOK, Lease
    <3>4. p \in Presence
      BY <2>1 DEF Leased
    <3> QED BY <3>2, <3>3, <3>4, InstancesAssumption DEF Taken
  <2>2. /\ IsFiniteSet(Counted(slots, ousted))
        /\ Cardinality(Counted(slots, ousted)) <= MaxInstances
        /\ Leased \ ousted \subseteq Counted(slots, ousted)
    BY <2>1, FS_Subset DEF Slotted, Within, Counted
  <2>3. /\ Cardinality(Leased \ ousted) <= Cardinality(Counted(slots, ousted))
        /\ Cardinality(Leased \ ousted) \in Nat /\ Cardinality(Counted(slots, ousted)) \in Nat
    BY <2>2, FS_Subset, FS_CardinalityType
  <2> QED BY <2>2, <2>3, InstancesAssumption
<1> QED BY <1>1, SlottedInvariant, TypeCorrect, PTL
-----------------------------------------------------------------------------
(* Which Presence a token is for.                                          *)

\* The reverse mapping leads to a lease of its Presence and lives as long, a
\* token that is drawn leads nowhere yet, and what is to be deleted is the
\* mapping of the lease's own Presence.
Matched ==
  /\ \A h \in Token : instance[h] # None => h \in minted
  /\ \A p \in Presence : binding[p] # None =>
       /\ instance[binding[p]] # None
       /\ instance[binding[p]].presence = p
       /\ until[binding[p]] = bindingUntil[p]
  /\ \A q \in Request : Planning(req[q]) => instance[req[q].fresh] = None
  /\ \A q \in Request : At(q, "delete") /\ instance[req[q].token] # None =>
       instance[req[q].token].presence = req[q].lease.presence

\* Leases and mappings are removed, none without the other.
LEMMA MatchedStep ==
  ASSUME TypeOK, TypeOK', Matched, minted \subseteq minted',
         UNCHANGED <<until, bindingUntil>>,
         \A h \in Token : instance'[h] \in {instance[h], None},
         \A p \in Presence : binding'[p] \in {binding[p], None},
         \A p \in Presence : binding'[p] # None => instance'[binding'[p]] # None,
         \A q \in Request : Planning(req'[q]) => instance[req'[q].fresh] = None,
         \A q \in Request : req'[q].at = "delete" /\ instance[req'[q].token] # None =>
           instance[req'[q].token].presence = req'[q].lease.presence
  PROVE  Matched'
<1>1. \A h \in Token : instance'[h] # None => h \in minted'
  BY DEF Matched
<1>2. ASSUME NEW p \in Presence, binding'[p] # None
      PROVE  /\ instance'[binding'[p]] # None
             /\ instance'[binding'[p]].presence = p
             /\ until'[binding'[p]] = bindingUntil'[p]
  <2>1. binding'[p] = binding[p] /\ binding[p] \in Token
    BY <1>2 DEF TypeOK
  <2>2. instance'[binding[p]] = instance[binding[p]]
    BY <1>2, <2>1
  <2> QED BY <1>2, <2>1, <2>2 DEF Matched
<1>3. ASSUME NEW q \in Request, Planning(req'[q])
      PROVE  instance'[req'[q].fresh] = None
  <2>1. req'[q].fresh \in Token
    BY <1>3 DEF TypeOK, InHand, Planning
  <2> QED BY <1>3, <2>1
<1>4. ASSUME NEW q \in Request, req'[q].at = "delete", instance'[req'[q].token] # None
      PROVE  instance'[req'[q].token].presence = req'[q].lease.presence
  <2>1. req'[q].token \in Token
    BY <1>4 DEF TypeOK, InHand
  <2>2. instance'[req'[q].token] = instance[req'[q].token]
    BY <1>4, <2>1
  <2> QED BY <1>4, <2>2
<1> QED BY <1>1, <1>2, <1>3, <1>4 DEF Matched

\* A request goes on without touching the keys.
LEMMA MatchedMove ==
  ASSUME TypeOK, TypeOK', Matched, minted \subseteq minted',
         UNCHANGED <<instance, until, binding, bindingUntil>>,
         NEW q \in Request, NEW t, Go(q, t),
         Planning(t) => instance[t.fresh] = None,
         t.at = "delete" /\ instance[t.token] # None =>
           instance[t.token].presence = t.lease.presence
  PROVE  Matched'
<1>1. req'[q] = t /\ \A r \in Request : r # q => req'[r] = req[r]
  BY DEF TypeOK
<1>2. \A r \in Request : Planning(req'[r]) => instance[req'[r].fresh] = None
  BY <1>1 DEF Matched
<1>3. \A r \in Request : req'[r].at = "delete" /\ instance[req'[r].token] # None =>
        instance[req'[r].token].presence = req'[r].lease.presence
  BY <1>1 DEF Matched
<1>4. \A p \in Presence : binding'[p] # None => instance'[binding'[p]] # None
  BY DEF Matched
<1> QED BY <1>2, <1>3, <1>4, MatchedStep

\* A request finishes, whatever it removes.
LEMMA MatchedDone ==
  ASSUME TypeOK, TypeOK', Matched, minted \subseteq minted',
         UNCHANGED <<until, bindingUntil>>,
         \A h \in Token : instance'[h] \in {instance[h], None},
         \A p \in Presence : binding'[p] \in {binding[p], None},
         \A p \in Presence : binding'[p] # None => instance'[binding'[p]] # None,
         NEW q \in Request, Done(q)
  PROVE  Matched'
<1>1. ~ Planning(Rest) /\ Rest.at # "delete"
  BY DEF Planning, Rest
<1>2. req'[q] = Rest /\ \A r \in Request : r # q => req'[r] = req[r]
  BY DEF TypeOK, Done
<1>3. \A r \in Request : Planning(req'[r]) => instance[req'[r].fresh] = None
  BY <1>1, <1>2 DEF Matched
<1>4. \A r \in Request : req'[r].at = "delete" /\ instance[req'[r].token] # None =>
        instance[req'[r].token].presence = req'[r].lease.presence
  BY <1>1, <1>2 DEF Matched
<1> QED BY <1>3, <1>4, MatchedStep

\* A drawn token is nobody's to delete.
LEMMA FreshKept ==
  ASSUME TypeOK, Held, NEW q \in Request, Drawing(req[q]),
         NEW r \in Request, Deleting(req[r])
  PROVE  req[r].token # req[q].fresh
BY DEF Held, Discarded

\* A request writes the lease and the mapping of the token it has drawn, and
\* takes no other Presence's lease away.
LEMMA MatchedBind ==
  ASSUME TypeOK, TypeOK', Held, Matched, minted' = minted,
         NEW q \in Request, Planning(req[q]), NEW t, Go(q, t),
         ~ Planning(t), t.at # "delete",
         NEW others, Bind(req[q].fresh, req[q].lease, others),
         \A g \in Token : g \in others /\ instance[g] # None =>
           instance[g].presence = req[q].lease.presence
  PROVE  Matched'
<1> DEFINE h == req[q].fresh
           l == req[q].lease
           p == l.presence
<1>1. h \in Token /\ l \in Lease /\ p \in Presence /\ h # None /\ l # None
  BY InstancesAssumption DEF TypeOK, InHand, Planning, Lease
<1>2. h \in minted /\ instance[h] = None /\ Drawing(req[q])
  BY DEF Held, Matched, Planning, Drawing
<1>3. /\ instance'[h] = l
      /\ \A g \in Token : g # h => instance'[g] = IF g \in others THEN None ELSE instance[g]
      /\ until'[h] = bindingUntil'[p]
      /\ \A g \in Token : g # h => until'[g] = until[g]
  BY <1>1 DEF Bind, TypeOK
<1>4. /\ binding'[p] = h
      /\ \A x \in Presence : x # p =>
           binding'[x] = binding[x] /\ bindingUntil'[x] = bindingUntil[x]
  BY <1>1 DEF Bind, TypeOK
<1>5. req'[q] = t /\ \A r \in Request : r # q => req'[r] = req[r]
  BY DEF TypeOK
<1>6. \A g \in Token : instance'[g] # None => g \in minted'
  BY <1>2, <1>3 DEF Matched
<1>7. ASSUME NEW x \in Presence, binding'[x] # None
      PROVE  /\ instance'[binding'[x]] # None
             /\ instance'[binding'[x]].presence = x
             /\ until'[binding'[x]] = bindingUntil'[x]
  <2>1. CASE x = p
    BY <1>1, <1>3, <1>4, <2>1
  <2>2. CASE x # p
    <3> DEFINE g == binding[x]
    <3>1. binding'[x] = g /\ g \in Token /\ g # None
      BY <1>4, <1>7, <2>2 DEF TypeOK
    <3>2. instance[g] # None /\ instance[g].presence = x /\ until[g] = bindingUntil[x]
      BY <3>1 DEF Matched
    <3>3. g # h /\ g \notin others
      BY <1>2, <2>2, <3>1, <3>2
    <3> QED BY <1>3, <1>4, <2>2, <3>1, <3>2, <3>3
  <2> QED BY <2>1, <2>2
<1>8. ASSUME NEW r \in Request, Planning(req'[r])
      PROVE  instance'[req'[r].fresh] = None
  <2>1. r # q /\ req'[r] = req[r] /\ Drawing(req[r]) /\ req[r].fresh \in Token
    BY <1>5, <1>8 DEF Planning, Drawing, TypeOK, InHand
  <2>2. req[r].fresh # h /\ instance[req[r].fresh] = None
    BY <1>2, <1>8, <2>1 DEF Held, Matched
  <2> QED BY <1>3, <2>1, <2>2
<1>9. ASSUME NEW r \in Request, req'[r].at = "delete", instance'[req'[r].token] # None
      PROVE  instance'[req'[r].token].presence = req'[r].lease.presence
  <2>1. r # q /\ req'[r] = req[r] /\ Deleting(req[r]) /\ req[r].token \in Token
    BY <1>5, <1>9 DEF Deleting, TypeOK, InHand
  <2>2. req[r].token # h
    BY <1>2, <2>1, FreshKept
  <2>3. instance'[req[r].token] = instance[req[r].token]
    BY <1>3, <1>9, <2>1, <2>2
  <2> QED BY <1>9, <2>1, <2>3 DEF Matched
<1> QED BY <1>6, <1>7, <1>8, <1>9 DEF Matched

LEMMA MatchedInvariant == Spec => []Matched
<1>1. Init => Matched
  BY DEF Init, Matched, Planning, Rest
<1>2. TypeOK /\ TypeOK' /\ Consistent /\ Held /\ Matched /\ [Next]_vars => Matched'
  <2> SUFFICES ASSUME TypeOK, TypeOK', Consistent, Held, Matched, [Next]_vars
               PROVE  Matched'
    OBVIOUS
  <2>0. \A p \in Presence : binding[p] # None => instance[binding[p]] # None
    BY DEF Matched
  <2>1. ASSUME NEW q \in Request, Done(q),
               UNCHANGED <<instance, until, binding, bindingUntil, minted>>
        PROVE  Matched'
    BY <2>0, <2>1, MatchedDone
  <2>2. ASSUME NEW q \in Request, BeginCreate(q) PROVE Matched'
    <3>1. PICK p \in Presence \ minted, h \in Token \ minted :
            /\ Go(q, [at |-> "register", since |-> clock, token |-> None,
                      lease |-> [presence |-> p, expiresAt |-> clock + InstanceTtl],
                      fresh |-> h])
            /\ minted' = minted \cup {p, h}
      BY <2>2, Zenon DEF BeginCreate
    <3> DEFINE t == [at |-> "register", since |-> clock, token |-> None,
                     lease |-> [presence |-> p, expiresAt |-> clock + InstanceTtl],
                     fresh |-> h]
    <3>2. t.at # "delete" /\ instance[t.fresh] = None
      BY DEF Matched
    <3>3. Go(q, t) /\ UNCHANGED <<instance, until, binding, bindingUntil>>
          /\ minted \subseteq minted'
      BY <2>2, <3>1 DEF BeginCreate
    <3> HIDE DEF t
    <3> QED BY <3>2, <3>3, MatchedMove
  <2>3. ASSUME NEW q \in Request, RegisterInstance(q) PROVE Matched'
    <3> DEFINE p == req[q].lease.presence
               t == [req[q] EXCEPT !.at = "announce"]
    <3>1. /\ req[q] \in Task /\ p \in Presence /\ req[q].at = "register" /\ Planning(req[q])
      BY <2>3 DEF RegisterInstance, TypeOK, InHand, Lease, Planning
    <3>2. CASE Full
      BY <2>1, <2>3, <3>2 DEF RegisterInstance
    <3>3. CASE ~ Full
      <4>1. /\ Bind(req[q].fresh, req[q].lease, {binding[p]}) /\ Go(q, t)
            /\ minted' = minted
        BY <2>3, <3>3 DEF RegisterInstance
      <4>2. binding[p] = None
        BY <3>1 DEF Consistent, Unregistered
      <4>3. \A g \in Token : g \in {binding[p]} /\ instance[g] # None => instance[g].presence = p
        BY <4>2, InstancesAssumption
      <4>4. t.at = "announce"
        BY <3>1 DEF Task
      <4>5. ~ Planning(t) /\ t.at # "delete"
        BY <4>4 DEF Planning
      <4> HIDE DEF t
      <4> QED BY <3>1, <4>1, <4>3, <4>5, MatchedBind
    <3> QED BY <3>2, <3>3
  <2>4. ASSUME NEW q \in Request, Announce(q) PROVE Matched'
    <3> DEFINE t == [req[q] EXCEPT !.at = "deleteRead", !.token = req[q].fresh]
    <3>1. /\ UNCHANGED <<instance, until, binding, bindingUntil, minted>>
          /\ Done(q) \/ Go(q, t)
      BY <2>4, Zenon DEF Announce, ghosts
    <3>2. t.at = "deleteRead"
      BY DEF TypeOK, Task
    <3>3. ~ Planning(t) /\ t.at # "delete"
      BY <3>2 DEF Planning
    <3> HIDE DEF t
    <3> QED BY <2>1, <3>1, <3>3, MatchedMove
  <2>5. ASSUME NEW q \in Request, Rotate(q) PROVE Matched'
    <3> DEFINE p == req[q].lease.presence
               t == [req[q] EXCEPT !.at = "reply"]
    <3>1. /\ req[q] \in Task /\ p \in Presence /\ req[q].token \in Token /\ Planning(req[q])
      BY <2>5 DEF Rotate, TypeOK, InHand, Lease, Planning
    <3>2. CASE ~ Current(req[q])
      BY <2>1, <2>5, <3>2 DEF Rotate
    <3>3. CASE Current(req[q])
      <4>1. /\ Bind(req[q].fresh, req[q].lease, {req[q].token}) /\ Go(q, t)
            /\ minted' = minted
        BY <2>5, <3>3 DEF Rotate
      <4>2. binding[p] = req[q].token /\ binding[p] # None
        BY <3>1, <3>3, InstancesAssumption
      <4>3. \A g \in Token : g \in {req[q].token} /\ instance[g] # None
                              => instance[g].presence = p
        BY <3>1, <4>2 DEF Matched
      <4>4. t.at = "reply"
        BY <3>1 DEF Task
      <4>5. ~ Planning(t) /\ t.at # "delete"
        BY <4>4 DEF Planning
      <4> HIDE DEF t
      <4> QED BY <3>1, <4>1, <4>3, <4>5, MatchedBind
    <3> QED BY <3>2, <3>3
  <2>6. ASSUME NEW q \in Request, CloseInstance(q) PROVE Matched'
    <3> DEFINE p == req[q].lease.presence
               h == req[q].token
    <3>1. Done(q) /\ UNCHANGED <<until, bindingUntil, minted>>
      BY <2>6 DEF CloseInstance
    <3>2. CASE ~ Current(req[q])
      BY <2>1, <2>6, <3>1, <3>2 DEF CloseInstance
    <3>3. CASE Current(req[q])
      <4>1. /\ instance' = [instance EXCEPT ![h] = None]
            /\ binding' = [binding EXCEPT ![p] = None]
        BY <2>6, <3>3 DEF CloseInstance
      <4>2. p \in Presence /\ h \in Token /\ binding[p] = h /\ h # None
        BY <2>6, <3>3, InstancesAssumption DEF CloseInstance, TypeOK, InHand, Lease
      <4>3. instance[h] # None /\ instance[h].presence = p
        BY <4>2 DEF Matched
      <4>4. ASSUME NEW x \in Presence, binding'[x] # None
            PROVE  instance'[binding'[x]] # None
        <5>1. x # p /\ binding'[x] = binding[x] /\ binding[x] \in Token
          BY <4>1, <4>2, <4>4 DEF TypeOK
        <5>2. instance[binding[x]] # None /\ instance[binding[x]].presence = x
          BY <4>4, <5>1 DEF Matched
        <5>3. binding[x] # h
          BY <4>3, <5>1, <5>2
        <5> QED BY <4>1, <5>1, <5>2, <5>3 DEF TypeOK
      <4>5. /\ \A g \in Token : instance'[g] \in {instance[g], None}
            /\ \A x \in Presence : binding'[x] \in {binding[x], None}
        BY <4>1 DEF TypeOK
      <4> QED BY <3>1, <4>4, <4>5, MatchedDone
    <3> QED BY <3>2, <3>3
  <2>7. ASSUME NEW q \in Request, DeleteInstance(q) PROVE Matched'
    <3> DEFINE p == req[q].lease.presence
               h == req[q].token
    <3>1. /\ Done(q) /\ UNCHANGED <<until, bindingUntil, minted>> /\ At(q, "delete")
          /\ instance' = [instance EXCEPT ![h] = None]
          /\ binding' = [binding EXCEPT ![p] = None]
      BY <2>7 DEF DeleteInstance
    <3>2. p \in Presence /\ h \in Token /\ h # None
      BY <3>1, InstancesAssumption DEF TypeOK, InHand, Lease
    <3>3. instance[h] # None => instance[h].presence = p
      BY <3>1 DEF Matched
    <3>4. ASSUME NEW x \in Presence, binding'[x] # None
          PROVE  instance'[binding'[x]] # None
      <4>1. x # p /\ binding'[x] = binding[x] /\ binding[x] \in Token
        BY <3>1, <3>2, <3>4 DEF TypeOK
      <4>2. instance[binding[x]] # None /\ instance[binding[x]].presence = x
        BY <3>4, <4>1 DEF Matched
      <4>3. binding[x] # h
        BY <3>3, <4>1, <4>2
      <4> QED BY <3>1, <4>1, <4>2, <4>3 DEF TypeOK
    <3>5. /\ \A g \in Token : instance'[g] \in {instance[g], None}
          /\ \A x \in Presence : binding'[x] \in {binding[x], None}
      BY <3>1 DEF TypeOK
    <3> QED BY <3>1, <3>4, <3>5, MatchedDone
  <2>8. ASSUME NEW q \in Request, Reply(q) \/ Clear(q) \/ Cancel(q) PROVE Matched'
    BY <2>1, <2>8 DEF Reply, Clear, Cancel
  <2>9. ASSUME NEW q \in Request, NEW ttl \in PublishTtl, Publish(q, ttl) PROVE Matched'
    BY <2>1, <2>9 DEF Publish
  <2>10. ASSUME NEW q \in Request, ClearRead(q) PROVE Matched'
    <3> DEFINE t == [req[q] EXCEPT !.at = "clear"]
    <3>1. /\ UNCHANGED <<instance, until, binding, bindingUntil, minted>>
          /\ Done(q) \/ Go(q, t)
      BY <2>10, Zenon DEF ClearRead
    <3>2. t.at = "clear"
      BY DEF TypeOK, Task
    <3>3. ~ Planning(t) /\ t.at # "delete"
      BY <3>2 DEF Planning
    <3> HIDE DEF t
    <3> QED BY <2>1, <3>1, <3>3, MatchedMove
  <2>11. ASSUME NEW q \in Request, DeleteRead(q) PROVE Matched'
    <3> DEFINE t == [req[q] EXCEPT !.at = "delete", !.lease = instance[req[q].token]]
    <3>1. /\ UNCHANGED <<instance, until, binding, bindingUntil, minted>>
          /\ Done(q) \/ Go(q, t)
      BY <2>11, Zenon DEF DeleteRead
    <3>2. t.at = "delete" /\ t.lease = instance[t.token]
      BY DEF TypeOK, Task
    <3>3. ~ Planning(t)
      BY <3>2 DEF Planning
    <3> HIDE DEF t
    <3> QED BY <2>1, <3>1, <3>2, <3>3, MatchedMove
  <2>12. ASSUME NEW q \in Request, NEW h \in Token, FindExpired(q, h) PROVE Matched'
    <3> DEFINE t == [Rest EXCEPT !.at = "deleteRead", !.since = clock, !.token = h]
    <3>1. Go(q, t) /\ UNCHANGED <<instance, until, binding, bindingUntil, minted>>
      BY <2>12 DEF FindExpired
    <3>2. ~ Planning(t) /\ t.at # "delete"
      BY DEF Planning, Rest
    <3> HIDE DEF t
    <3> QED BY <3>1, <3>2, MatchedMove
  <2>13. ASSUME NEW q \in Request, NEW h \in Token,
                NEW label \in {"close", "publish", "clearRead"}, Begin(q, h, label)
         PROVE  Matched'
    <3> DEFINE t == [at |-> label, since |-> clock, token |-> h, lease |-> instance[h],
                     fresh |-> None]
    <3>1. Go(q, t) /\ UNCHANGED <<instance, until, binding, bindingUntil, minted>>
      BY <2>13 DEF Begin
    <3>2. ~ Planning(t) /\ t.at # "delete"
      BY DEF Planning
    <3> HIDE DEF t
    <3> QED BY <3>1, <3>2, MatchedMove
  <2>14. ASSUME NEW q \in Request, NEW h \in Token, BeginRenew(q, h) PROVE Matched'
    <3> DEFINE l == [instance[h] EXCEPT !.expiresAt = clock + InstanceTtl]
    <3>1. PICK g \in Token \ minted :
            /\ Go(q, [at |-> "rotate", since |-> clock, token |-> h, lease |-> l,
                      fresh |-> g])
            /\ minted' = minted \cup {g}
      BY <2>14, Zenon DEF BeginRenew
    <3> DEFINE t == [at |-> "rotate", since |-> clock, token |-> h, lease |-> l,
                     fresh |-> g]
    <3>2. t.at # "delete" /\ instance[t.fresh] = None
      BY DEF Matched
    <3>3. Go(q, t) /\ UNCHANGED <<instance, until, binding, bindingUntil>>
          /\ minted \subseteq minted'
      BY <2>14, <3>1 DEF BeginRenew
    <3> HIDE DEF t
    <3> QED BY <3>2, <3>3, MatchedMove
  <2>15. ASSUME UNCHANGED <<until, bindingUntil, req, minted>>,
                \A h \in Token : instance'[h] \in {instance[h], None},
                \A p \in Presence : binding'[p] \in {binding[p], None},
                \A p \in Presence : binding'[p] # None => instance'[binding'[p]] # None
         PROVE  Matched'
    BY <2>15, MatchedStep DEF Matched
  <2>16. CASE Tick
    <3>1. UNCHANGED <<until, bindingUntil, req, minted>>
      BY <2>16 DEF Tick
    <3>2. /\ \A h \in Token : instance'[h] = IF until[h] <= clock + 1 THEN None ELSE instance[h]
          /\ \A p \in Presence :
               binding'[p] = IF bindingUntil[p] <= clock + 1 THEN None ELSE binding[p]
      BY <2>16 DEF Tick
    <3>3. ASSUME NEW p \in Presence, binding'[p] # None PROVE instance'[binding'[p]] # None
      <4>1. binding'[p] = binding[p] /\ ~ (bindingUntil[p] <= clock + 1) /\ binding[p] \in Token
        BY <3>2, <3>3 DEF TypeOK
      <4>2. instance[binding[p]] # None /\ until[binding[p]] = bindingUntil[p]
        BY <3>3, <4>1 DEF Matched
      <4> QED BY <3>2, <4>1, <4>2
    <3> QED BY <2>15, <3>1, <3>2, <3>3
  <2>17. CASE UNCHANGED vars
    BY <2>0, <2>15, <2>17 DEF vars
  <2> QED
    BY <2>2, <2>3, <2>4, <2>5, <2>6, <2>7, <2>8, <2>9, <2>10, <2>11, <2>12, <2>13,
       <2>14, <2>16, <2>17, NextCases
<1> QED BY <1>1, <1>2, TypeCorrect, ConsistentInvariant, EnduringInvariant, PTL DEF Spec
-----------------------------------------------------------------------------
(* The refinement.                                                         *)

Single(leases) ==
  \A g, h \in Token :
    leases[g] # None /\ leases[h] # None /\ leases[g].presence = leases[h].presence => g = h

LEMMA TokenOfStored ==
  ASSUME NEW leases, Single(leases), NEW p, NEW h \in Token,
         leases[h] # None, leases[h].presence = p
  PROVE  TokenOf(leases, p) = h
<1> DEFINE P(g) == leases[g] # None /\ leases[g].presence = p
<1>1. \E g \in Token : P(g)
  OBVIOUS
<1>2. (CHOOSE g \in Token : P(g)) \in Token /\ P(CHOOSE g \in Token : P(g))
  BY <1>1
<1>3. (CHOOSE g \in Token : P(g)) = h
  BY <1>2 DEF Single
<1>4. TokenOf(leases, p) = CHOOSE g \in Token : P(g)
  BY <1>1 DEF TokenOf
<1> QED BY <1>3, <1>4

LEMMA TokenOfNone ==
  ASSUME NEW leases, NEW p, \A h \in Token : leases[h] # None => leases[h].presence # p
  PROVE  TokenOf(leases, p) = None
BY DEF TokenOf

\* One request goes on: what is drawn for it was not drawn before.
LEMMA UnusedMove ==
  ASSUME TypeOK, minted \subseteq minted', NEW q \in Request, NEW t, Go(q, t),
         Planning(t) => t.fresh \notin minted,
         t.at = "register" => t.lease.presence \notin minted
  PROVE  \A x : Unused(x)' => Unused(x)
<1>1. req'[q] = t /\ \A r \in Request : r # q => req'[r] = req[r]
  BY DEF TypeOK
<1> QED BY <1>1 DEF Unused, Planning

\* A step that only removes leases ends the instances they were for.
LEMMA EndStep ==
  ASSUME OneToken, OneToken', \A h \in Token : instance'[h] \in {instance[h], None},
         \A x : Unused(x)' => Unused(x)
  PROVE  Life!Next
<1> DEFINE S == {p \in Presence : TokenOf(instance', p) = None}
<1>1. Single(instance) /\ Single(instance')
  BY DEF OneToken, Single
<1>2. ASSUME NEW p \in Presence, p \notin S
      PROVE  TokenOf(instance', p) = TokenOf(instance, p)
  <2>1. PICK h \in Token : instance'[h] # None /\ instance'[h].presence = p
    BY <1>2, TokenOfNone
  <2>2. instance[h] # None /\ instance[h].presence = p
    BY <2>1
  <2> QED BY <1>1, <2>1, <2>2, TokenOfStored
<1>3. [p \in Presence |-> TokenOf(instance', p)]
        = [p \in Presence |-> IF p \in S THEN None
                              ELSE [x \in Presence |-> TokenOf(instance, x)][p]]
  BY <1>2
<1>4. Life!Withdraw
  BY DEF Life!Withdraw
<1>5. Life!End(S)
  BY <1>3, <1>4 DEF Life!End
<1> QED BY <1>5 DEF Life!Next

\* A request writes the lease of the token it has drawn: nothing else changes
\* but the token of that Presence.
LEMMA IssueStep ==
  ASSUME TypeOK, OneToken, OneToken', NEW h \in Token, NEW l \in Lease, NEW others,
         Bind(h, l, others), instance[h] = None,
         \A g \in Token : g \in others /\ instance[g] # None =>
           instance[g].presence = l.presence
  PROVE  [p \in Presence |-> TokenOf(instance', p)]
           = [[p \in Presence |-> TokenOf(instance, p)] EXCEPT ![l.presence] = h]
<1> DEFINE p == l.presence
<1>1. Single(instance) /\ Single(instance')
  BY DEF OneToken, Single
<1>2. p \in Presence /\ l # None
  BY InstancesAssumption DEF Lease
<1>3. /\ instance'[h] = l
      /\ \A g \in Token : g # h => instance'[g] = IF g \in others THEN None ELSE instance[g]
  BY DEF Bind
<1>4. TokenOf(instance', p) = h
  BY <1>1, <1>2, <1>3, TokenOfStored
<1>5. ASSUME NEW x \in Presence, x # p
      PROVE  TokenOf(instance', x) = TokenOf(instance, x)
  <2>1. CASE \E g \in Token : instance[g] # None /\ instance[g].presence = x
    <3>1. PICK g \in Token : instance[g] # None /\ instance[g].presence = x
      BY <2>1
    <3>2. g # h /\ g \notin others
      BY <1>5, <3>1
    <3>3. instance'[g] = instance[g]
      BY <1>3, <3>2
    <3> QED BY <1>1, <3>1, <3>3, TokenOfStored
  <2>2. CASE \A g \in Token : instance[g] # None => instance[g].presence # x
    <3>1. \A g \in Token : instance'[g] # None => instance'[g].presence # x
      BY <1>3, <1>5, <2>2
    <3> QED BY <2>2, <3>1, TokenOfNone
  <2> QED BY <2>1, <2>2
<1> QED BY <1>2, <1>4, <1>5

LEMMA SameLeases ==
  ASSUME OneToken, UNCHANGED instance, \A x : Unused(x)' => Unused(x)
  PROVE  Life!Next
BY EndStep DEF OneToken

\* What a request has used is nobody else's to use.
LEMMA UsedUp ==
  ASSUME TypeOK, Consistent, Held, NEW q \in Request, Planning(req[q]),
         NEW t, Go(q, t), ~ Planning(t), minted' = minted,
         NEW h, h = req[q].fresh, NEW p, p = req[q].lease.presence
  PROVE  /\ ~ Unused(h)'
         /\ At(q, "register") => ~ Unused(p)'
<1>1. req'[q] = t /\ \A r \in Request : r # q => req'[r] = req[r]
  BY DEF TypeOK
<1>2. \A r \in Request : Planning(req'[r]) => r # q /\ req'[r] = req[r] /\ Drawing(req[r])
  BY <1>1 DEF Planning, Drawing
<1>3. h \in minted /\ h \in Token /\ Drawing(req[q]) /\ p \in Presence /\ p \in minted
  BY InstancesAssumption
     DEF Held, Planning, Drawing, TypeOK, InHand, Lease, Consistent, Drawn
<1>4. \A r \in Request : Planning(req'[r]) =>
        req'[r].fresh # h /\ req'[r].fresh \in Token /\ req'[r].lease.presence \in Presence
  BY <1>2, <1>3 DEF Held, TypeOK, InHand, Lease, Drawing, Planning
<1>5. ~ Unused(h)'
  <2>1. \A r \in Request : Planning(req'[r]) => h \notin {req'[r].lease.presence, req'[r].fresh}
    BY <1>3, <1>4, InstancesAssumption
  <2> QED BY <1>3, <2>1 DEF Unused, Planning
<1>6. ASSUME At(q, "register") PROVE ~ Unused(p)'
  <2>1. \A r \in Request : req'[r].at = "register" => req'[r].lease.presence # p
    BY <1>2, <1>6 DEF Consistent, Unregistered, Planning
  <2>2. \A r \in Request : Planning(req'[r]) => req'[r].fresh # p
    BY <1>3, <1>4, InstancesAssumption
  <2> QED BY <1>3, <2>1, <2>2 DEF Unused, Planning
<1> QED BY <1>5, <1>6

\* A registration issues a token for a new Presence, or is refused.
LEMMA RegisterImplements ==
  ASSUME TypeOK, Consistent, Consistent', Held, Matched,
         NEW q \in Request, RegisterInstance(q)
  PROVE  Life!Next
<1>0. PICK h, p : h = req[q].fresh /\ p = req[q].lease.presence
  OBVIOUS
<1> DEFINE l == req[q].lease
           t == [req[q] EXCEPT !.at = "announce"]
<1>1. /\ req[q] \in Task /\ At(q, "register") /\ Planning(req[q])
      /\ h \in Token /\ l \in Lease /\ p \in Presence /\ minted' = minted
  BY <1>0 DEF RegisterInstance, TypeOK, InHand, Lease, Planning
<1>2. OneToken /\ OneToken'
  BY DEF Consistent
<1>3. CASE Full
  <2>1. Go(q, Rest) /\ UNCHANGED instance
    BY <1>3 DEF RegisterInstance, Done
  <2>2. ~ Planning(Rest) /\ Rest.at # "register"
    BY DEF Planning, Rest
  <2>3. \A x : Unused(x)' => Unused(x)
    <3> HIDE DEF Rest
    <3> QED BY <1>1, <2>1, <2>2, UnusedMove
  <2> QED BY <1>2, <2>1, <2>3, SameLeases
<1>4. CASE ~ Full
  <2>1. Bind(h, l, {binding[p]}) /\ Go(q, t)
    BY <1>0, <1>4 DEF RegisterInstance
  <2>2. t.at = "announce"
    BY <1>1 DEF Task
  <2>3. ~ Planning(t) /\ t.at # "register"
    BY <2>2 DEF Planning
  <2>4. binding[p] = None /\ instance[h] = None
    BY <1>0, <1>1 DEF Consistent, Unregistered, Matched
  <2>5. \A g \in Token : g \in {binding[p]} /\ instance[g] # None => instance[g].presence = p
    BY <2>4, InstancesAssumption
  <2> HIDE DEF t
  <2>6. \A x : Unused(x)' => Unused(x)
    BY <1>1, <2>1, <2>3, UnusedMove
  <2>7. ~ Unused(h)' /\ ~ Unused(p)'
    BY <1>0, <1>1, <2>1, <2>3, UsedUp
  <2>8. Unused(h) /\ Unused(p)
    BY <1>0, <1>1 DEF Unused
  <2>9. [x \in Presence |-> TokenOf(instance', x)]
          = [[x \in Presence |-> TokenOf(instance, x)] EXCEPT ![p] = h]
    BY <1>0, <1>1, <1>2, <2>1, <2>4, <2>5, IssueStep
  <2>10. Life!Withdraw
    BY <2>6 DEF Life!Withdraw
  <2>11. Life!Issue(p, h)
    BY <1>1, <2>7, <2>8, <2>9, <2>10 DEF Life!Issue
  <2> QED BY <1>1, <2>11 DEF Life!Next
<1> QED BY <1>3, <1>4

\* A renewal replaces the token of its Presence, or comes too late.
LEMMA RotateImplements ==
  ASSUME TypeOK, Consistent, Consistent', Held, Matched,
         NEW q \in Request, Rotate(q)
  PROVE  Life!Next
<1>0. PICK h, p : h = req[q].fresh /\ p = req[q].lease.presence
  OBVIOUS
<1> DEFINE l == req[q].lease
           t == [req[q] EXCEPT !.at = "reply"]
<1>1. /\ req[q] \in Task /\ At(q, "rotate") /\ Planning(req[q]) /\ req[q].token \in Token
      /\ h \in Token /\ l \in Lease /\ p \in Presence /\ minted' = minted
  BY <1>0 DEF Rotate, TypeOK, InHand, Lease, Planning
<1>2. OneToken /\ OneToken'
  BY DEF Consistent
<1>3. CASE ~ Current(req[q])
  <2>1. Go(q, Rest) /\ UNCHANGED instance
    BY <1>3 DEF Rotate, Done
  <2>2. ~ Planning(Rest) /\ Rest.at # "register"
    BY DEF Planning, Rest
  <2>3. \A x : Unused(x)' => Unused(x)
    <3> HIDE DEF Rest
    <3> QED BY <1>1, <2>1, <2>2, UnusedMove
  <2> QED BY <1>2, <2>1, <2>3, SameLeases
<1>4. CASE Current(req[q])
  <2>1. Bind(h, l, {req[q].token}) /\ Go(q, t)
    BY <1>0, <1>4 DEF Rotate
  <2>2. t.at = "reply"
    BY <1>1 DEF Task
  <2>3. ~ Planning(t) /\ t.at # "register"
    BY <2>2 DEF Planning
  <2>4. /\ instance[req[q].token] # None /\ instance[req[q].token].presence = p
        /\ instance[h] = None /\ req[q].token # None
    BY <1>0, <1>1, <1>4, InstancesAssumption DEF Matched
  <2>5. \A g \in Token : g \in {req[q].token} /\ instance[g] # None
                          => instance[g].presence = p
    BY <2>4
  <2> HIDE DEF t
  <2>6. \A x : Unused(x)' => Unused(x)
    BY <1>1, <2>1, <2>3, UnusedMove
  <2>7. ~ Unused(h)'
    BY <1>0, <1>1, <2>1, <2>3, UsedUp
  <2>8. Unused(h)
    BY <1>0, <1>1 DEF Unused
  <2>9. [x \in Presence |-> TokenOf(instance', x)]
          = [[x \in Presence |-> TokenOf(instance, x)] EXCEPT ![p] = h]
    BY <1>0, <1>1, <1>2, <2>1, <2>4, <2>5, IssueStep
  <2>10. TokenOf(instance, p) = req[q].token
    BY <1>1, <1>2, <2>4, TokenOfStored DEF OneToken, Single
  <2>11. Life!Withdraw
    BY <2>6 DEF Life!Withdraw
  <2>12. Life!Renew(p, h)
    BY <1>1, <2>4, <2>7, <2>8, <2>9, <2>10, <2>11 DEF Life!Renew
  <2> QED BY <1>1, <2>12 DEF Life!Next
<1> QED BY <1>3, <1>4

(* Every step of the requests, of Redis' expiry and of the clock is a step *)
(* of TokenLife or none: one registration issues, one renewal replaces,    *)
(* and whatever else races with them only takes tokens away.               *)
THEOREM TokensLiveHolds == Spec => TokensLive
<1>1. Init => Life!Init
  <2> SUFFICES ASSUME Init PROVE Life!Init
    OBVIOUS
  <2>1. \A p \in Presence : TokenOf(instance, p) = None
    BY TokenOfNone DEF Init
  <2>2. \A x : Unused(x)
    BY DEF Init, Unused
  <2> QED BY <2>1, <2>2 DEF Life!Init
<1>2. TypeOK /\ Consistent /\ Consistent' /\ Held /\ Matched /\ [Next]_vars
        => [Life!Next]_(Life!vars)
  <2> SUFFICES ASSUME TypeOK, Consistent, Consistent', Held, Matched, [Next]_vars
               PROVE  Life!Next \/ UNCHANGED Life!vars
    OBVIOUS
  <2>0. OneToken /\ OneToken'
    BY DEF Consistent
  <2>1. ASSUME NEW q \in Request, Done(q), UNCHANGED minted,
               \A h \in Token : instance'[h] \in {instance[h], None}
        PROVE  Life!Next
    <3>1. Go(q, Rest) /\ ~ Planning(Rest) /\ Rest.at # "register"
      BY <2>1 DEF Done, Planning, Rest
    <3>2. \A x : Unused(x)' => Unused(x)
      <4> HIDE DEF Rest
      <4> QED BY <2>1, <3>1, UnusedMove
    <3> QED BY <2>0, <2>1, <3>2, EndStep
  <2>2. ASSUME NEW q \in Request, NEW t, Go(q, t), minted \subseteq minted',
               UNCHANGED instance, Planning(t) => t.fresh \notin minted,
               t.at = "register" => t.lease.presence \notin minted
        PROVE  Life!Next
    <3>1. \A x : Unused(x)' => Unused(x)
      BY <2>2, UnusedMove
    <3> QED BY <2>0, <2>2, <3>1, SameLeases
  <2>3. ASSUME NEW q \in Request, BeginCreate(q) PROVE Life!Next
    <3>1. PICK p \in Presence \ minted, h \in Token \ minted :
            /\ Go(q, [at |-> "register", since |-> clock, token |-> None,
                      lease |-> [presence |-> p, expiresAt |-> clock + InstanceTtl],
                      fresh |-> h])
            /\ minted' = minted \cup {p, h}
      BY <2>3, Zenon DEF BeginCreate
    <3> DEFINE t == [at |-> "register", since |-> clock, token |-> None,
                     lease |-> [presence |-> p, expiresAt |-> clock + InstanceTtl],
                     fresh |-> h]
    <3>2. t.fresh \notin minted /\ t.lease.presence \notin minted
      OBVIOUS
    <3>3. Go(q, t) /\ UNCHANGED instance /\ minted \subseteq minted'
      BY <2>3, <3>1 DEF BeginCreate
    <3> HIDE DEF t
    <3> QED BY <2>2, <3>2, <3>3
  <2>4. ASSUME NEW q \in Request, Announce(q) PROVE Life!Next
    <3> DEFINE t == [req[q] EXCEPT !.at = "deleteRead", !.token = req[q].fresh]
    <3>1. /\ UNCHANGED <<instance, minted>>
          /\ Done(q) \/ Go(q, t)
      BY <2>4, Zenon DEF Announce, ghosts
    <3>2. t.at = "deleteRead"
      BY DEF TypeOK, Task
    <3>3. ~ Planning(t) /\ t.at # "register"
      BY <3>2 DEF Planning
    <3> HIDE DEF t
    <3> QED BY <2>1, <2>2, <3>1, <3>3
  <2>5. ASSUME NEW q \in Request,
               \/ Reply(q) \/ CloseInstance(q) \/ Clear(q)
               \/ DeleteInstance(q) \/ Cancel(q)
               \/ \E ttl \in PublishTtl : Publish(q, ttl)
        PROVE  Life!Next
    <3>1. Done(q) /\ UNCHANGED minted
      BY <2>5 DEF Reply, CloseInstance, Clear, DeleteInstance, Cancel, Publish
    <3>2. \A h \in Token : instance'[h] \in {instance[h], None}
      BY <2>5 DEF Reply, CloseInstance, Clear, DeleteInstance, Cancel, Publish, TypeOK
    <3> QED BY <2>1, <3>1, <3>2
  <2>6. ASSUME NEW q \in Request, ClearRead(q) PROVE Life!Next
    <3> DEFINE t == [req[q] EXCEPT !.at = "clear"]
    <3>1. /\ UNCHANGED <<instance, minted>>
          /\ Done(q) \/ Go(q, t)
      BY <2>6, Zenon DEF ClearRead
    <3>2. t.at = "clear"
      BY DEF TypeOK, Task
    <3>3. ~ Planning(t) /\ t.at # "register"
      BY <3>2 DEF Planning
    <3> HIDE DEF t
    <3> QED BY <2>1, <2>2, <3>1, <3>3
  <2>7. ASSUME NEW q \in Request, DeleteRead(q) PROVE Life!Next
    <3> DEFINE t == [req[q] EXCEPT !.at = "delete", !.lease = instance[req[q].token]]
    <3>1. /\ UNCHANGED <<instance, minted>>
          /\ Done(q) \/ Go(q, t)
      BY <2>7, Zenon DEF DeleteRead
    <3>2. t.at = "delete"
      BY DEF TypeOK, Task
    <3>3. ~ Planning(t) /\ t.at # "register"
      BY <3>2 DEF Planning
    <3> HIDE DEF t
    <3> QED BY <2>1, <2>2, <3>1, <3>3
  <2>8. ASSUME NEW q \in Request, NEW h \in Token, FindExpired(q, h) PROVE Life!Next
    <3> DEFINE t == [Rest EXCEPT !.at = "deleteRead", !.since = clock, !.token = h]
    <3>1. Go(q, t) /\ UNCHANGED <<instance, minted>>
      BY <2>8 DEF FindExpired
    <3>2. ~ Planning(t) /\ t.at # "register"
      BY DEF Planning, Rest
    <3> HIDE DEF t
    <3> QED BY <2>2, <3>1, <3>2
  <2>9. ASSUME NEW q \in Request, NEW h \in Token,
               NEW label \in {"close", "publish", "clearRead"}, Begin(q, h, label)
        PROVE  Life!Next
    <3> DEFINE t == [at |-> label, since |-> clock, token |-> h, lease |-> instance[h],
                     fresh |-> None]
    <3>1. Go(q, t) /\ UNCHANGED <<instance, minted>>
      BY <2>9 DEF Begin
    <3>2. ~ Planning(t) /\ t.at # "register"
      BY DEF Planning
    <3> HIDE DEF t
    <3> QED BY <2>2, <3>1, <3>2
  <2>10. ASSUME NEW q \in Request, NEW h \in Token, BeginRenew(q, h) PROVE Life!Next
    <3> DEFINE l == [instance[h] EXCEPT !.expiresAt = clock + InstanceTtl]
    <3>1. PICK g \in Token \ minted :
            /\ Go(q, [at |-> "rotate", since |-> clock, token |-> h, lease |-> l,
                      fresh |-> g])
            /\ minted' = minted \cup {g}
      BY <2>10, Zenon DEF BeginRenew
    <3> DEFINE t == [at |-> "rotate", since |-> clock, token |-> h, lease |-> l,
                     fresh |-> g]
    <3>2. t.fresh \notin minted /\ t.at # "register"
      OBVIOUS
    <3>3. Go(q, t) /\ UNCHANGED instance /\ minted \subseteq minted'
      BY <2>10, <3>1 DEF BeginRenew
    <3> HIDE DEF t
    <3> QED BY <2>2, <3>2, <3>3
  <2>11. ASSUME UNCHANGED <<req, minted>>,
                \A h \in Token : instance'[h] \in {instance[h], None}
         PROVE  Life!Next
    <3>1. \A x : Unused(x)' => Unused(x)
      BY <2>11 DEF Unused
    <3> QED BY <2>0, <2>11, <3>1, EndStep
  <2>12. CASE Tick
    BY <2>11, <2>12 DEF Tick
  <2>13. CASE UNCHANGED vars
    BY <2>11, <2>13 DEF vars
  <2> QED
    BY <2>3, <2>4, <2>5, <2>6, <2>7, <2>8, <2>9, <2>10, <2>12, <2>13,
       RegisterImplements, RotateImplements, NextCases
<1>3. Spec => [](TypeOK /\ Consistent /\ Held /\ Matched)
  BY TypeCorrect, ConsistentInvariant, EnduringInvariant, MatchedInvariant, PTL
<1> QED BY <1>1, <1>2, <1>3, PTL DEF Spec, TokensLive, Life!Spec

(* A token that was renewed, closed, rolled back or has expired never      *)
(* authenticates again, and a Presence that has ended is never brought     *)
(* back, whatever requests were already under way.                         *)
THEOREM NothingComesBack == Spec => Life!NeverAgain
<1>1. None \notin Token
  BY InstancesAssumption
<1> QED BY <1>1, TokensLiveHolds, Life!NeverAgainHolds, PTL DEF TokensLive
=============================================================================
