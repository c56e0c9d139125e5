----------------------- MODULE ConnectionRegistryProofs -----------------------
(***************************************************************************)
(* Proofs about ConnectionRegistry for every set of Presences, profiles    *)
(* and connections, every limit and every queue capacity.                  *)
(***************************************************************************)
EXTENDS ConnectionRegistry, FiniteSetTheorems, TLAPS

USE DEF HasRoom, Released

\* Forwarding to a Presence is the one step of a task with a parameter.
LEMMA NextCases ==
  ASSUME Next
  PROVE  \/ \E c \in Conn : Register(c)
         \/ \E c \in Conn : RegisterRefused(c)
         \/ \E c \in Conn : NotifyPrevious(c)
         \/ \E c \in Conn, q \in Presence : SendLookup(c, q)
         \/ \E c \in Conn : SendTry(c)
         \/ \E c \in Conn : Receive(c)
         \/ \E c \in Conn : ReceiveNone(c)
         \/ \E c \in Conn : SocketEnds(c)
         \/ \E c \in Conn : Unregister(c)
         \/ \E c \in Conn : NotifyTaken(c)
         \/ \E p \in Presence : Close(p)
         \/ CloseAll
BY DEF Next, Task

\* try_send keeps every channel within its capacity.
LEMMA TrySendType ==
  ASSUME TypeOK, NEW c, NEW m \in Message, TrySend(c, m)
  PROVE  /\ queue' \in [Conn -> Seq(Message)]
         /\ \A d \in Conn : Len(queue'[d]) <= Capacity
<1>1. CASE Len(queue[c]) < Capacity /\ pc[c] # "ended"
  <2>1. queue' = [queue EXCEPT ![c] = Append(@, m)]
    BY <1>1 DEF TrySend
  <2>2. CASE c \in Conn
    <3>1. queue[c] \in Seq(Message)
      BY <2>2 DEF TypeOK
    <3>2. /\ Append(queue[c], m) \in Seq(Message)
          /\ Len(Append(queue[c], m)) = Len(queue[c]) + 1
      BY <3>1
    <3>3. Len(queue[c]) + 1 <= Capacity
      BY <1>1, <3>1, RegistryAssumption
    <3> QED BY <2>1, <2>2, <3>2, <3>3 DEF TypeOK
  <2>3. CASE c \notin Conn
    BY <2>1, <2>3 DEF TypeOK
  <2> QED BY <2>2, <2>3
<1>2. CASE ~(Len(queue[c]) < Capacity /\ pc[c] # "ended")
  BY <1>2 DEF TrySend, TypeOK
<1> QED BY <1>1, <1>2

(* TypeOK holds in every reachable state; in particular no channel ever    *)
(* holds more than its capacity.                                           *)
THEOREM TypeCorrect == Spec => []TypeOK
<1>1. Init => TypeOK
  BY RegistryAssumption DEF Init, TypeOK, PC, Message
<1>2. TypeOK /\ [Next]_vars => TypeOK'
  <2> SUFFICES ASSUME TypeOK, [Next]_vars PROVE TypeOK'
    OBVIOUS
  <2>1. ASSUME NEW c \in Conn, Register(c) PROVE TypeOK'
    <3>1. registry[PresenceOf[c]] \in Conn \cup {NoConn}
      BY RegistryAssumption DEF TypeOK
    <3> QED BY <2>1, <3>1 DEF Register, Goto, TypeOK, PC
  <2>2. ASSUME NEW c \in Conn, RegisterRefused(c) PROVE TypeOK'
    BY <2>2 DEF RegisterRefused, Goto, TypeOK, PC
  <2>3. ASSUME NEW c \in Conn, NotifyPrevious(c) PROVE TypeOK'
    <3>1. TrySend(previous[c], "close")
      BY <2>3 DEF NotifyPrevious
    <3>2. /\ queue' \in [Conn -> Seq(Message)]
          /\ \A d \in Conn : Len(queue'[d]) <= Capacity
      BY <3>1, TrySendType DEF Message
    <3> QED BY <2>3, <3>2 DEF NotifyPrevious, Goto, TypeOK, PC
  <2>4. ASSUME NEW c \in Conn, NEW q \in Presence, SendLookup(c, q) PROVE TypeOK'
    BY <2>4 DEF SendLookup, Goto, TypeOK, PC
  <2>5. ASSUME NEW c \in Conn, SendTry(c) PROVE TypeOK'
    <3>1. TrySend(clone[c], "text")
      BY <2>5 DEF SendTry
    <3>2. /\ queue' \in [Conn -> Seq(Message)]
          /\ \A d \in Conn : Len(queue'[d]) <= Capacity
      BY <3>1, TrySendType DEF Message
    <3> QED BY <2>5, <3>2 DEF SendTry, Goto, TypeOK, PC
  <2>6. ASSUME NEW c \in Conn, Receive(c) PROVE TypeOK'
    <3>1. queue[c] \in Seq(Message) /\ queue[c] # <<>>
      BY <2>6 DEF Receive, TypeOK
    <3>2. Tail(queue[c]) \in Seq(Message) /\ Len(Tail(queue[c])) = Len(queue[c]) - 1
      BY <3>1
    <3>3. Len(queue[c]) \in Nat /\ Len(queue[c]) <= Capacity /\ Capacity \in Nat
      BY <3>1, RegistryAssumption DEF TypeOK
    <3>4. Len(Tail(queue[c])) <= Capacity
      BY <3>2, <3>3
    <3>5. /\ queue' \in [Conn -> Seq(Message)]
          /\ \A d \in Conn : Len(queue'[d]) <= Capacity
      BY <2>6, <3>2, <3>4 DEF Receive, TypeOK
    <3>6. pc' \in [Conn -> PC]
      BY <2>6 DEF Receive, Goto, TypeOK, PC
    <3> QED BY <2>6, <3>5, <3>6 DEF Receive, TypeOK
  <2>7. ASSUME NEW c \in Conn, ReceiveNone(c) PROVE TypeOK'
    BY <2>7 DEF ReceiveNone, Goto, TypeOK, PC
  <2>8. ASSUME NEW c \in Conn, SocketEnds(c) PROVE TypeOK'
    BY <2>8 DEF SocketEnds, Goto, TypeOK, PC
  <2>9. ASSUME NEW c \in Conn, Unregister(c) PROVE TypeOK'
    BY <2>9 DEF Unregister, Goto, TypeOK, PC
  <2>10. ASSUME NEW c \in Conn, NotifyTaken(c) PROVE TypeOK'
    <3>1. TrySend(c, "close")
      BY <2>10 DEF NotifyTaken
    <3>2. /\ queue' \in [Conn -> Seq(Message)]
          /\ \A d \in Conn : Len(queue'[d]) <= Capacity
      BY <3>1, TrySendType DEF Message
    <3> QED BY <2>10, <3>2 DEF NotifyTaken, TypeOK
  <2>11. ASSUME NEW p \in Presence, Close(p) PROVE TypeOK'
    BY <2>11 DEF Close, TypeOK
  <2>12. CASE CloseAll
    BY <2>12 DEF CloseAll, TypeOK
  <2>13. CASE UNCHANGED vars
    BY <2>13 DEF vars, TypeOK
  <2> QED
    BY <2>1, <2>2, <2>3, <2>4, <2>5, <2>6, <2>7, <2>8, <2>9, <2>10, <2>11, <2>12, <2>13,
       NextCases
<1> QED BY <1>1, <1>2, PTL DEF Spec
-----------------------------------------------------------------------------
(* The per-profile limit.                                                  *)

LEMMA RegisteredFinite ==
  ASSUME NEW f
  PROVE  /\ IsFiniteSet(Registered(f))
         /\ Cardinality(Registered(f)) \in Nat
BY FS_Subset, FS_CardinalityType, RegistryAssumption DEF Registered

\* A step that only removes entries keeps every profile within its limit.
LEMMA RemovalKeepsLimit ==
  ASSUME ProfileLimit,
         \A p \in Presence : registry'[p] \in {registry[p], NoConn}
  PROVE  ProfileLimit'
<1> SUFFICES ASSUME NEW f \in Profile
             PROVE  Cardinality(Registered(f)') <= MaxPerProfile
  BY DEF ProfileLimit
<1>1. Registered(f)' \subseteq Registered(f)
  BY DEF Registered
<1>2. /\ Cardinality(Registered(f)') <= Cardinality(Registered(f))
      /\ Cardinality(Registered(f)') \in Nat
  BY <1>1, RegisteredFinite, FS_Subset, FS_CardinalityType
<1>3. Cardinality(Registered(f)) <= MaxPerProfile
  BY DEF ProfileLimit
<1> QED BY <1>2, <1>3, RegisteredFinite, RegistryAssumption

\* A registration adds at most the Presence it found room for.
LEMMA RegisterKeepsLimit ==
  ASSUME TypeOK, ProfileLimit, NEW c \in Conn, Register(c)
  PROVE  ProfileLimit'
<1> SUFFICES ASSUME NEW f \in Profile
             PROVE  Cardinality(Registered(f)') <= MaxPerProfile
  BY DEF ProfileLimit
<1> DEFINE p == PresenceOf[c]
<1>1. p \in Presence /\ c # NoConn
  BY RegistryAssumption
<1>2. \A q \in Presence : registry'[q] = IF q = p THEN c ELSE registry[q]
  BY <1>1 DEF Register, TypeOK
<1>3. CASE registry[p] # NoConn \/ ProfileOf[p] # f
  <2>1. Registered(f)' = Registered(f)
    BY <1>1, <1>2, <1>3 DEF Registered
  <2> QED BY <2>1 DEF ProfileLimit
<1>4. CASE registry[p] = NoConn /\ ProfileOf[p] = f
  <2>1. Registered(f)' = Registered(f) \cup {p} /\ p \notin Registered(f)
    BY <1>1, <1>2, <1>4 DEF Registered
  <2>2. Cardinality(Registered(f)') = Cardinality(Registered(f)) + 1
    BY <2>1, RegisteredFinite, FS_AddElement
  <2>3. Cardinality(Registered(f)) < MaxPerProfile
    BY <1>4 DEF Register
  <2> QED BY <2>2, <2>3, RegisteredFinite, RegistryAssumption
<1> QED BY <1>3, <1>4

(* No profile ever has more registered connections than the limit: the     *)
(* count and the insertion are one step, and a replacement adds none.      *)
THEOREM ProfileLimitHolds == Spec => []ProfileLimit
<1>1. Init => ProfileLimit
  <2> SUFFICES ASSUME Init, NEW f \in Profile
               PROVE  Cardinality(Registered(f)) <= MaxPerProfile
    BY DEF ProfileLimit
  <2>1. Registered(f) = {}
    BY DEF Init, Registered
  <2> QED BY <2>1, FS_EmptySet, RegistryAssumption
<1>2. TypeOK /\ ProfileLimit /\ [Next]_vars => ProfileLimit'
  <2> SUFFICES ASSUME TypeOK, ProfileLimit, [Next]_vars PROVE ProfileLimit'
    OBVIOUS
  <2>1. ASSUME NEW c \in Conn, Register(c) PROVE ProfileLimit'
    BY <2>1, RegisterKeepsLimit
  <2>2. ASSUME NEW c \in Conn, Unregister(c) PROVE ProfileLimit'
    <3>1. \A p \in Presence : registry'[p] \in {registry[p], NoConn}
      BY <2>2 DEF Unregister, TypeOK
    <3> QED BY <3>1, RemovalKeepsLimit
  <2>3. ASSUME NEW p \in Presence, Close(p) PROVE ProfileLimit'
    <3>1. \A q \in Presence : registry'[q] \in {registry[q], NoConn}
      BY <2>3 DEF Close, TypeOK
    <3> QED BY <3>1, RemovalKeepsLimit
  <2>4. CASE CloseAll
    <3>1. \A p \in Presence : registry'[p] \in {registry[p], NoConn}
      BY <2>4 DEF CloseAll
    <3> QED BY <3>1, RemovalKeepsLimit
  <2>5. CASE UNCHANGED registry
    <3>1. \A p \in Presence : registry'[p] \in {registry[p], NoConn}
      BY <2>5
    <3> QED BY <3>1, RemovalKeepsLimit
  <2>6. \/ UNCHANGED registry
        \/ \E c \in Conn : Register(c) \/ Unregister(c)
        \/ \E p \in Presence : Close(p)
        \/ CloseAll
    BY NextCases DEF vars, RegisterRefused, NotifyPrevious, SendLookup, SendTry,
       Receive, ReceiveNone, SocketEnds, NotifyTaken
  <2> QED BY <2>1, <2>2, <2>3, <2>4, <2>5, <2>6
<1> QED BY <1>1, <1>2, TypeCorrect, PTL DEF Spec
-----------------------------------------------------------------------------
(* The refinement of the ownership promise, its safety part.               *)

LEMMA SameCount ==
  ASSUME NEW f
  PROVE  Ownership!Cardinality(Ownership!Owned(f)) = Cardinality(Registered(f))
<1>1. Registered(f) = Ownership!Owned(f)
  BY DEF Registered, Ownership!Owned
<1>2. \A S : Ownership!Cardinality(S) = Cardinality(S)
  BY Zenon DEF Cardinality, Ownership!Cardinality
<1> QED BY <1>1, <1>2, Zenon

\* A task that moves within serve_socket without touching the registry is the
\* same stage of the same connection.
LEMMA StageKept ==
  ASSUME TypeOK, NEW c \in Conn, NEW label \in PC,
         pc[c] \notin {"upgraded", "ended"}, label \notin {"upgraded", "ended"},
         Goto(c, label), UNCHANGED registry
  PROVE  UNCHANGED Ownership!vars
<1>1. \A d \in Conn : StageOf(d)' = StageOf(d)
  BY DEF Goto, StageOf, TypeOK, PC
<1> QED BY <1>1 DEF Ownership!vars

(* Every step of the registry is a step of the ownership promise or none:  *)
(* only the task of the owner, close and close_all take a Presence from    *)
(* its connection, and a connection that is over is never served again.    *)
THEOREM RegistryImplementsOwnership == Spec => OwnershipSteps
<1>1. Init => Ownership!Init
  BY DEF Init, Ownership!Init, StageOf
<1>2. TypeOK /\ [Next]_vars => [Ownership!Next]_(Ownership!vars)
  <2> SUFFICES ASSUME TypeOK, [Next]_vars
               PROVE  Ownership!Next \/ UNCHANGED Ownership!vars
    OBVIOUS
  <2>1. ASSUME NEW c \in Conn, Register(c) PROVE Ownership!Take(c)
    <3>1. \A d \in Conn : StageOf(d)' = IF d = c THEN "serving" ELSE StageOf(d)
      BY <2>1 DEF Register, Goto, StageOf, TypeOK
    <3>2. StageOf(c) = "waiting"
      BY <2>1 DEF Register, StageOf
    <3> QED BY <2>1, <3>1, <3>2, SameCount DEF Register, Ownership!Take
  <2>2. ASSUME NEW c \in Conn, RegisterRefused(c) PROVE Ownership!Refuse(c)
    <3>1. \A d \in Conn : StageOf(d)' = IF d = c THEN "over" ELSE StageOf(d)
      BY <2>2 DEF RegisterRefused, Goto, StageOf, TypeOK
    <3>2. StageOf(c) = "waiting"
      BY <2>2 DEF RegisterRefused, StageOf
    <3> QED BY <2>2, <3>1, <3>2 DEF RegisterRefused, Ownership!Refuse
  <2>3. ASSUME NEW c \in Conn, Unregister(c) PROVE Ownership!Finish(c)
    <3>1. \A d \in Conn : StageOf(d)' = IF d = c THEN "over" ELSE StageOf(d)
      BY <2>3 DEF Unregister, Goto, StageOf, TypeOK
    <3>2. StageOf(c) = "serving"
      BY <2>3 DEF Unregister, StageOf
    <3> QED BY <2>3, <3>1, <3>2 DEF Unregister, Ownership!Finish
  <2>4. ASSUME NEW p \in Presence, Close(p) PROVE Ownership!Revoke({p})
    <3>1. registry' = [q \in Presence |-> IF q \in {p} THEN NoConn ELSE registry[q]]
      BY <2>4 DEF Close, TypeOK
    <3>2. \A d \in Conn : StageOf(d)' = StageOf(d)
      BY <2>4 DEF Close, StageOf
    <3> QED BY <3>1, <3>2 DEF Ownership!Revoke
  <2>5. ASSUME CloseAll PROVE Ownership!Revoke(Presence)
    <3>1. registry' = [q \in Presence |-> IF q \in Presence THEN NoConn ELSE registry[q]]
      BY <2>5 DEF CloseAll
    <3>2. \A d \in Conn : StageOf(d)' = StageOf(d)
      BY <2>5 DEF CloseAll, StageOf
    <3> QED BY <3>1, <3>2 DEF Ownership!Revoke
  <2>6. ASSUME UNCHANGED registry, UNCHANGED pc PROVE UNCHANGED Ownership!vars
    <3>1. \A d \in Conn : StageOf(d)' = StageOf(d)
      BY <2>6 DEF StageOf
    <3> QED BY <2>6, <3>1 DEF Ownership!vars
  <2>7. ASSUME NEW c \in Conn,
               \/ NotifyPrevious(c) \/ SendTry(c) \/ Receive(c)
               \/ ReceiveNone(c) \/ SocketEnds(c)
               \/ \E q \in Presence : SendLookup(c, q)
        PROVE  UNCHANGED Ownership!vars
    <3>1. UNCHANGED registry /\ pc[c] \notin {"upgraded", "ended"}
      BY <2>7 DEF NotifyPrevious, SendTry, Receive, ReceiveNone, SocketEnds, SendLookup
    <3>2. \/ UNCHANGED pc
          \/ \E label \in PC \ {"upgraded", "ended"} : Goto(c, label)
      BY <2>7 DEF NotifyPrevious, SendTry, Receive, ReceiveNone, SocketEnds, SendLookup, PC
    <3>3. CASE UNCHANGED pc
      BY <2>6, <3>1, <3>3
    <3>4. ASSUME NEW label \in PC \ {"upgraded", "ended"}, Goto(c, label)
          PROVE  UNCHANGED Ownership!vars
      BY <3>1, <3>4, StageKept
    <3> QED BY <3>2, <3>3, <3>4
  <2>8. \/ UNCHANGED <<registry, pc>>
        \/ \E c \in Conn : \/ Register(c) \/ RegisterRefused(c) \/ Unregister(c)
                           \/ NotifyPrevious(c) \/ SendTry(c) \/ Receive(c)
                           \/ ReceiveNone(c) \/ SocketEnds(c)
                           \/ \E q \in Presence : SendLookup(c, q)
        \/ \E p \in Presence : Close(p)
        \/ CloseAll
    BY NextCases DEF vars, NotifyTaken
  <2> QED BY <2>1, <2>2, <2>3, <2>4, <2>5, <2>6, <2>7, <2>8 DEF Ownership!Next
<1> QED BY <1>1, <1>2, TypeCorrect, PTL DEF Spec, OwnershipSteps
-----------------------------------------------------------------------------
(* Displaced connections.                                                  *)

\* A Presence leads to a connection that has authenticated as it.
Keyed == \A p \in Presence : registry[p] # NoConn => PresenceOf[registry[p]] = p

LEMMA KeyedInvariant == Spec => []Keyed
<1>1. Init => Keyed
  BY DEF Init, Keyed
<1>2. TypeOK /\ Keyed /\ [Next]_vars => Keyed'
  <2> SUFFICES ASSUME TypeOK, Keyed, [Next]_vars PROVE Keyed'
    OBVIOUS
  <2>1. ASSUME NEW c \in Conn, Register(c) PROVE Keyed'
    BY <2>1, RegistryAssumption DEF Register, Keyed, TypeOK
  <2>2. ASSUME \A p \in Presence : registry'[p] \in {registry[p], NoConn} PROVE Keyed'
    BY <2>2 DEF Keyed
  <2>3. ASSUME NEW c \in Conn, Unregister(c) PROVE Keyed'
    <3>1. \A p \in Presence : registry'[p] \in {registry[p], NoConn}
      BY <2>3 DEF Unregister, TypeOK
    <3> QED BY <3>1, <2>2
  <2>4. ASSUME NEW p \in Presence, Close(p) PROVE Keyed'
    <3>1. \A q \in Presence : registry'[q] \in {registry[q], NoConn}
      BY <2>4 DEF Close, TypeOK
    <3> QED BY <3>1, <2>2
  <2>5. CASE CloseAll
    <3>1. \A p \in Presence : registry'[p] \in {registry[p], NoConn}
      BY <2>5 DEF CloseAll
    <3> QED BY <3>1, <2>2
  <2>6. \/ UNCHANGED registry
        \/ \E c \in Conn : Register(c) \/ Unregister(c)
        \/ \E p \in Presence : Close(p)
        \/ CloseAll
    BY NextCases DEF vars, RegisterRefused, NotifyPrevious, SendLookup, SendTry,
       Receive, ReceiveNone, SocketEnds, NotifyTaken
  <2> QED BY <2>1, <2>2, <2>3, <2>4, <2>5, <2>6
<1> QED BY <1>1, <1>2, TypeCorrect, PTL DEF Spec

\* A displaced connection is nobody's entry, so nobody can take or clone its
\* sender from the registry.
LEMMA DisplacedUnlisted ==
  ASSUME Keyed, NEW c \in Conn, Displaced(c), NEW p \in Presence
  PROVE  registry[p] # c
BY RegistryAssumption DEF Keyed, Displaced

LEMMA SendersShrink ==
  ASSUME NEW c \in Conn,
         \A d \in Conn : previous'[d] = c => previous[d] = c,
         \A d \in Conn : clone'[d] = c => clone[d] = c,
         c \in taken' => c \in taken
  PROVE  Senders(c)' \subseteq Senders(c)
BY DEF Senders

\* try_send on another channel leaves this one alone.
LEMMA TrySendElsewhere ==
  ASSUME TypeOK, NEW c \in Conn, NEW d, NEW m, TrySend(d, m), d # c
  PROVE  queue'[c] = queue[c]
BY DEF TrySend, TypeOK

LEMMA QueueLengths ==
  ASSUME TypeOK, NEW c \in Conn, queue'[c] = queue[c]
  PROVE  ~ (Len(queue'[c]) > Len(queue[c]))
<1>1. Len(queue[c]) \in Nat
  BY DEF TypeOK
<1> QED BY <1>1

(* Nobody comes by a sender of a displaced connection, and each sender     *)
(* that is left puts one message into its queue at most, for any number of *)
(* connections that forward to each other.                                 *)
THEOREM DisplacedDrainsHolds == Spec => DisplacedDrains
<1>1. TypeOK /\ Keyed /\ [Next]_vars
        => [\A c \in Conn : Displaced(c) =>
              /\ Senders(c)' \subseteq Senders(c)
              /\ Len(queue'[c]) > Len(queue[c]) => Senders(c)' # Senders(c)]_vars
  <2> SUFFICES ASSUME TypeOK, Keyed, Next, NEW c \in Conn, Displaced(c)
               PROVE  /\ Senders(c)' \subseteq Senders(c)
                      /\ Len(queue'[c]) > Len(queue[c]) => Senders(c)' # Senders(c)
    OBVIOUS
  <2> DEFINE Fewer == /\ Senders(c)' \subseteq Senders(c)
                      /\ Len(queue'[c]) > Len(queue[c]) => Senders(c)' # Senders(c)
  <2>1. \A p \in Presence : registry[p] # c
    BY DisplacedUnlisted
  <2>2. ASSUME queue'[c] = queue[c], UNCHANGED <<clone, taken>>,
               \A d \in Conn : previous'[d] = c => previous[d] = c
        PROVE  Fewer
    BY <2>2, SendersShrink, QueueLengths
  <2>3. ASSUME NEW d \in Conn, Register(d) PROVE Fewer
    <3>1. \A e \in Conn : previous'[e] = c => previous[e] = c
      BY <2>1, <2>3, RegistryAssumption DEF Register, TypeOK
    <3> QED BY <2>2, <2>3, <3>1 DEF Register
  <2>4. ASSUME NEW d \in Conn, NotifyPrevious(d) PROVE Fewer
    <3>1. TrySend(previous[d], "close") /\ UNCHANGED <<clone, taken>>
      BY <2>4 DEF NotifyPrevious
    <3>2. \A e \in Conn : previous'[e] = IF e = d THEN NoConn ELSE previous[e]
      BY <2>4 DEF NotifyPrevious, TypeOK
    <3>3. \A e \in Conn : previous'[e] = c => previous[e] = c
      BY <3>2, RegistryAssumption
    <3>4. CASE previous[d] # c
      BY <2>2, <3>1, <3>3, <3>4, TrySendElsewhere
    <3>5. CASE previous[d] = c
      <4>1. <<d, "register">> \in Senders(c)
        BY <3>5 DEF Senders
      <4>2. <<d, "register">> \notin Senders(c)'
        BY <3>2, RegistryAssumption DEF Senders
      <4> QED BY <3>1, <3>3, <4>1, <4>2, SendersShrink
    <3> QED BY <3>4, <3>5
  <2>5. ASSUME NEW d \in Conn, NEW q \in Presence, SendLookup(d, q) PROVE Fewer
    <3>1. \A e \in Conn : clone'[e] = c => clone[e] = c
      BY <2>1, <2>5 DEF SendLookup, TypeOK
    <3> QED BY <2>5, <3>1, SendersShrink, QueueLengths DEF SendLookup
  <2>6. ASSUME NEW d \in Conn, SendTry(d) PROVE Fewer
    <3>1. TrySend(clone[d], "text") /\ UNCHANGED <<previous, taken>>
      BY <2>6 DEF SendTry
    <3>2. \A e \in Conn : clone'[e] = IF e = d THEN NoConn ELSE clone[e]
      BY <2>6 DEF SendTry, TypeOK
    <3>3. \A e \in Conn : clone'[e] = c => clone[e] = c
      BY <3>2, RegistryAssumption
    <3>4. Senders(c)' \subseteq Senders(c)
      BY <3>1, <3>3, SendersShrink
    <3>5. CASE clone[d] # c
      BY <3>1, <3>4, <3>5, TrySendElsewhere, QueueLengths
    <3>6. CASE clone[d] = c
      <4>1. <<d, "send">> \in Senders(c)
        BY <3>6 DEF Senders
      <4>2. <<d, "send">> \notin Senders(c)'
        BY <3>2, RegistryAssumption DEF Senders
      <4> QED BY <3>4, <4>1, <4>2
    <3> QED BY <3>5, <3>6
  <2>7. ASSUME NEW d \in Conn, Receive(d) PROVE Fewer
    <3>1. queue[d] \in Seq(Message) /\ queue[d] # <<>>
      BY <2>7 DEF Receive, TypeOK
    <3>2. Len(Tail(queue[d])) = Len(queue[d]) - 1 /\ Len(queue[d]) \in Nat
      BY <3>1
    <3>3. queue'[c] = IF c = d THEN Tail(queue[d]) ELSE queue[c]
      BY <2>7 DEF Receive, TypeOK
    <3>4. ~ (Len(queue'[c]) > Len(queue[c]))
      BY <3>2, <3>3, QueueLengths
    <3> QED BY <2>7, <3>4, SendersShrink DEF Receive
  <2>8. ASSUME NEW d \in Conn, NotifyTaken(d) PROVE Fewer
    <3>1. TrySend(d, "close") /\ UNCHANGED <<previous, clone>> /\ taken' = taken \ {d}
      BY <2>8 DEF NotifyTaken
    <3>2. Senders(c)' \subseteq Senders(c)
      BY <3>1, SendersShrink
    <3>3. CASE d # c
      BY <3>1, <3>2, <3>3, TrySendElsewhere, QueueLengths
    <3>4. CASE d = c
      <4>1. <<c, "close">> \in Senders(c)
        BY <2>8, <3>4 DEF NotifyTaken, Senders
      <4>2. <<c, "close">> \notin Senders(c)'
        BY <3>1, <3>4 DEF Senders
      <4> QED BY <3>2, <4>1, <4>2
    <3> QED BY <3>3, <3>4
  <2>9. ASSUME NEW p \in Presence, Close(p) PROVE Fewer
    <3>1. c \in taken' => c \in taken
      BY <2>1, <2>9 DEF Close
    <3> QED BY <2>9, <3>1, SendersShrink, QueueLengths DEF Close
  <2>10. CASE CloseAll
    <3>1. c \in taken' => c \in taken
      BY <2>10 DEF CloseAll, Displaced
    <3> QED BY <2>10, <3>1, SendersShrink, QueueLengths DEF CloseAll
  <2>11. ASSUME NEW d \in Conn,
                RegisterRefused(d) \/ ReceiveNone(d) \/ SocketEnds(d) \/ Unregister(d)
         PROVE  Fewer
    BY <2>2, <2>11 DEF RegisterRefused, ReceiveNone, SocketEnds, Unregister
  <2> QED BY <2>3, <2>4, <2>5, <2>6, <2>7, <2>8, <2>9, <2>10, <2>11, NextCases
<1> QED BY <1>1, TypeCorrect, KeyedInvariant, PTL DEF Spec, DisplacedDrains

(* What the ownership promise is worth: a connection that was replaced or  *)
(* closed, or is over, is never registered again, whatever its cleanup and *)
(* the registrations of others interleave.                                 *)
THEOREM NeverRegisteredAgain == Spec => Ownership!LostForGood
<1>1. TypeOK /\ [Ownership!Next]_(Ownership!vars)
        => [Ownership!LostStayLost]_(Ownership!vars)
  <2> SUFFICES ASSUME TypeOK, Ownership!Next, NEW c \in Conn, StageOf(c) # "waiting",
                      registry[PresenceOf[c]] # c
               PROVE  registry'[PresenceOf[c]] # c
    BY DEF Ownership!LostStayLost
  <2>1. PresenceOf[c] \in Presence
    BY RegistryAssumption
  <2>2. ASSUME NEW d \in Conn, Ownership!Take(d) PROVE registry'[PresenceOf[c]] # c
    <3>1. StageOf(d) = "waiting" /\ registry' = [registry EXCEPT ![PresenceOf[d]] = d]
      BY <2>2 DEF Ownership!Take
    <3> QED BY <2>1, <3>1 DEF TypeOK
  <2>3. ASSUME NEW d \in Conn, Ownership!Refuse(d) PROVE registry'[PresenceOf[c]] # c
    BY <2>3 DEF Ownership!Refuse
  <2>4. ASSUME NEW d \in Conn, Ownership!Finish(d) PROVE registry'[PresenceOf[c]] # c
    BY <2>1, <2>4, RegistryAssumption DEF Ownership!Finish, TypeOK
  <2>5. ASSUME NEW S \in SUBSET Presence, Ownership!Revoke(S)
        PROVE  registry'[PresenceOf[c]] # c
    BY <2>1, <2>5, RegistryAssumption DEF Ownership!Revoke
  <2> QED BY <2>2, <2>3, <2>4, <2>5 DEF Ownership!Next
<1> QED BY <1>1, RegistryImplementsOwnership, TypeCorrect, PTL
        DEF OwnershipSteps, Ownership!LostForGood
=============================================================================
