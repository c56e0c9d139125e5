------------------------ MODULE SignalingCleanupProofs ------------------------
(***************************************************************************)
(* Proof that a disconnect deletes the sessions of its Presence, those its *)
(* index has lost by lapsing excepted, on a server that stays up, where a  *)
(* Presence connects once (the cleanups of two connections of one Presence *)
(* may hide sessions from each other).                                     *)
(***************************************************************************)
EXTENDS SignalingRelayProofs

USE DEF At, Move, Idle, redis, Admits, Outlived

\* The task has asked for the ids it is to delete.
Past(t) == \/ t.at \in {"sweeping", "gone"}
           \/ t.at \in {"drop", "unlink"} /\ t.then = "sweeping"

\* The task is going to delete session s, or will when it finds p away.
Deletes(t, s, p) == \/ t.at \in {"drop", "unlink"} /\ t.sid = s
                    \/ t.at = "send" /\ t.msg.sid = s /\ t.msg.to = p

\* Before the SMEMBERS the index has every session it has not lost by lapsing,
\* after it somebody does.
Cared(t, s, p, tasks, idx) ==
  \/ ~ Past(t) /\ s \in idx[p]
  \/ Past(t) /\ s \in t.todo
  \/ Past(t) /\ \E w \in Conn : Deletes(tasks[w], s, p)

CaredFor ==
  \A s \in Session, c \in Conn :
    store[s] # NoSession /\ PresenceOf[c] \in Peers(store[s]) =>
      \/ <<PresenceOf[c], s>> \in unlisted
      \/ Cared(task[c], s, PresenceOf[c], task, index)

\* Where a connection stands, and whom its task deals with.
Place(c, t, s) ==
  /\ s = "waiting" => t.at = "loop"
  /\ s = "over" <=> Past(t) \/ t.at = "sweep"
  /\ t.at \in {"host", "put"} => Peers(t.copy) = {PresenceOf[c], t.msg.to}
  /\ t.at = "gone" => t.todo = {}

Placed == \A c \in Conn : Place(c, task[c], stage[c])

Owners ==
  \A p \in Presence : owner[p] # NoConn =>
    PresenceOf[owner[p]] = p /\ stage[owner[p]] = "serving"
-----------------------------------------------------------------------------
(* Where connections stand.                                                *)

LEMMA ServeCases ==
  ASSUME Serve
  PROVE  \/ \E c \in Conn : \/ Connect(c) \/ Break(c) \/ Put(c) \/ Send(c)
                            \/ DropRead(c) \/ DropCommit(c) \/ Unregister(c)
                            \/ Sweep(c) \/ SweepNext(c) \/ SweepDone(c)
         \/ \E c \in Conn : ContinueCheck(c)
         \/ \E c \in Conn, j \in BOOLEAN : BeginCheck(c, j) \/ HostCheck(c, j)
         \/ \E c \in Conn, m \in Message : Receive(c, m)
         \/ Tick
BY HandleCases DEF Serve

\* A connection that is served goes on within its loop.
LEMMA PlacedMove ==
  ASSUME TypeOK, Placed, UNCHANGED stage, NEW c \in Conn, NEW t, Move(c, t),
         Place(c, t, stage[c])
  PROVE  Placed'
BY DEF Placed, TypeOK

\* A task within its loop, between two texts or handling one.
InLoop(t) == \/ t.at \in {"loop", "absent", "loaded", "host", "put", "send"}
             \/ t.at \in {"drop", "unlink"} /\ t.then # "sweeping"

LEMMA ServedMove ==
  ASSUME TypeOK, Placed, UNCHANGED stage, NEW c \in Conn, NEW t, Move(c, t),
         stage[c] # "waiting", InLoop(task[c]), InLoop(t), t.at \notin {"host", "put"}
  PROVE  Placed'
<1>1. stage[c] = "serving"
  BY DEF Placed, Place, Past, TypeOK, InLoop
<1>2. Place(c, t, stage[c])
  BY <1>1 DEF Place, Past, InLoop
<1> QED BY <1>2, PlacedMove

LEMMA ServedDone ==
  ASSUME TypeOK, Placed, UNCHANGED stage, NEW c \in Conn, Done(c),
         stage[c] # "waiting", InLoop(task[c])
  PROVE  Placed'
<1>1. InLoop(Idle("loop")) /\ Idle("loop").at \notin {"host", "put"}
  BY DEF InLoop
<1> QED BY <1>1, ServedMove DEF Done

LEMMA RegisterPeers ==
  ASSUME NEW r \in Record, NEW k, NEW p
  PROVE  Peers(Register(r, k, p)) = Peers(r)
BY RegisterType DEF Peers

LEMMA StepKeepsPlaces ==
  ASSUME TypeOK, Placed, [Serve]_vars
  PROVE  Placed'
<1>1. ASSUME NEW c \in Conn, Connect(c) PROVE Placed'
  <2>1. task[c].at = "loop" /\ stage'[c] = "serving" /\ UNCHANGED task
        /\ \A d \in Conn : d # c => stage'[d] = stage[d]
    BY <1>1 DEF Connect, Placed, Place, TypeOK
  <2>2. Place(c, task'[c], stage'[c])
    BY <2>1 DEF Place, Past
  <2> QED BY <2>1, <2>2 DEF Placed
<1>2. ASSUME NEW c \in Conn, Break(c) PROVE Placed'
  <2>1. stage[c] = "serving"
    BY <1>2 DEF Break, Placed, Place, Past, TypeOK
  <2>2. Place(c, Idle("leaving"), stage[c])
    BY <2>1 DEF Place, Past
  <2> QED BY <1>2, <2>2, PlacedMove DEF Break
<1>3. ASSUME NEW c \in Conn, Unregister(c) PROVE Placed'
  <2>1. /\ task'[c] = Idle("sweep") /\ stage'[c] = "over"
        /\ \A d \in Conn : d # c => stage'[d] = stage[d] /\ task'[d] = task[d]
    BY <1>3 DEF Unregister, TypeOK
  <2>2. Place(c, task'[c], stage'[c])
    BY <2>1 DEF Place, Past
  <2> QED BY <2>1, <2>2 DEF Placed
<1>4. ASSUME NEW c \in Conn, Sweep(c) PROVE Placed'
  <2> DEFINE t == [task[c] EXCEPT !.at = "sweeping", !.todo = index[PresenceOf[c]]]
  <2>1. stage[c] = "over" /\ t.at = "sweeping"
    BY <1>4, TaskType DEF Sweep, Placed, Place, Task
  <2>2. Place(c, t, stage[c])
    BY <2>1 DEF Place, Past
  <2> HIDE DEF t
  <2> QED BY <1>4, <2>2, PlacedMove DEF Sweep, t
<1>5. ASSUME NEW c \in Conn, SweepNext(c) PROVE Placed'
  <2>1. PICK s \in task[c].todo :
          Move(c, [task[c] EXCEPT !.at = "drop", !.sid = s, !.then = "sweeping",
                                  !.todo = @ \ {s}])
    BY <1>5, Zenon DEF SweepNext
  <2> DEFINE t == [task[c] EXCEPT !.at = "drop", !.sid = s, !.then = "sweeping",
                                  !.todo = @ \ {s}]
  <2>2. stage[c] = "over" /\ t.at = "drop" /\ t.then = "sweeping" /\ UNCHANGED stage
    BY <1>5, TaskType DEF SweepNext, Placed, Place, Past, Task
  <2>3. Place(c, t, stage[c])
    BY <2>2 DEF Place, Past
  <2> HIDE DEF t
  <2> QED BY <2>1, <2>2, <2>3, PlacedMove DEF t
<1>6. ASSUME NEW c \in Conn, SweepDone(c) PROVE Placed'
  <2>1. stage[c] = "over"
    BY <1>6 DEF SweepDone, Placed, Place, Past
  <2>2. Place(c, Idle("gone"), stage[c])
    BY <2>1 DEF Place, Past
  <2> QED BY <1>6, <2>2, PlacedMove DEF SweepDone
<1>8. ASSUME NEW c \in Conn, NEW m \in Message, Receive(c, m) PROVE Placed'
  <2> DEFINE t == [task[c] EXCEPT !.at = IF m.kind = "JOIN_REQUEST"
                                         THEN "absent" ELSE "loaded",
                                  !.msg = m, !.copy = store[m.sid]]
  <2>1. InLoop(t) /\ t.at \notin {"host", "put"}
    BY TaskType DEF Task, InLoop
  <2>2. Move(c, t) /\ UNCHANGED stage /\ stage[c] # "waiting" /\ InLoop(task[c])
    BY <1>8 DEF Receive, InLoop
  <2> HIDE DEF t
  <2> QED BY <2>1, <2>2, ServedMove
<1>9. ASSUME NEW c \in Conn, NEW j \in BOOLEAN, BeginCheck(c, j) PROVE Placed'
  <2> DEFINE r == NewSession(PresenceOf[c], task[c].msg.to, clock + SessionTtl)
             t == [task[c] EXCEPT !.at = "put", !.ttl = SessionTtl, !.sent = clock,
                                  !.copy = r]
  <2>1. UNCHANGED stage /\ At(c, "absent") /\ (Done(c) \/ Move(c, t))
    BY <1>9 DEF BeginCheck
  <2>2. CASE Done(c)
    BY <2>1, <2>2, ServedDone DEF InLoop
  <2>3. CASE Move(c, t)
    <3>1. t.at = "put" /\ t.copy = r /\ t.msg = task[c].msg
      BY TaskType DEF Task
    <3>2. Peers(r) = {PresenceOf[c], task[c].msg.to}
      BY DEF Peers, NewSession
    <3>3. stage[c] = "serving"
      BY <2>1 DEF Placed, Place, Past, TypeOK
    <3>4. Place(c, t, stage[c])
      BY <3>1, <3>2, <3>3 DEF Place, Past
    <3> HIDE DEF t
    <3> QED BY <2>1, <2>3, <3>4, PlacedMove
  <2> QED BY <2>1, <2>2, <2>3
<1>10. ASSUME NEW c \in Conn, NEW j \in BOOLEAN, ContinueCheck(c) \/ HostCheck(c, j)
       PROVE  Placed'
  <2> DEFINE r == task[c].copy
             d(label) == [task[c] EXCEPT !.at = "drop", !.copy = NoSession,
                                         !.sid = task[c].msg.sid, !.then = label]
  <2>1. /\ UNCHANGED stage /\ task[c].at \in {"loaded", "host"} /\ stage[c] # "waiting"
        /\ r \in Record /\ InLoop(task[c])
        /\ \/ Done(c) \/ Drop(c, "loop") \/ Drop(c, "send")
           \/ task[c].at = "loaded" /\ MaySpeak(c) /\ Move(c, Looking(c))
           \/ (task[c].at = "loaded" => MaySpeak(c)) /\ Move(c, Outgoing(c))
    <3>1. stage[c] # "waiting"
      BY <1>10 DEF ContinueCheck, HostCheck, redis
    <3>2. CASE ContinueCheck(c)
      BY <3>1, <3>2, ContinueCases, TaskType DEF TypeOK, InHand, InLoop
    <3>3. CASE HostCheck(c, j)
      BY <3>1, <3>3, HostCases, TaskType DEF TypeOK, InHand, InLoop
    <3> QED BY <1>10, <3>2, <3>3
  <2>2. stage[c] = "serving" /\ Place(c, task[c], stage[c])
    BY <2>1 DEF Placed, Place, Past, TypeOK
  <2>3. (task[c].at = "loaded" => MaySpeak(c)) => Peers(r) = {PresenceOf[c], task[c].msg.to}
    BY <2>1, <2>2 DEF MaySpeak, Peers, Recipient, Place
  <2>4. CASE task[c].at = "loaded" /\ MaySpeak(c) /\ Move(c, Looking(c))
    <3>1. /\ Looking(c).at = "host" /\ Looking(c).copy = r
          /\ Looking(c).msg = task[c].msg
      BY TaskType DEF Looking, Task
    <3>2. Place(c, Looking(c), stage[c])
      BY <2>2, <2>3, <2>4, <3>1 DEF Place, Past
    <3> QED BY <2>1, <2>4, <3>2, PlacedMove
  <2>5. CASE (task[c].at = "loaded" => MaySpeak(c)) /\ Move(c, Outgoing(c))
    <3>1. /\ Outgoing(c).at = "put" /\ Peers(Outgoing(c).copy) = Peers(r)
          /\ Outgoing(c).msg = task[c].msg
      BY <2>1, RegisterPeers, TaskType DEF Outgoing, Task
    <3>2. Place(c, Outgoing(c), stage[c])
      BY <2>2, <2>3, <2>5, <3>1 DEF Place, Past
    <3> QED BY <2>1, <2>5, <3>2, PlacedMove
  <2>6. /\ InLoop(d("loop")) /\ d("loop").at \notin {"host", "put"}
        /\ InLoop(d("send")) /\ d("send").at \notin {"host", "put"}
    BY TaskType DEF Task, InLoop
  <2>7. (Drop(c, "loop") => Move(c, d("loop"))) /\ (Drop(c, "send") => Move(c, d("send")))
    BY DEF Drop
  <2> HIDE DEF d
  <2>8. CASE Done(c)
    BY <2>1, <2>8, ServedDone
  <2>9. CASE Drop(c, "loop") \/ Drop(c, "send")
    BY <2>1, <2>6, <2>7, <2>9, ServedMove
  <2> QED BY <2>1, <2>4, <2>5, <2>8, <2>9
<1>11. ASSUME NEW c \in Conn, Put(c) PROVE Placed'
  <2> DEFINE t == [task[c] EXCEPT !.at = "send", !.copy = NoSession,
                                  !.ttl = 0, !.sent = 0]
  <2>1. InLoop(t) /\ t.at \notin {"host", "put"}
    BY TaskType DEF Task, InLoop
  <2>2. /\ UNCHANGED stage /\ stage[c] # "waiting" /\ InLoop(task[c])
        /\ Done(c) \/ Move(c, t)
    BY <1>11 DEF Put, InLoop
  <2> HIDE DEF t
  <2> QED BY <2>1, <2>2, ServedDone, ServedMove
<1>12. ASSUME NEW c \in Conn, Send(c) PROVE Placed'
  <2> DEFINE t == [task[c] EXCEPT !.at = "drop", !.copy = NoSession,
                                  !.sid = task[c].msg.sid, !.then = "loop"]
  <2>1. InLoop(t) /\ t.at \notin {"host", "put"}
    BY TaskType DEF Task, InLoop
  <2>2. /\ UNCHANGED stage /\ stage[c] # "waiting" /\ InLoop(task[c])
        /\ Done(c) \/ Move(c, t)
    BY <1>12 DEF Send, Drop, InLoop
  <2> HIDE DEF t
  <2> QED BY <2>1, <2>2, ServedDone, ServedMove
<1>13. ASSUME NEW c \in Conn, DropRead(c) PROVE Placed'
  <2> DEFINE t == [task[c] EXCEPT !.at = "unlink", !.copy = store[task[c].sid]]
  <2>1. t.at = "unlink" /\ t.then = task[c].then
    BY TaskType DEF Task
  <2>2. UNCHANGED stage /\ At(c, "drop") /\ Move(c, t) /\ Place(c, task[c], stage[c])
    BY <1>13 DEF DropRead, Placed
  <2>3. Place(c, t, stage[c])
    BY <2>1, <2>2 DEF Place, Past
  <2> HIDE DEF t
  <2> QED BY <2>2, <2>3, PlacedMove
<1>14. ASSUME NEW c \in Conn, DropCommit(c) PROVE Placed'
  <2> DEFINE t == [task[c] EXCEPT !.at = task[c].then, !.copy = NoSession,
                                  !.sid = NoSession]
  <2>1. t.at = task[c].then /\ task[c].then \in {"loop", "send", "sweeping"}
    BY TaskType DEF Task
  <2>2. /\ UNCHANGED stage /\ At(c, "unlink") /\ Place(c, task[c], stage[c])
        /\ stage[c] # "waiting"
        /\ task[c].then = "loop" => Done(c)
        /\ task[c].then # "loop" => Move(c, t)
    BY <1>14 DEF DropCommit, Placed
  <2>3. Place(c, t, stage[c])
    BY <2>1, <2>2 DEF Place, Past
  <2> HIDE DEF t
  <2>4. CASE task[c].then = "loop"
    BY <2>2, <2>4, ServedDone DEF InLoop
  <2>5. CASE task[c].then # "loop"
    BY <2>2, <2>3, <2>5, PlacedMove
  <2> QED BY <2>4, <2>5
<1>15. ASSUME UNCHANGED <<stage, task>> PROVE Placed'
  BY <1>15 DEF Placed
<1> QED
  BY <1>1, <1>2, <1>3, <1>4, <1>5, <1>6, <1>8, <1>9, <1>10, <1>11, <1>12, <1>13, <1>14,
     <1>15, ServeCases DEF Tick, vars
-----------------------------------------------------------------------------
(* Who is registered.                                                      *)

\* Only a connection that is being served is registered, and for its Presence.
LEMMA StepKeepsOwners ==
  ASSUME ConnectsOnce, TypeOK, Owners, [Serve]_vars
  PROVE  Owners'
<1>1. ASSUME NEW c \in Conn, Connect(c) PROVE Owners'
  <2>1. /\ stage'[c] = "serving" /\ \A d \in Conn : d # c => stage'[d] = stage[d]
        /\ owner'[PresenceOf[c]] = c
        /\ \A p \in Presence : p # PresenceOf[c] => owner'[p] = owner[p]
    BY <1>1, RelayAssumption DEF Connect, TypeOK
  <2> QED BY <2>1 DEF Owners, TypeOK
<1>2. ASSUME NEW c \in Conn, Unregister(c) PROVE Owners'
  <2>1. /\ \A d \in Conn : d # c => stage'[d] = stage[d]
        /\ \A p \in Presence : owner'[p] \in {owner[p], NoConn}
        /\ owner'[PresenceOf[c]] # c
    BY <1>2, RelayAssumption DEF Unregister, TypeOK
  <2> QED BY <2>1 DEF Owners, TypeOK
<1>3. ASSUME UNCHANGED <<stage, owner>> PROVE Owners'
  BY <1>3 DEF Owners
<1> QED
  BY <1>1, <1>2, <1>3, ServeCases DEF Tick, Break, Put, Send, DropRead, DropCommit, Sweep,
     SweepNext, SweepDone, BeginCheck, ContinueCheck, HostCheck, Receive, vars

-----------------------------------------------------------------------------
(* No session of a Presence that is cleaned up after is forgotten.         *)

\* What a task goes on to look after when it moves from t to u.
Inherits(t, u, s, p, idx) ==
  s \in (IF Past(t) THEN t.todo ELSE idx[p]) => s \in u.todo \/ Deletes(u, s, p)

\* A step of one task, which writes no session.
LEMMA MoveKeepsCare ==
  ASSUME TypeOK, CaredFor, NEW d \in Conn, NEW t, Move(d, t), UNCHANGED unlisted,
         \A s \in Session : store'[s] \in {store[s], NoSession},
         \A s \in Session, c \in Conn :
           (store'[s] # NoSession /\ ~ Past(task'[c]) /\ s \in index[PresenceOf[c]]) =>
             s \in index'[PresenceOf[c]],
         Past(task[d]) => Past(t),
         \A s \in Session : (store'[s] # NoSession /\ Past(t)) =>
           Inherits(task[d], t, s, PresenceOf[d], index),
         \A s \in Session, c \in Conn :
           (store'[s] # NoSession /\ Past(task[c]) /\ Deletes(task[d], s, PresenceOf[c])) =>
             Deletes(t, s, PresenceOf[c])
  PROVE  CaredFor'
<1> SUFFICES ASSUME NEW s \in Session, NEW c \in Conn, store'[s] # NoSession,
                    PresenceOf[c] \in Peers(store'[s]),
                    <<PresenceOf[c], s>> \notin unlisted'
             PROVE  Cared(task'[c], s, PresenceOf[c], task', index')
  BY DEF CaredFor
<1>1. /\ task'[d] = t
      /\ \A w \in Conn : w # d => task'[w] = task[w]
  BY DEF TypeOK
<1>2. store'[s] = store[s]
  OBVIOUS
<1>3. Cared(task[c], s, PresenceOf[c], task, index)
  BY <1>2 DEF CaredFor
<1>4. CASE ~ Past(task'[c])
  <2>1. ~ Past(task[c])
    BY <1>1, <1>4
  <2> QED BY <1>3, <1>4, <2>1 DEF Cared
<1>5. CASE Past(task'[c]) /\ Past(task[c])
  <2>1. CASE \E w \in Conn : Deletes(task[w], s, PresenceOf[c])
    <3>1. \E w \in Conn : Deletes(task'[w], s, PresenceOf[c])
      BY <1>1, <1>5, <2>1
    <3> QED BY <1>5, <3>1 DEF Cared
  <2>2. CASE s \in task[c].todo
    <3>1. CASE c = d
      <4>1. s \in task'[c].todo \/ Deletes(task'[c], s, PresenceOf[c])
        BY <1>1, <1>5, <2>2, <3>1 DEF Inherits
      <4> QED BY <1>5, <4>1 DEF Cared
    <3>2. CASE c # d
      BY <1>1, <1>5, <2>2, <3>2 DEF Cared
    <3> QED BY <3>1, <3>2
  <2> QED BY <1>3, <1>5, <2>1, <2>2 DEF Cared
<1>6. CASE Past(task'[c]) /\ ~ Past(task[c])
  <2>1. c = d /\ s \in index[PresenceOf[c]]
    BY <1>1, <1>3, <1>6 DEF Cared
  <2>2. s \in task'[c].todo \/ Deletes(task'[c], s, PresenceOf[c])
    BY <1>1, <1>6, <2>1 DEF Inherits
  <2> QED BY <1>6, <2>2 DEF Cared
<1> QED BY <1>4, <1>5, <1>6

\* A step within the loop, which neither writes a session nor gives one up.
LEMMA LoopKeepsCare ==
  ASSUME TypeOK, CaredFor, NEW d \in Conn, NEW t, Move(d, t), UNCHANGED <<store, index, unlisted>>,
         ~ Past(task[d]), ~ Past(t),
         \A s \in Session, c \in Conn :
           (Past(task[c]) /\ Deletes(task[d], s, PresenceOf[c])) =>
             Deletes(t, s, PresenceOf[c])
  PROVE  CaredFor'
BY MoveKeepsCare

\* A session that is written is in the indexes of its peers, and the writer will
\* find the other one away if its cleanup has begun.
LEMMA PutKeepsCare ==
  ASSUME ConnectsOnce, TypeOK, Placed, CaredFor, NEW d \in Conn, Put(d)
  PROVE  CaredFor'
<1> DEFINE r == task[d].copy
           z == task[d].msg.sid
           t == [task[d] EXCEPT !.at = "send", !.copy = NoSession,
                                !.ttl = 0, !.sent = 0]
<1>1. /\ stage[d] # "waiting" /\ task[d].at = "put"
      /\ Peers(r) = {PresenceOf[d], task[d].msg.to}
      /\ r \in Record /\ z \in Session
      /\ index' = [p \in Presence |-> IF p \in Peers(r) THEN index[p] \cup {z} ELSE index[p]]
  BY DEF Put, Link, Placed, Place, TypeOK, InHand, Message
<1>2. ~ Past(task[d]) /\ \A s, p : ~ Deletes(task[d], s, p)
  BY <1>1 DEF Past, Deletes
<1>3. CASE Done(d) /\ UNCHANGED <<store, unlisted>>
  <2>1. Move(d, Idle("loop")) /\ ~ Past(Idle("loop"))
    BY <1>3 DEF Done, Past
  <2>2. \A s \in Session, p \in Presence : s \in index[p] => s \in index'[p]
    BY <1>1
  <2>3. \A c \in Conn : PresenceOf[c] \in Presence
    BY RelayAssumption
  <2> HIDE DEF r, z
  <2> QED BY <1>2, <1>3, <2>1, <2>2, <2>3, MoveKeepsCare
<1>4. CASE /\ store' = [store EXCEPT ![z] = r] /\ Move(d, t)
           /\ unlisted' = unlisted \ (Peers(r) \X {z})
  <2>1. /\ store' = [store EXCEPT ![z] = r] /\ Move(d, t)
        /\ index' = [p \in Presence |-> IF p \in Peers(r) THEN index[p] \cup {z} ELSE index[p]]
        /\ \A p : \A s : s # z /\ <<p, s>> \in unlisted => <<p, s>> \in unlisted'
    BY <1>1, <1>4
  <2>2. t.at = "send" /\ t.msg = task[d].msg /\ ~ Past(t)
    BY TaskType DEF Task, Past
  <2>3. /\ task'[d] = t
        /\ \A w \in Conn : w # d => task'[w] = task[w]
    BY <2>1 DEF TypeOK
  <2> HIDE DEF r, t
  <2> SUFFICES ASSUME NEW s \in Session, NEW c \in Conn, store'[s] # NoSession,
                      PresenceOf[c] \in Peers(store'[s]),
                      <<PresenceOf[c], s>> \notin unlisted'
               PROVE  Cared(task'[c], s, PresenceOf[c], task', index')
    BY DEF CaredFor
  <2>4. PresenceOf[c] \in Presence
    BY RelayAssumption
  <2>5. CASE s = z
    <3>1. PresenceOf[c] \in {PresenceOf[d], task[d].msg.to}
      BY <1>1, <2>1, <2>5 DEF TypeOK
    <3>2. CASE ~ Past(task'[c])
      BY <1>1, <2>1, <2>4, <2>5, <3>1, <3>2 DEF Cared
    <3>3. CASE Past(task'[c])
      <4>1. c # d
        BY <2>2, <2>3, <3>3
      <4>2. PresenceOf[c] = task[d].msg.to
        BY <3>1, <4>1 DEF ConnectsOnce
      <4>3. Deletes(task'[d], s, PresenceOf[c])
        BY <2>2, <2>3, <2>5, <4>2 DEF Deletes
      <4> QED BY <3>3, <4>3 DEF Cared
    <3> QED BY <3>2, <3>3
  <2>6. CASE s # z
    <3>1. store'[s] = store[s]
      BY <2>1, <2>6 DEF TypeOK
    <3>2. Cared(task[c], s, PresenceOf[c], task, index)
      BY <2>1, <2>6, <3>1 DEF CaredFor
    <3>3. Past(task'[c]) <=> Past(task[c])
      BY <1>2, <2>2, <2>3
    <3>4. CASE ~ Past(task[c])
      BY <2>1, <2>4, <3>2, <3>3, <3>4 DEF Cared
    <3>5. CASE Past(task[c])
      <4>1. c # d
        BY <1>2, <3>5
      <4>2. task'[c] = task[c]
        BY <2>3, <4>1
      <4>3. ASSUME NEW w \in Conn, Deletes(task[w], s, PresenceOf[c])
            PROVE  w \in Conn /\ Deletes(task'[w], s, PresenceOf[c])
        BY <1>2, <2>3, <4>3
      <4> QED BY <3>2, <3>5, <4>2, <4>3 DEF Cared
    <3> QED BY <3>4, <3>5
  <2> QED BY <2>5, <2>6
<1> QED BY <1>3, <1>4, Zenon DEF Put

\* Who is being cleaned up after has been unregistered: a message to it is lost.
LEMMA SendKeepsCare ==
  ASSUME ConnectsOnce, TypeOK, Placed, Owners, CaredFor, NEW d \in Conn, Send(d)
  PROVE  CaredFor'
<1> DEFINE t == [task[d] EXCEPT !.at = "drop", !.copy = NoSession,
                                !.sid = task[d].msg.sid, !.then = "loop"]
<1>1. /\ task[d].at = "send" /\ UNCHANGED <<store, index, unlisted>>
      /\ (owner[task[d].msg.to] # NoConn /\ Done(d)) \/ Move(d, t)
      /\ ~ Past(task[d]) /\ task[d].msg \in Message
  BY DEF Send, Drop, Past, TypeOK, InHand
<1>2. CASE owner[task[d].msg.to] # NoConn /\ Done(d)
  <2>1. ASSUME NEW c \in Conn, Past(task[c]), PresenceOf[c] = task[d].msg.to PROVE FALSE
    <3>1. stage[c] = "over"
      BY <2>1 DEF Placed, Place
    <3>2. owner[PresenceOf[c]] \in Conn /\ PresenceOf[c] \in Presence
      BY <1>2, <2>1, RelayAssumption DEF TypeOK
    <3>3. /\ PresenceOf[owner[PresenceOf[c]]] = PresenceOf[c]
          /\ stage[owner[PresenceOf[c]]] = "serving"
      BY <1>2, <2>1, <3>2 DEF Owners
    <3> QED BY <3>1, <3>2, <3>3 DEF ConnectsOnce
  <2>2. \A s \in Session, c \in Conn : ~ (Past(task[c]) /\ Deletes(task[d], s, PresenceOf[c]))
    BY <1>1, <2>1 DEF Deletes
  <2>3. ~ Past(Idle("loop"))
    BY DEF Past
  <2> QED BY <1>1, <1>2, <2>2, <2>3, LoopKeepsCare DEF Done
<1>3. CASE Move(d, t)
  <2>1. t.at = "drop" /\ t.sid = task[d].msg.sid /\ t.then = "loop"
    BY TaskType DEF Task
  <2>2. ~ Past(t) /\ \A s, p : Deletes(task[d], s, p) => Deletes(t, s, p)
    BY <1>1, <2>1 DEF Past, Deletes
  <2> HIDE DEF t
  <2> QED BY <1>1, <1>3, <2>2, LoopKeepsCare
<1> QED BY <1>1, <1>2, <1>3

LEMMA DropKeepsCare ==
  ASSUME TypeOK, CaredFor, NEW d \in Conn, DropRead(d) \/ DropCommit(d)
  PROVE  CaredFor'
<1>1. CASE DropRead(d)
  <2> DEFINE t == [task[d] EXCEPT !.at = "unlink", !.copy = store[task[d].sid]]
  <2>1. /\ task[d].at = "drop" /\ Move(d, t) /\ UNCHANGED <<store, index, unlisted>>
        /\ t.at = "unlink" /\ t.sid = task[d].sid /\ t.then = task[d].then
        /\ t.todo = task[d].todo
    BY <1>1, TaskType DEF DropRead, Task
  <2>2. /\ Past(t) <=> Past(task[d])
        /\ \A s, p : Deletes(task[d], s, p) => Deletes(t, s, p)
        /\ \A s \in Session : Past(t) => Inherits(task[d], t, s, PresenceOf[d], index)
    BY <2>1 DEF Past, Deletes, Inherits
  <2> HIDE DEF t
  <2> QED BY <2>1, <2>2, MoveKeepsCare
<1>2. CASE DropCommit(d)
  <2>1. /\ task[d].at = "unlink" /\ task[d].sid \in Session
        /\ task[d].then \in {"loop", "send", "sweeping"}
        /\ store' = [store EXCEPT ![task[d].sid] = NoSession]
        /\ \A p \in Presence : index[p] \ {task[d].sid} \subseteq index'[p]
        /\ UNCHANGED unlisted
    BY <1>2, TaskType DEF DropCommit, TypeOK, InHand, Task
  <2> DEFINE t == IF task[d].then = "loop" THEN Idle("loop")
                  ELSE [task[d] EXCEPT !.at = task[d].then, !.copy = NoSession,
                                       !.sid = NoSession]
  <2>2. Move(d, t)
    BY <1>2 DEF DropCommit, Done
  <2>3. /\ t.at = task[d].then
        /\ task[d].then = "sweeping" => t.todo = task[d].todo
    BY TaskType DEF Task
  <2>4. /\ Past(t) <=> Past(task[d])
        /\ \A s \in Session : Past(t) => Inherits(task[d], t, s, PresenceOf[d], index)
    BY <2>1, <2>3 DEF Past, Deletes, Inherits
  <2>5. /\ \A s \in Session : store'[s] \in {store[s], NoSession}
        /\ store'[task[d].sid] = NoSession
    BY <2>1 DEF TypeOK
  <2>6. \A s \in Session, p \in Presence :
          (store'[s] # NoSession /\ s \in index[p]) => s \in index'[p]
    BY <2>1, <2>5
  <2>7. \A s \in Session : \A p : Deletes(task[d], s, p) => store'[s] = NoSession
    BY <2>1, <2>5 DEF Deletes
  <2> HIDE DEF t
  <2> QED BY <2>1, <2>2, <2>4, <2>5, <2>6, <2>7, MoveKeepsCare, RelayAssumption
<1> QED BY <1>1, <1>2

\* The cleanup: what SMEMBERS answers is to do, what is begun is deleted, and the
\* DEL of the index is nobody else's.
LEMMA SweepKeepsCare ==
  ASSUME ConnectsOnce, TypeOK, CaredFor, NEW d \in Conn,
         Sweep(d) \/ SweepNext(d) \/ SweepDone(d)
  PROVE  CaredFor'
<1>1. CASE Sweep(d)
  <2> DEFINE t == [task[d] EXCEPT !.at = "sweeping", !.todo = index[PresenceOf[d]]]
  <2>1. /\ task[d].at = "sweep" /\ Move(d, t) /\ UNCHANGED <<store, index, unlisted>>
        /\ t.at = "sweeping" /\ t.todo = index[PresenceOf[d]]
    BY <1>1, TaskType DEF Sweep, Task
  <2>2. /\ Past(t) /\ ~ Past(task[d])
        /\ \A s, p : ~ Deletes(task[d], s, p)
        /\ \A s \in Session : Inherits(task[d], t, s, PresenceOf[d], index)
    BY <2>1 DEF Past, Deletes, Inherits
  <2> HIDE DEF t
  <2> QED BY <2>1, <2>2, MoveKeepsCare
<1>2. CASE SweepNext(d)
  <2>1. PICK z \in task[d].todo :
          Move(d, [task[d] EXCEPT !.at = "drop", !.sid = z, !.then = "sweeping",
                                  !.todo = @ \ {z}])
    BY <1>2, Zenon DEF SweepNext
  <2> DEFINE t == [task[d] EXCEPT !.at = "drop", !.sid = z, !.then = "sweeping",
                                  !.todo = @ \ {z}]
  <2>2. /\ task[d].at = "sweeping" /\ UNCHANGED <<store, index, unlisted>>
        /\ t.at = "drop" /\ t.then = "sweeping" /\ t.sid = z /\ t.todo = task[d].todo \ {z}
    BY <1>2, TaskType DEF SweepNext, Task
  <2>3. /\ Past(t) /\ Past(task[d])
        /\ \A s, p : ~ Deletes(task[d], s, p)
        /\ \A s \in Session : Inherits(task[d], t, s, PresenceOf[d], index)
    BY <2>2 DEF Past, Deletes, Inherits
  <2>4. Move(d, t)
    BY <2>1
  <2> HIDE DEF t
  <2> QED BY <2>2, <2>3, <2>4, MoveKeepsCare
<1>3. CASE SweepDone(d)
  <2> DEFINE t == Idle("gone")
  <2>1. /\ task[d].at = "sweeping" /\ task[d].todo = {} /\ UNCHANGED <<store, unlisted>>
        /\ Move(d, t) /\ t.at = "gone" /\ task'[d] = t
        /\ \A p \in Presence : p # PresenceOf[d] => index'[p] = index[p]
    BY <1>3 DEF SweepDone, TypeOK
  <2>2. /\ Past(t) /\ Past(task[d])
        /\ \A s, p : ~ Deletes(task[d], s, p)
        /\ \A s \in Session : Inherits(task[d], t, s, PresenceOf[d], index)
    BY <2>1 DEF Past, Deletes, Inherits
  <2>3. \A c \in Conn : ~ Past(task'[c]) =>
          PresenceOf[c] \in Presence /\ PresenceOf[c] # PresenceOf[d]
    BY <2>1, <2>2, RelayAssumption DEF ConnectsOnce
  <2> HIDE DEF t
  <2> QED BY <2>1, <2>2, <2>3, MoveKeepsCare
<1> QED BY <1>1, <1>2, <1>3

\* A session that is still alive has its index still, or is lost to it.
LEMMA TickKeepsCare ==
  ASSUME TypeOK, CaredFor, Tick
  PROVE  CaredFor'
<1> SUFFICES ASSUME NEW s \in Session, NEW c \in Conn, store'[s] # NoSession,
                    PresenceOf[c] \in Peers(store'[s]),
                    <<PresenceOf[c], s>> \notin unlisted'
             PROVE  Cared(task'[c], s, PresenceOf[c], task', index')
  BY DEF CaredFor
<1> DEFINE p == PresenceOf[c]
           dropped == {q \in Presence : indexUntil[q] <= clock + 1}
<1>1. /\ store'[s] = store[s] /\ UNCHANGED task /\ p \in Presence
      /\ index'[p] = IF p \in dropped THEN {} ELSE index[p]
      /\ unlisted' = unlisted \cup {e \in dropped \X Session :
                                      e[2] \in index[e[1]] /\ store'[e[2]] # NoSession}
  BY RelayAssumption DEF Tick, TypeOK
<1>2. s \in index[p] => p \notin dropped
  <2>1. SUFFICES ASSUME s \in index[p], p \in dropped PROVE FALSE
    OBVIOUS
  <2> DEFINE e == <<p, s>>
  <2>2. e \in dropped \X Session /\ e[1] = p /\ e[2] = s
    BY <2>1
  <2> HIDE DEF dropped, e, p
  <2>3. e \in unlisted'
    BY <1>1, <2>1, <2>2
  <2> QED BY <2>3 DEF e, p
<1>3. Cared(task[c], s, p, task, index)
  <2>1. <<p, s>> \notin unlisted
    BY <1>1
  <2> QED BY <1>1, <2>1 DEF CaredFor
<1> HIDE DEF dropped
<1> QED BY <1>1, <1>2, <1>3 DEF Cared

\* Steps between which there is nothing a task has promised to delete.
Unburdened(t) == \/ t.at \in {"loop", "absent", "loaded", "host", "put", "leaving", "sweep"}
                 \/ t.at = "drop" /\ t.then # "sweeping"

LEMMA QuietKeepsCare ==
  ASSUME TypeOK, CaredFor, NEW d \in Conn, NEW t, Move(d, t), UNCHANGED <<store, index, unlisted>>,
         Unburdened(task[d]), task[d].at # "drop", Unburdened(t)
  PROVE  CaredFor'
<1>1. ~ Past(task[d]) /\ ~ Past(t) /\ \A s, p : ~ Deletes(task[d], s, p)
  BY DEF Past, Deletes, Unburdened
<1> QED BY <1>1, LoopKeepsCare

LEMMA DoneKeepsCare ==
  ASSUME TypeOK, CaredFor, NEW d \in Conn, Done(d), UNCHANGED <<store, index, unlisted>>,
         Unburdened(task[d]), task[d].at # "drop"
  PROVE  CaredFor'
<1>1. Unburdened(Idle("loop"))
  BY DEF Unburdened
<1> QED BY <1>1, QuietKeepsCare DEF Done

LEMMA StepKeepsCare ==
  ASSUME ConnectsOnce, TypeOK, Placed, Owners, CaredFor, [Serve]_vars
  PROVE  CaredFor'
<1>1. ASSUME NEW d \in Conn, Drop(d, "loop") \/ Drop(d, "send"), UNCHANGED <<store, index, unlisted>>,
             task[d].at \in {"loaded", "host"}
      PROVE  CaredFor'
  <2> DEFINE t(label) == [task[d] EXCEPT !.at = "drop", !.copy = NoSession,
                                         !.sid = task[d].msg.sid, !.then = label]
  <2>1. /\ Unburdened(t("loop")) /\ Unburdened(t("send"))
        /\ Unburdened(task[d]) /\ task[d].at # "drop"
    BY <1>1, TaskType DEF Task, Unburdened
  <2>2. Move(d, t("loop")) \/ Move(d, t("send"))
    BY <1>1 DEF Drop
  <2> HIDE DEF t
  <2>3. CASE Move(d, t("loop"))
    BY <1>1, <2>1, <2>3, QuietKeepsCare
  <2>4. CASE Move(d, t("send"))
    BY <1>1, <2>1, <2>4, QuietKeepsCare
  <2> QED BY <2>2, <2>3, <2>4
<1>2. ASSUME NEW d \in Conn, Break(d) PROVE CaredFor'
  <2>1. Unburdened(Idle("leaving")) /\ Unburdened(task[d]) /\ task[d].at # "drop"
    BY <1>2 DEF Break, Unburdened
  <2>2. Move(d, Idle("leaving")) /\ UNCHANGED <<store, index, unlisted>>
    BY <1>2 DEF Break
  <2> QED BY <2>1, <2>2, QuietKeepsCare
<1>3. ASSUME NEW d \in Conn, Unregister(d) PROVE CaredFor'
  <2>1. Unburdened(Idle("sweep")) /\ Unburdened(task[d]) /\ task[d].at # "drop"
    BY <1>3 DEF Unregister, Unburdened
  <2>2. Move(d, Idle("sweep")) /\ UNCHANGED <<store, index, unlisted>>
    BY <1>3 DEF Unregister
  <2> QED BY <2>1, <2>2, QuietKeepsCare
<1>4. ASSUME NEW d \in Conn, NEW m \in Message, Receive(d, m) PROVE CaredFor'
  <2> DEFINE t == [task[d] EXCEPT !.at = IF m.kind = "JOIN_REQUEST"
                                         THEN "absent" ELSE "loaded",
                                  !.msg = m, !.copy = store[m.sid]]
  <2>1. Unburdened(t)
    BY TaskType DEF Task, Unburdened
  <2>2. /\ Move(d, t) /\ UNCHANGED <<store, index, unlisted>>
        /\ Unburdened(task[d]) /\ task[d].at # "drop"
    BY <1>4 DEF Receive, Unburdened
  <2> HIDE DEF t
  <2> QED BY <2>1, <2>2, QuietKeepsCare
<1>5. ASSUME NEW d \in Conn, NEW j \in BOOLEAN, BeginCheck(d, j) PROVE CaredFor'
  <2> DEFINE t == [task[d] EXCEPT !.at = "put", !.ttl = SessionTtl, !.sent = clock,
                     !.copy = NewSession(PresenceOf[d], task[d].msg.to, clock + SessionTtl)]
  <2>1. Unburdened(t)
    BY TaskType DEF Task, Unburdened
  <2>2. /\ Done(d) \/ Move(d, t)
        /\ UNCHANGED <<store, index, unlisted>> /\ Unburdened(task[d]) /\ task[d].at # "drop"
    BY <1>5 DEF BeginCheck, Unburdened
  <2> HIDE DEF t
  <2> QED BY <2>1, <2>2, QuietKeepsCare, DoneKeepsCare
<1>6. ASSUME NEW d \in Conn, NEW j \in BOOLEAN, ContinueCheck(d) \/ HostCheck(d, j)
      PROVE  CaredFor'
  <2>1. /\ UNCHANGED <<store, index, unlisted>> /\ task[d].at \in {"loaded", "host"}
        /\ \/ Done(d) \/ Drop(d, "loop") \/ Drop(d, "send")
           \/ Move(d, Looking(d)) \/ Move(d, Outgoing(d))
    BY <1>6, ContinueCases, HostCases
  <2>2. /\ Unburdened(task[d]) /\ task[d].at # "drop"
        /\ Unburdened(Looking(d)) /\ Unburdened(Outgoing(d))
    BY <2>1, TaskType DEF Looking, Outgoing, Task, Unburdened
  <2>3. CASE Done(d)
    BY <2>1, <2>2, <2>3, DoneKeepsCare
  <2>4. CASE Move(d, Looking(d))
    BY <2>1, <2>2, <2>4, QuietKeepsCare
  <2>5. CASE Move(d, Outgoing(d))
    BY <2>1, <2>2, <2>5, QuietKeepsCare
  <2>6. CASE Drop(d, "loop") \/ Drop(d, "send")
    BY <1>1, <2>1, <2>6
  <2> QED BY <2>1, <2>3, <2>4, <2>5, <2>6
<1>7. ASSUME UNCHANGED <<store, index, unlisted, task>> PROVE CaredFor'
  BY <1>7 DEF CaredFor
<1> QED
  BY <1>2, <1>3, <1>4, <1>5, <1>6, <1>7, PutKeepsCare, SendKeepsCare, DropKeepsCare,
     SweepKeepsCare, TickKeepsCare, ServeCases DEF Connect, vars
-----------------------------------------------------------------------------
(* What serving does is a step of the whole specification.                 *)

CleanupInv == TypeOK /\ Placed /\ Owners /\ CaredFor

LEMMA ServeImpliesSpec == ServeSpec => Spec
<1>1. [Serve]_vars => [Next]_vars
  BY DEF Next
<1> QED BY <1>1, PTL DEF ServeSpec, Spec

LEMMA CleanupInvariant ==
  ASSUME ConnectsOnce
  PROVE  ServeSpec => []CleanupInv
<1>1. Init => Placed /\ Owners /\ CaredFor
  <2> SUFFICES ASSUME Init PROVE Placed /\ Owners /\ CaredFor
    OBVIOUS
  <2>1. \A c \in Conn : task[c].at = "loop" /\ stage[c] = "waiting"
    BY DEF Init
  <2>2. Placed
    BY <2>1 DEF Placed, Place, Past
  <2> QED BY <2>2 DEF Init, Owners, CaredFor
<1>2. (/\ TypeOK /\ Placed /\ Owners /\ CaredFor
       /\ [Serve]_vars)
        => (Placed /\ Owners /\ CaredFor)'
  BY StepKeepsPlaces, StepKeepsOwners, StepKeepsCare
<1> QED
  BY <1>1, <1>2, ServeImpliesSpec, TypeCorrect, PTL
  DEF ServeSpec, CleanupInv

(* A disconnect deletes the sessions of its Presence, whatever the peers'  *)
(* handlers write while it does, those its index has lost by lapsing       *)
(* excepted: for every session time, slack of the indexes, number of       *)
(* sessions and delay of the writes, the server staying up and each        *)
(* Presence connecting once.                                               *)
THEOREM DisconnectDeletesHolds ==
  ASSUME ConnectsOnce
  PROVE  ServeSpec => []DisconnectDeletes
<1>1. CleanupInv => DisconnectDeletes
  <2> SUFFICES ASSUME CleanupInv, NEW s \in Session, store[s] # NoSession,
                      NEW p \in Peers(store[s]), Away(p), <<p, s>> \notin unlisted
               PROVE  Settling(s)
    BY DEF DisconnectDeletes
  <2>1. PICK c \in Conn : PresenceOf[c] = p /\ task[c].at = "gone"
    BY Zenon DEF Away
  <2>2. Past(task[c]) /\ task[c].todo = {}
    BY <2>1 DEF Past, CleanupInv, Placed, Place
  <2>3. Cared(task[c], s, p, task, index)
    BY <2>1 DEF CleanupInv, CaredFor
  <2>4. PICK w \in Conn : Deletes(task[w], s, p)
    BY <2>2, <2>3 DEF Cared
  <2>5. task[w].at \in {"send", "drop", "unlink"} /\ s \in {task[w].msg.sid, task[w].sid}
    BY <2>4 DEF Deletes
  <2>6. stage[w] # "waiting"
    BY <2>5 DEF CleanupInv, Placed, Place
  <2> QED BY <2>5, <2>6 DEF Settling
<1> QED BY <1>1, CleanupInvariant, PTL
=============================================================================
