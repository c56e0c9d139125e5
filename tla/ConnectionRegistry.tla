------------------------- MODULE ConnectionRegistry -------------------------
(***************************************************************************)
(* The process-local registry of signaling connections (SignalingConnections) *)
(* with the part of the WebSocket task that uses it.  Each connection has  *)
(* a bounded mpsc queue whose receiving end belongs to the task that runs  *)
(* serve_socket.  A sending end lives in the registry; register, close and *)
(* close_all move it out under the write lock and use it after the lock is *)
(* released, and send clones it under the read lock and uses the clone     *)
(* later.  When no sending end is left, recv answers None.                 *)
(***************************************************************************)
EXTENDS Naturals, Sequences, FiniteSets

CONSTANTS
  Presence,       (* public ids of the runtime instances                  *)
  Profile,        (* account ids                                          *)
  Conn,           (* connection ids: one Uuid per accepted upgrade        *)
  NoConn,         (* the absent connection                                *)
  ProfileOf,      (* RuntimeInstance.profile_id of a Presence             *)
  PresenceOf,     (* RuntimeInstance.presence_id of a connection          *)
  MaxPerProfile,  (* MAX_CONNECTIONS_PER_PROFILE                          *)
  Capacity        (* capacity of the mpsc channel                         *)

ASSUME RegistryAssumption ==
  /\ IsFiniteSet(Presence)
  /\ NoConn \notin Conn
  /\ ProfileOf \in [Presence -> Profile]
  /\ PresenceOf \in [Conn -> Presence]
  /\ MaxPerProfile \in Nat
  /\ Capacity \in Nat \ {0}

VARIABLES
  registry,   (* presence_id -> Connection.id, the HashMap                 *)
  queue,      (* the messages in a connection's channel                    *)
  pc,         (* where the task of a connection stands                     *)
  previous,   (* the connection register() displaced and has yet to notify *)
  clone,      (* whose sender the send() in progress of a task has cloned  *)
  taken       (* removed by close or close_all, Close not yet sent         *)

vars == <<registry, queue, pc, previous, clone, taken>>

Message == {"text", "close"}
PC == {"upgraded", "notify", "loop", "sending", "leaving", "ended"}

TypeOK ==
  /\ registry \in [Presence -> Conn \cup {NoConn}]
  /\ queue \in [Conn -> Seq(Message)]
  /\ \A c \in Conn : Len(queue[c]) <= Capacity
  /\ pc \in [Conn -> PC]
  /\ previous \in [Conn -> Conn \cup {NoConn}]
  /\ clone \in [Conn -> Conn \cup {NoConn}]
  /\ taken \in SUBSET Conn

Init ==
  /\ registry = [p \in Presence |-> NoConn]
  /\ queue = [c \in Conn |-> <<>>]
  /\ pc = [c \in Conn |-> "upgraded"]
  /\ previous = [c \in Conn |-> NoConn]
  /\ clone = [c \in Conn |-> NoConn]
  /\ taken = {}
-----------------------------------------------------------------------------
\* The Presences of a profile that have a connection.
Registered(f) == {p \in Presence : registry[p] # NoConn /\ ProfileOf[p] = f}

\* register's check: a replacement takes no room.
\* Faulty variant: one too many.
HasRoomPastLimit(p) ==
  registry[p] # NoConn \/ Cardinality(Registered(ProfileOf[p])) <= MaxPerProfile

HasRoom(p) ==
  registry[p] # NoConn \/ Cardinality(Registered(ProfileOf[p])) < MaxPerProfile

\* A sending end of c's channel exists somewhere.
\* Faulty variant: the task itself holds one.
HasSenderAlways(c) == TRUE

HasSender(c) ==
  \/ registry[PresenceOf[c]] = c
  \/ c \in taken
  \/ \E d \in Conn : previous[d] = c \/ clone[d] = c

\* Faulty variant: the channel is unbounded.
SendUnbounded(c, m) == queue' = [queue EXCEPT ![c] = Append(@, m)]

\* try_send on channel c: it never waits.  A full queue, or a receiver that
\* is gone, loses the message.
TrySend(c, m) ==
  queue' = IF Len(queue[c]) < Capacity /\ pc[c] # "ended"
           THEN [queue EXCEPT ![c] = Append(@, m)]
           ELSE queue

Goto(c, label) == pc' = [pc EXCEPT ![c] = label]

-----------------------------------------------------------------------------
(* register: the check, the count and the insertion under one write lock.  *)
Register(c) ==
  LET p == PresenceOf[c] IN
  /\ pc[c] = "upgraded"
  /\ HasRoom(p)
  /\ registry' = [registry EXCEPT ![p] = c]
  /\ previous' = [previous EXCEPT ![c] = registry[p]]
  /\ Goto(c, IF registry[p] = NoConn THEN "loop" ELSE "notify")
  /\ UNCHANGED <<queue, clone, taken>>

\* register's error: the socket is told CONNECTION_LIMIT and the task returns.
RegisterRefused(c) ==
  /\ pc[c] = "upgraded"
  /\ ~HasRoom(PresenceOf[c])
  /\ Goto(c, "ended")
  /\ UNCHANGED <<registry, queue, previous, clone, taken>>

\* The rest of register, after drop(connections): Close to the previous one.
NotifyPrevious(c) ==
  /\ pc[c] = "notify"
  /\ TrySend(previous[c], "close")
  /\ previous' = [previous EXCEPT ![c] = NoConn]
  /\ Goto(c, "loop")
  /\ UNCHANGED <<registry, clone, taken>>

\* close, called by the HTTP handler that closes a runtime instance.
Close(p) ==
  /\ registry[p] # NoConn
  /\ registry' = [registry EXCEPT ![p] = NoConn]
  /\ taken' = taken \cup {registry[p]}
  /\ UNCHANGED <<queue, pc, previous, clone>>

\* close_all, called by shutdown_signal: mem::take of the whole map.  (On an
\* empty map it does nothing.)
CloseAll ==
  LET present == {c \in Conn : registry[PresenceOf[c]] = c} IN
  /\ present # {}
  /\ taken' = taken \cup present
  /\ registry' = [p \in Presence |-> NoConn]
  /\ UNCHANGED <<queue, pc, previous, clone>>

\* The rest of close and close_all, once the lock is released.
NotifyTaken(c) ==
  /\ c \in taken
  /\ TrySend(c, "close")
  /\ taken' = taken \ {c}
  /\ UNCHANGED <<registry, pc, previous, clone>>
-----------------------------------------------------------------------------
(* The loop of serve_socket.                                               *)

\* handle_text decides to forward to q, and send looks q up.
SendLookup(c, q) ==
  /\ pc[c] = "loop"
  /\ registry[q] # NoConn
  /\ clone' = [clone EXCEPT ![c] = registry[q]]
  /\ Goto(c, "sending")
  /\ UNCHANGED <<registry, queue, previous, taken>>

\* Faulty variant: the task keeps the clone.
SendTryKeeping(c) ==
  /\ pc[c] = "sending"
  /\ TrySend(clone[c], "text")
  /\ Goto(c, "loop")
  /\ UNCHANGED <<registry, previous, taken, clone>>

\* The rest of send, after the read lock is released.
SendTry(c) ==
  /\ pc[c] = "sending"
  /\ TrySend(clone[c], "text")
  /\ clone' = [clone EXCEPT ![c] = NoConn]
  /\ Goto(c, "loop")
  /\ UNCHANGED <<registry, previous, taken>>

\* outgoing.recv(): the message goes to the socket; Close ends the loop.
Receive(c) ==
  /\ pc[c] = "loop"
  /\ queue[c] # <<>>
  /\ queue' = [queue EXCEPT ![c] = Tail(@)]
  /\ IF Head(queue[c]) = "close" THEN Goto(c, "leaving") ELSE UNCHANGED pc
  /\ UNCHANGED <<registry, previous, clone, taken>>

\* outgoing.recv() answers None: the queue is drained and nobody can refill it.
ReceiveNone(c) ==
  /\ pc[c] = "loop"
  /\ queue[c] = <<>>
  /\ ~HasSender(c)
  /\ Goto(c, "leaving")
  /\ UNCHANGED <<registry, queue, previous, clone, taken>>

\* Every other break: the peer closes, the socket fails, the connection idles
\* out, or its token is no longer current.
SocketEnds(c) ==
  /\ pc[c] = "loop"
  /\ Goto(c, "leaving")
  /\ UNCHANGED <<registry, queue, previous, clone, taken>>

\* unregister: the entry goes if it is still c's.
\* Faulty variant: it goes whosever it is.
ReleasedBlindly(c) == [registry EXCEPT ![PresenceOf[c]] = NoConn]

Released(c) == [registry EXCEPT ![PresenceOf[c]] = IF @ = c THEN NoConn ELSE @]

\* After the loop: unregister.
Unregister(c) ==
  /\ pc[c] = "leaving"
  /\ registry' = Released(c)
  /\ Goto(c, "ended")
  /\ UNCHANGED <<queue, previous, clone, taken>>

Task(c) ==
  \/ Register(c) \/ RegisterRefused(c) \/ NotifyPrevious(c)
  \/ \E q \in Presence : SendLookup(c, q)
  \/ SendTry(c) \/ Receive(c) \/ ReceiveNone(c) \/ SocketEnds(c) \/ Unregister(c)

Next ==
  \/ \E c \in Conn : Task(c) \/ NotifyTaken(c)
  \/ \E p \in Presence : Close(p)
  \/ CloseAll

(***************************************************************************)
(* Fairness is that of the tokio runtime: a task that can run is polled    *)
(* again.  SocketEnds, Close, CloseAll and new texts are not owed by       *)
(* anyone.  select! picks among its ready branches at random, so a recv    *)
(* branch that is ready again and again is taken: strong fairness.         *)
(***************************************************************************)
Fairness == \A c \in Conn :
  /\ WF_vars(NotifyPrevious(c))
  /\ WF_vars(NotifyTaken(c))
  /\ WF_vars(SendTry(c))
  /\ WF_vars(Unregister(c))
  /\ SF_vars(Receive(c))
  /\ SF_vars(ReceiveNone(c))

Spec == Init /\ [][Next]_vars
LiveSpec == Spec /\ Fairness
-----------------------------------------------------------------------------
(* Safety: the profile limit counts entries before it inserts, and a       *)
(* replacement is not counted.  Whatever the callers interleave, a profile *)
(* never has more than MAX_CONNECTIONS_PER_PROFILE registered connections. *)
ProfileLimit ==
  \A f \in Profile : Cardinality(Registered(f)) <= MaxPerProfile

(* A task serves from its registration until it has unregistered.          *)
StageOf(c) ==
  IF pc[c] = "upgraded" THEN "waiting"
  ELSE IF pc[c] = "ended" THEN "over" ELSE "serving"

Displaced(c) == StageOf(c) = "serving" /\ registry[PresenceOf[c]] # c

\* The sending ends of c outside the registry, by who holds them and for what.
Senders(c) ==
  {x \in Conn \X {"register", "send", "close"} :
     CASE x[2] = "register" -> previous[x[1]] = c
       [] x[2] = "send" -> clone[x[1]] = c
       [] OTHER -> x[1] = c /\ c \in taken}

(* Action property: why a Close that is lost to a full queue does no harm. *)
(* Once a connection is displaced, nobody comes by a new sending end of    *)
(* it, and whoever puts something into its queue gives up the one it used: *)
(* so it has only finitely many messages to receive before recv answers    *)
(* None, however many tasks are just forwarding to it.                     *)
DisplacedDrains ==
  [][\A c \in Conn : Displaced(c) =>
       /\ Senders(c)' \subseteq Senders(c)
       /\ Len(queue'[c]) > Len(queue[c]) => Senders(c)' # Senders(c)]_vars

Ownership == INSTANCE ConnectionOwnership WITH
  owner <- registry, stage <- [c \in Conn |-> StageOf(c)]

(* Refinement, safety: nobody but the owner's own task, close and          *)
(* close_all takes a Presence from its connection; the cleanup of a        *)
(* displaced task leaves the replacement registered.                       *)
OwnershipSteps == Ownership!Init /\ [][Ownership!Next]_(Ownership!vars)

(* Refinement with liveness: besides, a displaced connection is over       *)
(* sooner or later, even when its Close was lost to a full queue, and when *)
(* it is just forwarding to a task that is forwarding to it.               *)
OwnershipSpec == Ownership!Spec
=============================================================================
