------------------------- MODULE SignalingRelayProofs -------------------------
(***************************************************************************)
(* Proofs about SignalingRelay for every set of Presences, connections and *)
(* session ids, every time to live and every candidate limit, with crashes *)
(* and any interleaving of the handlers.                                   *)
(***************************************************************************)
EXTENDS SignalingRelay, FiniteSetTheorems, TLAPS

USE DEF At, Move, Idle, redis, Admits, Outlived

-----------------------------------------------------------------------------
(* The state machine of a session.                                         *)

\* Registering a message keeps the shape of a session and its binding.
LEMMA RegisterType ==
  ASSUME NEW r \in Record, NEW k, NEW p
  PROVE  /\ Register(r, k, p) \in Record
         /\ Register(r, k, p).initiator = r.initiator
         /\ Register(r, k, p).target = r.target
<1>1. CASE k = "JOIN_ACCEPTED"
  BY <1>1 DEF Register, Record
<1>2. CASE k = "OFFER"
  BY <1>2 DEF Register, Record
<1>3. CASE k = "ANSWER"
  BY <1>3 DEF Register, Record
<1>4. CASE k \notin {"JOIN_ACCEPTED", "OFFER", "ANSWER"} /\ p = r.initiator
  <2>1. Register(r, k, p) = [r EXCEPT !.initiatorIce = @ + 1]
    BY <1>4 DEF Register
  <2>2. r.initiatorIce + 1 \in Nat
    BY DEF Record
  <2> QED BY <2>1, <2>2 DEF Record
<1>5. CASE k \notin {"JOIN_ACCEPTED", "OFFER", "ANSWER"} /\ p # r.initiator
  <2>1. Register(r, k, p) = [r EXCEPT !.targetIce = @ + 1]
    BY <1>5 DEF Register
  <2>2. r.targetIce + 1 \in Nat
    BY DEF Record
  <2> QED BY <2>1, <2>2 DEF Record
<1> QED BY <1>1, <1>2, <1>3, <1>4, <1>5

\* A legal message takes a well-formed session to a well-formed session.
LEMMA RegisterWellFormed ==
  ASSUME NEW r \in Record, NEW k, NEW p,
         WellFormed(r), PhaseAllows(r, k, p), k \notin Closing
  PROVE  WellFormed(Register(r, k, p))
<1>1. CASE k = "JOIN_ACCEPTED"
  BY <1>1 DEF Register, WellFormed, Record
<1>2. CASE k = "OFFER"
  <2>1. r.joinAccepted /\ Register(r, k, p) = [r EXCEPT !.offerSent = TRUE]
    BY <1>2 DEF PhaseAllows, Phase, Register
  <2> QED BY <2>1 DEF WellFormed, Record
<1>3. CASE k = "ANSWER"
  <2>1. r.offerSent /\ Register(r, k, p) = [r EXCEPT !.answerSent = TRUE]
    BY <1>3 DEF PhaseAllows, Phase, Register
  <2> QED BY <2>1 DEF WellFormed, Record
<1>4. CASE k = "ICE_CANDIDATE" /\ p = r.initiator
  <2>1. /\ r.offerSent /\ r.initiatorIce < MaxIce
        /\ Register(r, k, p) = [r EXCEPT !.initiatorIce = @ + 1]
    BY <1>4 DEF PhaseAllows, IceCount, Register
  <2> QED BY <2>1, SessionAssumption DEF WellFormed, Record
<1>5. CASE k = "ICE_CANDIDATE" /\ p # r.initiator
  <2>1. /\ r.offerSent /\ r.targetIce < MaxIce
        /\ Register(r, k, p) = [r EXCEPT !.targetIce = @ + 1]
    BY <1>5 DEF PhaseAllows, IceCount, Register
  <2> QED BY <2>1, SessionAssumption DEF WellFormed, Record
<1> QED BY <1>1, <1>2, <1>3, <1>4, <1>5 DEF PhaseAllows, Closing

LEMMA NewSessionOK ==
  ASSUME NEW i \in Presence, NEW t \in Presence, NEW e \in Nat
  PROVE  /\ NewSession(i, t, e) \in Record
         /\ WellFormed(NewSession(i, t, e))
         /\ ~NewSession(i, t, e).joinAccepted
BY SessionAssumption DEF NewSession, Record, WellFormed
-----------------------------------------------------------------------------
(* Type correctness.                                                       *)

LEMMA HandleCases ==
  ASSUME NEW c, Handle(c)
  PROVE  \/ \E j \in BOOLEAN : BeginCheck(c, j)
         \/ ContinueCheck(c)
         \/ \E j \in BOOLEAN : HostCheck(c, j)
         \/ Put(c) \/ Send(c) \/ DropRead(c) \/ DropCommit(c)
         \/ Unregister(c) \/ Sweep(c) \/ SweepNext(c) \/ SweepDone(c)
BY DEF Handle

LEMMA NextCases ==
  ASSUME Next
  PROVE  \/ \E c \in Conn : \/ Connect(c) \/ Break(c) \/ Put(c) \/ Send(c)
                            \/ DropRead(c) \/ DropCommit(c) \/ Unregister(c)
                            \/ Sweep(c) \/ SweepNext(c) \/ SweepDone(c)
         \/ \E c \in Conn : ContinueCheck(c)
         \/ \E c \in Conn, j \in BOOLEAN : BeginCheck(c, j) \/ HostCheck(c, j)
         \/ \E c \in Conn, m \in Message : Receive(c, m)
         \/ Tick
         \/ Crash
BY HandleCases DEF Next, Serve

\* What a task is before a step: the facts the cases below use.
LEMMA TaskType ==
  ASSUME TypeOK, NEW c \in Conn
  PROVE  /\ task[c] \in Task
         /\ task[c].msg \in Message \cup {NoMessage}
         /\ task[c].copy \in Record \cup {NoSession}
         /\ task[c].sid \in Session \cup {NoSession}
         /\ task[c].ttl \in Nat /\ task[c].sent \in Nat
         /\ task[c].msg.sid \in Session \cup {NoSession}
         /\ PresenceOf[c] \in Presence
BY RelayAssumption DEF TypeOK, Task, Message, NoMessage

\* A task that moves to a typed place leaves all tasks typed.
TasksOK == task \in [Conn -> Task] /\ \A c \in Conn : InHand(task[c])

LEMMA MoveType ==
  ASSUME TypeOK, NEW c \in Conn, NEW t \in Task, InHand(t), Move(c, t)
  PROVE  TasksOK'
BY DEF TasksOK, TypeOK

LEMMA IdleType ==
  ASSUME NEW label \in Label, label \notin {"absent", "loaded", "host", "put", "send", "drop", "unlink"}
  PROVE  Idle(label) \in Task /\ InHand(Idle(label))
BY DEF Task, InHand, NoMessage

LEMMA DoneType ==
  ASSUME TypeOK, NEW c \in Conn, Done(c)
  PROVE  TasksOK'
BY MoveType, IdleType DEF Done, Label

LEMMA DropType ==
  ASSUME TypeOK, NEW c \in Conn, NEW label \in {"loop", "send"}, Drop(c, label),
         task[c].msg \in Message
  PROVE  TasksOK'
<1> DEFINE t == [task[c] EXCEPT !.at = "drop", !.copy = NoSession,
                                !.sid = task[c].msg.sid, !.then = label]
<1>1. t \in Task
  BY TaskType DEF Task, Label
<1>2. InHand(t)
  BY TaskType DEF Task, InHand, Message
<1> QED BY <1>1, <1>2, MoveType DEF Drop

LEMMA RecordedType ==
  ASSUME clock \in Nat, NEW h \in History, NEW kind
  PROVE  /\ Recorded(h, kind) \in History
         /\ Recorded(h, kind).consent = h.consent
<1>1. CASE kind = "JOIN_REQUEST"
  <2>1. Recorded(h, kind) = [h EXCEPT !.begun = clock, !.offers = 0,
                                      !.answers = 0]
    BY <1>1 DEF Recorded
  <2>2. Recorded(h, kind) = [begun |-> clock, consent |-> h.consent, offers |-> 0,
                             answers |-> 0]
    BY <2>1 DEF History
  <2>3. h.consent \in BOOLEAN
    BY DEF History
  <2> QED BY <2>2, <2>3 DEF History
<1>2. CASE kind # "JOIN_REQUEST"
  <2> DEFINE offers == IF kind = "OFFER" /\ h.offers < 2 THEN h.offers + 1 ELSE h.offers
             answers == IF kind = "ANSWER" /\ h.answers < 2 THEN h.answers + 1 ELSE h.answers
  <2>1. offers \in 0..2 /\ answers \in 0..2
    BY DEF History
  <2>2. Recorded(h, kind) = [h EXCEPT !.offers = offers, !.answers = answers]
    BY <1>2 DEF Recorded
  <2> HIDE DEF offers, answers
  <2> QED BY <2>1, <2>2 DEF History
<1> QED BY <1>1, <1>2

\* The time Redis is given: the whole seconds of what is left.
LEMMA WholeSeconds ==
  ASSUME NEW n \in Nat
  PROVE  /\ Whole(n) \in Nat
         /\ Whole(n) <= n
         /\ n < Whole(n) + Second
<1> DEFINE m == n % Second
<1>1. m \in Nat /\ m < Second
  BY RelayAssumption
<1>2. m <= n
  BY RelayAssumption
<1>3. Whole(n) = n - m
  BY DEF Whole
<1> HIDE DEF m
<1> QED BY <1>1, <1>2, <1>3, RelayAssumption

\* The sender may register its message in the session as it has read it.
MaySpeak(c) ==
  /\ PresenceOf[c] \in Peers(task[c].copy)
  /\ task[c].msg.to = Recipient(task[c].copy, PresenceOf[c])
  /\ RoleAllows(task[c].copy, task[c].msg.kind, PresenceOf[c])
Legal(c) ==
  /\ PhaseAllows(task[c].copy, task[c].msg.kind, PresenceOf[c])
  /\ task[c].msg.kind \notin Closing
  /\ ~ Outlived(task[c].copy)

\* A task that is about to look at the host, and one with a copy to send out.
Looking(c) == [task[c] EXCEPT !.at = "host"]
Outgoing(c) ==
  [task[c] EXCEPT !.at = "put",
                  !.copy = Register(task[c].copy, task[c].msg.kind, PresenceOf[c]),
                  !.ttl = Remaining(task[c].copy), !.sent = clock]

LEMMA RegisterCases ==
  ASSUME NEW c, RegisterMessage(c)
  PROVE  \/ Done(c) \/ Drop(c, "send")
         \/ Legal(c) /\ Move(c, Outgoing(c))
BY Zenon DEF RegisterMessage, Legal, Outgoing

\* What continue_session comes to with a message.
LEMMA ContinueCases ==
  ASSUME NEW c, ContinueCheck(c)
  PROVE  /\ task[c].at = "loaded" /\ UNCHANGED <<clock, redis, owner, stage, hist>>
         /\ \/ Done(c) \/ Drop(c, "loop") \/ Drop(c, "send")
            \/ /\ MaySpeak(c) /\ task[c].msg.kind \in NeedsHost
               /\ Move(c, Looking(c))
            \/ /\ MaySpeak(c) /\ task[c].msg.kind \notin NeedsHost
               /\ Legal(c) /\ Move(c, Outgoing(c))
BY RegisterCases, Zenon DEF ContinueCheck, MaySpeak, Looking

\* What the look at the host comes to.
ConsentGiven(c) ==
  hist' = [hist EXCEPT ![BindingOf(task[c].msg.sid, task[c].copy)].consent = TRUE]

LEMMA HostCases ==
  ASSUME NEW c, NEW j \in BOOLEAN, HostCheck(c, j)
  PROVE  /\ task[c].at = "host" /\ UNCHANGED <<clock, redis, owner, stage>>
         /\ hist' = hist \/ ConsentGiven(c)
         /\ \/ Done(c) \/ Drop(c, "loop") \/ Drop(c, "send")
            \/ /\ Legal(c) /\ Move(c, Outgoing(c))
               /\ \/ ConsentGiven(c)
                  \/ task[c].msg.kind # "JOIN_ACCEPTED"
                  \/ PresenceOf[c] # task[c].copy.target
<1>1. /\ task[c].at = "host" /\ UNCHANGED <<clock, redis, owner, stage>>
      /\ hist' = hist \/ ConsentGiven(c)
  BY DEF HostCheck, ConsentGiven
<1>2. CASE ~ j
  BY <1>1, <1>2 DEF HostCheck
<1>3. CASE j
  <2>1. Done(c) \/ Drop(c, "send") \/ (Legal(c) /\ Move(c, Outgoing(c)))
    BY <1>3, RegisterCases DEF HostCheck
  <2>2. /\ Legal(c) /\ task[c].msg.kind = "JOIN_ACCEPTED"
        /\ PresenceOf[c] = task[c].copy.target
        => ConsentGiven(c)
    BY <1>3 DEF HostCheck, Legal, ConsentGiven
  <2> QED BY <1>1, <2>1, <2>2, Zenon
<1> QED BY <1>2, <1>3

\* Where a message is registered the task stays typed.
LEMMA OutgoingType ==
  ASSUME TypeOK, NEW c \in Conn, task[c].at \in {"loaded", "host"}
  PROVE  /\ task[c].msg \in Message /\ task[c].copy \in Record
         /\ Looking(c) \in Task
         /\ task[c].msg.kind \in NeedsHost => InHand(Looking(c))
         /\ ~ Outlived(task[c].copy) => Outgoing(c) \in Task /\ InHand(Outgoing(c))
<1> DEFINE u == Register(task[c].copy, task[c].msg.kind, PresenceOf[c])
<1>1. task[c].msg \in Message /\ task[c].copy \in Record
  BY DEF TypeOK, InHand
<1>2. u \in Record
  BY <1>1, RegisterType
<1>3. Looking(c) \in Task
  BY <1>1, TaskType DEF Looking, Task, Label
<1>4. task[c].msg.kind \in NeedsHost => InHand(Looking(c))
  BY <1>1, TaskType DEF Looking, Task, InHand
<1>5. ASSUME ~ Outlived(task[c].copy) PROVE Outgoing(c) \in Task /\ InHand(Outgoing(c))
  <2>1. Remaining(task[c].copy) \in Nat /\ clock \in Nat
    BY <1>1, <1>5 DEF Remaining, TypeOK, Record
  <2>2. Outgoing(c) = [task[c] EXCEPT !.at = "put", !.copy = u,
                                      !.ttl = Remaining(task[c].copy), !.sent = clock]
    BY DEF Outgoing
  <2> HIDE DEF u
  <2>3. Outgoing(c) \in Task
    BY <1>2, <2>1, <2>2, TaskType DEF Task, Label
  <2>4. InHand(Outgoing(c))
    BY <1>1, <1>2, <2>2, TaskType DEF Task, InHand
  <2> QED BY <2>3, <2>4
<1> QED BY <1>1, <1>3, <1>4, <1>5

(* TypeOK holds in every reachable state; among other things every handler *)
(* still holds the text and the session copy its next step works on.       *)
THEOREM TypeCorrect == Spec => []TypeOK
<1>1. Init => TypeOK
  BY DEF Init, TypeOK, Task, Label, History, InHand
<1>2. TypeOK /\ [Next]_vars => TypeOK'
  <2> SUFFICES ASSUME TypeOK, [Next]_vars PROVE TypeOK'
    OBVIOUS
  <2>1. ASSUME NEW c \in Conn, Connect(c) PROVE TypeOK'
    BY <2>1, TaskType DEF Connect, TypeOK
  <2>2. ASSUME NEW c \in Conn, Break(c) PROVE TypeOK'
    <3>1. TasksOK'
      BY <2>2, MoveType, IdleType DEF Break, Label
    <3> QED BY <2>2, <3>1 DEF Break, TypeOK, TasksOK
  <2>3. ASSUME NEW c \in Conn, Unregister(c) PROVE TypeOK'
    <3>1. TasksOK'
      BY <2>3, MoveType, IdleType DEF Unregister, Label
    <3> QED BY <2>3, <3>1 DEF Unregister, TypeOK, TasksOK
  <2>4. ASSUME NEW c \in Conn, Sweep(c) PROVE TypeOK'
    <3> DEFINE t == [task[c] EXCEPT !.at = "sweeping", !.todo = index[PresenceOf[c]]]
    <3>1. index[PresenceOf[c]] \in SUBSET Session
      BY TaskType DEF TypeOK
    <3>2. t \in Task /\ InHand(t)
      BY <3>1, TaskType DEF Task, Label, InHand
    <3>3. TasksOK'
      BY <2>4, <3>2, MoveType DEF Sweep
    <3> QED BY <2>4, <3>3 DEF Sweep, TypeOK, TasksOK
  <2>5. ASSUME NEW c \in Conn, SweepNext(c) PROVE TypeOK'
    <3>1. PICK s \in task[c].todo :
            Move(c, [task[c] EXCEPT !.at = "drop", !.sid = s, !.then = "sweeping",
                                    !.todo = @ \ {s}])
      BY <2>5, Zenon DEF SweepNext
    <3> DEFINE t == [task[c] EXCEPT !.at = "drop", !.sid = s, !.then = "sweeping",
                                    !.todo = @ \ {s}]
    <3>2. task[c].todo \in SUBSET Session
      BY TaskType DEF Task
    <3>3. t \in Task /\ InHand(t)
      BY <3>2, TaskType DEF Task, Label, InHand
    <3>4. TasksOK'
      BY <3>1, <3>3, MoveType
    <3> QED BY <2>5, <3>4 DEF SweepNext, TypeOK, TasksOK
  <2>6. ASSUME NEW c \in Conn, SweepDone(c) PROVE TypeOK'
    <3>1. TasksOK'
      BY <2>6, MoveType, IdleType DEF SweepDone, Label
    <3> QED BY <2>6, <3>1 DEF SweepDone, TypeOK, TasksOK
  <2>7. ASSUME NEW c \in Conn, NEW m \in Message, Receive(c, m) PROVE TypeOK'
    <3> DEFINE t == [task[c] EXCEPT !.at = IF m.kind = "JOIN_REQUEST"
                                           THEN "absent" ELSE "loaded",
                                    !.msg = m, !.copy = store[m.sid]]
    <3>1. store[m.sid] \in Record \cup {NoSession}
      BY DEF TypeOK, Message
    <3>2. t \in Task
      BY <3>1, TaskType DEF Task, Label
    <3>3. m.kind # "JOIN_REQUEST" => store[m.sid] \in Record
      BY <2>7, <3>1 DEF Receive
    <3>4. InHand(t)
      BY <3>3, TaskType DEF Task, InHand
    <3>5. TasksOK'
      BY <2>7, <3>2, <3>4, MoveType DEF Receive
    <3> QED BY <2>7, <3>5 DEF Receive, TypeOK, TasksOK
  <2>8. ASSUME NEW c \in Conn, NEW j \in BOOLEAN, BeginCheck(c, j) PROVE TypeOK'
    <3> DEFINE r == NewSession(PresenceOf[c], task[c].msg.to, clock + SessionTtl)
               t == [task[c] EXCEPT !.at = "put", !.ttl = SessionTtl, !.sent = clock,
                                    !.copy = r]
    <3>1. task[c].msg \in Message /\ clock \in Nat
      BY <2>8 DEF BeginCheck, TypeOK, InHand
    <3>2. r \in Record
      BY <3>1, TaskType, NewSessionOK, RelayAssumption DEF TypeOK, Message
    <3>3. t \in Task /\ InHand(t)
      BY <3>1, <3>2, TaskType, RelayAssumption DEF Task, Label, InHand
    <3>4. CASE Move(c, t)
      BY <2>8, <3>3, <3>4, MoveType DEF BeginCheck, TypeOK, TasksOK
    <3>5. CASE Done(c)
      BY <2>8, <3>5, DoneType DEF BeginCheck, TypeOK, TasksOK
    <3> QED BY <2>8, <3>4, <3>5 DEF BeginCheck
  <2>9. ASSUME NEW c \in Conn, NEW j \in BOOLEAN, ContinueCheck(c) \/ HostCheck(c, j)
        PROVE  TypeOK'
    <3>1. /\ task[c].at \in {"loaded", "host"} /\ UNCHANGED <<clock, redis, owner, stage>>
          /\ hist' = hist \/ ConsentGiven(c)
          /\ \/ Done(c) \/ Drop(c, "loop") \/ Drop(c, "send")
             \/ task[c].msg.kind \in NeedsHost /\ Move(c, Looking(c))
             \/ Legal(c) /\ Move(c, Outgoing(c))
      BY <2>9, ContinueCases, HostCases
    <3>2. TasksOK'
      BY <3>1, OutgoingType, DoneType, DropType, MoveType DEF Legal
    <3>3. hist' \in [Binding -> History]
      <4>1. ASSUME NEW b PROVE [hist EXCEPT ![b].consent = TRUE] \in [Binding -> History]
        BY DEF TypeOK, History
      <4> QED BY <3>1, <4>1 DEF ConsentGiven, TypeOK
    <3> QED BY <3>1, <3>2, <3>3 DEF TypeOK, TasksOK
  <2>10. ASSUME NEW c \in Conn, Put(c) PROVE TypeOK'
    <3> DEFINE r == task[c].copy
               s == task[c].msg.sid
               lasts == Whole(task[c].ttl)
               t == [task[c] EXCEPT !.at = "send", !.copy = NoSession,
                                    !.ttl = 0, !.sent = 0]
    <3>1. task[c].msg \in Message /\ r \in Record /\ s \in Session /\ lasts \in Nat
      BY <2>10, TaskType, WholeSeconds DEF Put, TypeOK, InHand, Message
    <3>2. t \in Task /\ InHand(t)
      BY <3>1, TaskType DEF Task, Label, InHand
    <3>3. Link(s, r, lasts) /\ UNCHANGED <<clock, owner, stage>>
      BY <2>10 DEF Put
    <3>4. clock + lasts \in Nat /\ clock + lasts + IndexSlack \in Nat
      BY <3>1, RelayAssumption DEF TypeOK
    <3>5. index' \in [Presence -> SUBSET Session] /\ indexUntil' \in [Presence -> Nat]
      <4> HIDE DEF lasts
      <4> QED BY <3>1, <3>3, <3>4 DEF Link, TypeOK
    <3>6. CASE Done(c) /\ UNCHANGED <<store, until, unlisted, hist>>
      BY <3>3, <3>5, <3>6, DoneType DEF TypeOK, TasksOK
    <3>7. CASE /\ store' = [store EXCEPT ![s] = r]
               /\ until' = [until EXCEPT ![s] = clock + lasts]
               /\ unlisted' = unlisted \ (Peers(r) \X {s})
               /\ hist' = [hist EXCEPT ![BindingOf(s, r)] = Recorded(@, task[c].msg.kind)]
               /\ Move(c, t)
      <4>1. TasksOK'
        BY <3>2, <3>7, MoveType
      <4>2. store' \in [Session -> Record \cup {NoSession}]
        BY <3>1, <3>7 DEF TypeOK
      <4>3. until' \in [Session -> Nat]
        BY <3>1, <3>4, <3>7 DEF TypeOK
      <4>4. unlisted' \in SUBSET (Presence \X Session)
        BY <3>7 DEF TypeOK
      <4>5. \A h \in History : Recorded(h, task[c].msg.kind) \in History
        BY RecordedType DEF TypeOK
      <4>6. hist' \in [Binding -> History]
        BY <3>7, <4>5 DEF TypeOK
      <4> QED BY <3>3, <3>5, <4>1, <4>2, <4>3, <4>4, <4>6 DEF TypeOK, TasksOK
    <3> QED BY <2>10, <3>6, <3>7, Zenon DEF Put
  <2>11. ASSUME NEW c \in Conn, Send(c) PROVE TypeOK'
    <3>1. task[c].msg \in Message
      BY <2>11 DEF Send, TypeOK, InHand
    <3>2. TasksOK'
      BY <2>11, <3>1, DoneType, DropType DEF Send
    <3> QED BY <2>11, <3>2 DEF Send, TypeOK, TasksOK
  <2>12. ASSUME NEW c \in Conn, DropRead(c) PROVE TypeOK'
    <3> DEFINE t == [task[c] EXCEPT !.at = "unlink", !.copy = store[task[c].sid]]
    <3>1. InHand(task[c]) /\ task[c].at = "drop"
      BY <2>12 DEF DropRead, TypeOK
    <3>2. task[c].sid \in Session
      BY <3>1 DEF InHand
    <3>3. store[task[c].sid] \in Record \cup {NoSession}
      BY <3>2 DEF TypeOK
    <3>4. t \in Task
      BY <3>3, TaskType DEF Task, Label
    <3>5. InHand(t)
      BY <3>1, TaskType DEF Task, InHand
    <3>6. TasksOK'
      BY <2>12, <3>4, <3>5, MoveType DEF DropRead
    <3> QED BY <2>12, <3>6 DEF DropRead, TypeOK, TasksOK
  <2>13. ASSUME NEW c \in Conn, DropCommit(c) PROVE TypeOK'
    <3> DEFINE t == [task[c] EXCEPT !.at = task[c].then, !.copy = NoSession,
                                    !.sid = NoSession]
    <3>1. InHand(task[c]) /\ task[c].at = "unlink"
      BY <2>13 DEF DropCommit, TypeOK
    <3>2. ASSUME task[c].then = "loop" PROVE TasksOK'
      <4>1. Done(c)
        BY <2>13, <3>2 DEF DropCommit
      <4> QED BY <4>1, DoneType
    <3>3. ASSUME task[c].then # "loop" PROVE TasksOK'
      <4>1. Move(c, t)
        BY <2>13, <3>3 DEF DropCommit
      <4>2. task[c].then \in {"send", "sweeping"}
        BY <3>3, TaskType DEF Task
      <4>3. t \in Task
        BY <4>2, TaskType DEF Task, Label
      <4>4. InHand(t)
        BY <3>1, <4>2, TaskType DEF Task, InHand
      <4> QED BY <4>1, <4>3, <4>4, MoveType
    <3>4. TasksOK'
      BY <3>2, <3>3
    <3>5. store' \in [Session -> Record \cup {NoSession}]
      BY <2>13 DEF DropCommit, TypeOK
    <3>6. index' \in [Presence -> SUBSET Session]
      BY <2>13 DEF DropCommit, TypeOK
    <3>7. hist' \in [Binding -> History]
      BY <2>13 DEF DropCommit, TypeOK
    <3> QED BY <2>13, <3>4, <3>5, <3>6, <3>7 DEF DropCommit, TypeOK, TasksOK
  <2>14. CASE Tick
    BY <2>14, TaskType DEF Tick, TypeOK
  <2>15. CASE Crash
    <3>1. Idle("gone") \in Task /\ InHand(Idle("gone"))
      BY IdleType DEF Label
    <3> QED BY <2>15, <3>1 DEF Crash, TypeOK
  <2>16. CASE UNCHANGED vars
    BY <2>16 DEF vars, TypeOK
  <2> QED
    BY <2>1, <2>2, <2>3, <2>4, <2>5, <2>6, <2>7, <2>8, <2>9, <2>10, <2>11, <2>12, <2>13,
       <2>14, <2>15, <2>16, NextCases
<1> QED BY <1>1, <1>2, PTL DEF Spec
-----------------------------------------------------------------------------
(* What is stored, and what a handler is about to store.                   *)

\* A session that registered messages brought about, whose target consented.
Sound(h, s, r) ==
  /\ WellFormed(r)
  /\ r.joinAccepted => h[BindingOf(s, r)].consent

\* The steps at which a handler holds the copy it has read or is to write.
Holding == {"loaded", "host", "put"}

\* The copies count as much as the store: put writes them back unseen.  The host
\* is only looked at for who may speak.
AllSound ==
  /\ \A s \in Session : store[s] # NoSession => Sound(hist, s, store[s])
  /\ \A c \in Conn :
       /\ task[c].at \in Holding => Sound(hist, task[c].msg.sid, task[c].copy)
       /\ task[c].at = "host" => MaySpeak(c)

ConsentKept == \A b \in Binding : hist[b].consent => hist'[b].consent

LEMMA BindingType ==
  ASSUME NEW s \in Session, NEW r \in Record
  PROVE  BindingOf(s, r) \in Binding
BY DEF BindingOf, Binding, Record

\* A consent, once given, is not taken back.
LEMMA StepKeepsConsent ==
  ASSUME TypeOK, [Next]_vars
  PROVE  ConsentKept
<1>1. ASSUME NEW c \in Conn, NEW j \in BOOLEAN, HostCheck(c, j)
      PROVE  ConsentKept
  <2> DEFINE b == BindingOf(task[c].msg.sid, task[c].copy)
  <2>1. hist' = hist \/ hist' = [hist EXCEPT ![b].consent = TRUE]
    BY <1>1, HostCases DEF ConsentGiven
  <2> HIDE DEF b
  <2> QED BY <2>1 DEF TypeOK, History, ConsentKept
<1>2. ASSUME NEW c \in Conn, Put(c) PROVE ConsentKept
  <2> DEFINE b == BindingOf(task[c].msg.sid, task[c].copy)
             k == task[c].msg.kind
  <2>1. hist' = hist \/ hist' = [hist EXCEPT ![b] = Recorded(@, k)]
    BY <1>2 DEF Put
  <2>2. \A h \in History : Recorded(h, k).consent = h.consent
    BY RecordedType DEF TypeOK
  <2>3. hist \in [Binding -> History]
    BY DEF TypeOK
  <2> HIDE DEF b, k
  <2> QED BY <2>1, <2>2, <2>3 DEF ConsentKept
<1>3. ASSUME NEW c \in Conn, DropCommit(c) PROVE ConsentKept
  BY <1>3 DEF DropCommit, TypeOK, History, ConsentKept
<1>4. ASSUME hist' = hist PROVE ConsentKept
  BY <1>4 DEF ConsentKept
<1> QED
  BY <1>1, <1>2, <1>3, <1>4, NextCases
     DEF Connect, Break, Send, DropRead, Unregister, Sweep, SweepNext, SweepDone,
         BeginCheck, ContinueCheck, Receive, Tick, Crash, vars

LEMMA SoundKept ==
  ASSUME ConsentKept, NEW s \in Session, NEW r \in Record, Sound(hist, s, r)
  PROVE  Sound(hist', s, r)
BY BindingType DEF ConsentKept, Sound

\* A step that stores nothing new and hands no task a session to work on.
LEMMA QuietStep ==
  ASSUME TypeOK, AllSound, ConsentKept,
         \A s \in Session : store'[s] \in {store[s], NoSession},
         \A c \in Conn : task'[c].at \in Holding => task'[c] = task[c]
  PROVE  AllSound'
<1>1. ASSUME NEW s \in Session, store'[s] # NoSession
      PROVE  Sound(hist', s, store'[s])
  <2>1. store'[s] = store[s] /\ store[s] \in Record /\ Sound(hist, s, store[s])
    BY <1>1 DEF TypeOK, AllSound
  <2> QED BY <2>1, SoundKept
<1>2. ASSUME NEW c \in Conn, task'[c].at \in Holding
      PROVE  Sound(hist', task'[c].msg.sid, task'[c].copy)
  <2>1. task'[c] = task[c] /\ InHand(task[c])
        /\ Sound(hist, task[c].msg.sid, task[c].copy)
    BY <1>2 DEF TypeOK, AllSound
  <2>2. task[c].msg.sid \in Session /\ task[c].copy \in Record
    BY <1>2, <2>1 DEF InHand, Message, Holding
  <2> QED BY <2>1, <2>2, SoundKept
<1>3. ASSUME NEW c \in Conn, task'[c].at = "host" PROVE MaySpeak(c)'
  <2>1. task'[c] = task[c] /\ MaySpeak(c)
    BY <1>3 DEF AllSound, Holding
  <2> QED BY <2>1 DEF MaySpeak
<1> QED BY <1>1, <1>2, <1>3 DEF AllSound

\* A step that stores nothing new and gives one task a sound session.
LEMMA LoadStep ==
  ASSUME TypeOK, AllSound, ConsentKept, NEW c \in Conn, NEW t, Move(c, t),
         UNCHANGED store,
         t.at \in Holding => Sound(hist', t.msg.sid, t.copy),
         t.at = "host" => MaySpeak(c) /\ t.msg = task[c].msg /\ t.copy = task[c].copy
  PROVE  AllSound'
<1>1. \A s \in Session : store[s] # NoSession => Sound(hist', s, store[s])
  BY SoundKept DEF TypeOK, AllSound
<1>2. ASSUME NEW d \in Conn, task'[d].at \in Holding
      PROVE  Sound(hist', task'[d].msg.sid, task'[d].copy)
  <2>1. CASE d = c
    BY <1>2, <2>1 DEF TypeOK
  <2>2. CASE d # c
    <3>1. task'[d] = task[d] /\ InHand(task[d])
          /\ Sound(hist, task[d].msg.sid, task[d].copy)
      BY <1>2, <2>2 DEF TypeOK, AllSound
    <3>2. task[d].msg.sid \in Session /\ task[d].copy \in Record
      BY <1>2, <3>1 DEF InHand, Message, Holding
    <3> QED BY <3>1, <3>2, SoundKept
  <2> QED BY <2>1, <2>2
<1>3. ASSUME NEW d \in Conn, task'[d].at = "host" PROVE MaySpeak(d)'
  <2>1. MaySpeak(d) /\ task'[d].msg = task[d].msg /\ task'[d].copy = task[d].copy
    BY <1>3 DEF AllSound, TypeOK
  <2> QED BY <2>1 DEF MaySpeak
<1> QED BY <1>1, <1>2, <1>3 DEF AllSound

\* Registering a message other than JOIN_ACCEPTED does not accept the join.
LEMMA RegisterKeepsAccepted ==
  ASSUME NEW r \in Record, NEW k, NEW p, k # "JOIN_ACCEPTED"
  PROVE  Register(r, k, p).joinAccepted = r.joinAccepted
<1>1. CASE k = "OFFER"
  BY <1>1 DEF Register, Record
<1>2. CASE k = "ANSWER"
  BY <1>2 DEF Register, Record
<1>3. CASE k \notin {"OFFER", "ANSWER"}
  BY <1>3 DEF Register, Record
<1> QED BY <1>1, <1>2, <1>3

\* What a handler is about to write back is sound again.
LEMMA ContinueSound ==
  ASSUME TypeOK, AllSound, ConsentKept,
         NEW c \in Conn, NEW j \in BOOLEAN, ContinueCheck(c) \/ HostCheck(c, j)
  PROVE  AllSound'
<1> DEFINE r == task[c].copy
           k == task[c].msg.kind
           p == PresenceOf[c]
           s == task[c].msg.sid
           u == Register(r, k, p)
<1>1. /\ task[c].at \in {"loaded", "host"} /\ task[c] \in Task /\ UNCHANGED store
      /\ r \in Record /\ s \in Session /\ Sound(hist, s, r)
  BY ContinueCases, HostCases, TaskType DEF TypeOK, InHand, Message, AllSound, Holding
<1>2. ASSUME NEW v, Move(c, v), v.at \notin Holding PROVE AllSound'
  BY <1>1, <1>2, LoadStep DEF Holding
<1>3. CASE Done(c)
  BY <1>2, <1>3 DEF Done, Holding
<1>4. ASSUME NEW label, Drop(c, label) PROVE AllSound'
  <2> DEFINE v == [task[c] EXCEPT !.at = "drop", !.copy = NoSession,
                                  !.sid = task[c].msg.sid, !.then = label]
  <2>1. v.at = "drop"
    BY <1>1 DEF Task
  <2> QED BY <1>2, <1>4, <2>1 DEF Drop, Holding
<1>5. CASE MaySpeak(c) /\ Move(c, Looking(c))
  <2>1. Looking(c).msg = task[c].msg /\ Looking(c).copy = r
    BY <1>1 DEF Looking, Task
  <2>2. Sound(hist', s, r)
    BY <1>1, SoundKept
  <2> QED BY <1>1, <1>5, <2>1, <2>2, LoadStep
<1>6. CASE /\ Legal(c) /\ Move(c, Outgoing(c))
           /\ ConsentGiven(c) \/ k # "JOIN_ACCEPTED"
  <2>1. WellFormed(u)
    BY <1>1, <1>6, RegisterWellFormed DEF Sound, Legal
  <2>2. BindingOf(s, u) = BindingOf(s, r)
    BY <1>1, RegisterType DEF BindingOf
  <2>3. u.joinAccepted => hist'[BindingOf(s, r)].consent
    <3>1. CASE ConsentGiven(c)
      BY <1>1, <3>1, BindingType DEF ConsentGiven, TypeOK, History
    <3>2. CASE k # "JOIN_ACCEPTED"
      BY <1>1, <3>2, RegisterKeepsAccepted, SoundKept DEF Sound
    <3> QED BY <1>6, <3>1, <3>2
  <2>4. Outgoing(c).at = "put" /\ Outgoing(c).msg.sid = s /\ Outgoing(c).copy = u
    BY <1>1 DEF Outgoing, Task
  <2>5. Sound(hist', s, u)
    BY <2>1, <2>2, <2>3 DEF Sound
  <2> HIDE DEF u
  <2> QED BY <1>1, <1>6, <2>4, <2>5, LoadStep
<1>7. CASE ContinueCheck(c)
  BY <1>3, <1>4, <1>5, <1>6, <1>7, ContinueCases DEF NeedsHost
<1>8. CASE HostCheck(c, j)
  <2>1. MaySpeak(c)
    BY <1>8, HostCases DEF AllSound
  <2>2. k = "JOIN_ACCEPTED" => p = r.target
    BY <2>1 DEF MaySpeak, RoleAllows
  <2> QED BY <1>3, <1>4, <1>6, <1>8, <2>2, HostCases
<1> QED BY <1>7, <1>8

\* The one step that stores a session stores the copy, and keeps the rest.
LEMMA PutSound ==
  ASSUME TypeOK, AllSound, ConsentKept, NEW c \in Conn, Put(c)
  PROVE  AllSound'
<1> DEFINE r == task[c].copy
           s == task[c].msg.sid
           t == [task[c] EXCEPT !.at = "send", !.copy = NoSession,
                                !.ttl = 0, !.sent = 0]
<1>1. /\ task[c] \in Task /\ r \in Record /\ s \in Session /\ Sound(hist, s, r)
  BY TaskType DEF Put, TypeOK, InHand, Message, AllSound, Holding
<1>2. CASE Done(c) /\ UNCHANGED store
  BY <1>2, LoadStep DEF Done, Holding
<1>3. CASE Move(c, t) /\ store' = [store EXCEPT ![s] = r]
  <2>1. Move(c, t) /\ store' = [store EXCEPT ![s] = r]
    BY <1>3
  <2>2. t.at = "send"
    BY <1>1 DEF Task
  <2>3. ASSUME NEW z \in Session, store'[z] # NoSession
        PROVE  Sound(hist', z, store'[z])
    <3>1. CASE z = s
      BY <1>1, <2>1, <3>1, SoundKept DEF TypeOK
    <3>2. CASE z # s
      BY <2>1, <2>3, <3>2, SoundKept DEF TypeOK, AllSound
    <3> QED BY <3>1, <3>2
  <2>4. ASSUME NEW d \in Conn, task'[d].at \in Holding
        PROVE  Sound(hist', task'[d].msg.sid, task'[d].copy)
    <3>1. task'[d] = task[d] /\ InHand(task[d])
          /\ Sound(hist, task[d].msg.sid, task[d].copy)
      BY <2>1, <2>2, <2>4 DEF TypeOK, AllSound, Holding
    <3>2. task[d].msg.sid \in Session /\ task[d].copy \in Record
      BY <2>4, <3>1 DEF InHand, Message, Holding
    <3> QED BY <3>1, <3>2, SoundKept
  <2>5. ASSUME NEW d \in Conn, task'[d].at = "host" PROVE MaySpeak(d)'
    <3>1. task'[d] = task[d] /\ MaySpeak(d)
      BY <2>1, <2>2, <2>5 DEF TypeOK, AllSound
    <3> QED BY <3>1 DEF MaySpeak
  <2> QED BY <2>3, <2>4, <2>5 DEF AllSound
<1> QED BY <1>2, <1>3, Zenon DEF Put

LEMMA AllSoundInvariant == Spec => []AllSound
<1>1. Init => AllSound
  BY DEF Init, AllSound, Holding
<1>2. TypeOK /\ AllSound /\ [Next]_vars => AllSound'
  <2> SUFFICES ASSUME TypeOK, AllSound, [Next]_vars PROVE AllSound'
    OBVIOUS
  <2>0. ConsentKept
    BY StepKeepsConsent
  <2>1. ASSUME NEW c \in Conn, NEW t, Move(c, t), UNCHANGED store,
               t.at \notin Holding
        PROVE  AllSound'
    BY <2>0, <2>1, LoadStep DEF Holding
  <2>2. ASSUME UNCHANGED <<store, task>> PROVE AllSound'
    BY <2>0, <2>2, QuietStep
  <2>3. ASSUME NEW c \in Conn,
               Break(c) \/ Unregister(c) \/ Sweep(c) \/ SweepDone(c) \/ DropRead(c)
        PROVE  AllSound'
    <3>1. task[c] \in Task
      BY TaskType
    <3> DEFINE sweep == [task[c] EXCEPT !.at = "sweeping", !.todo = index[PresenceOf[c]]]
               unlink == [task[c] EXCEPT !.at = "unlink", !.copy = store[task[c].sid]]
    <3>2. sweep.at = "sweeping" /\ unlink.at = "unlink"
      BY <3>1 DEF Task
    <3>3. /\ UNCHANGED store
          /\ \/ \E label \in {"leaving", "sweep", "gone"} : Move(c, Idle(label))
             \/ Move(c, sweep) \/ Move(c, unlink)
      BY <2>3 DEF Break, Unregister, Sweep, SweepDone, DropRead
    <3> HIDE DEF sweep, unlink
    <3> QED BY <2>1, <3>2, <3>3 DEF Holding
  <2>4. ASSUME NEW c \in Conn, SweepNext(c) PROVE AllSound'
    <3>1. PICK s \in task[c].todo :
            Move(c, [task[c] EXCEPT !.at = "drop", !.sid = s, !.then = "sweeping",
                                    !.todo = @ \ {s}])
      BY <2>4, Zenon DEF SweepNext
    <3> DEFINE t == [task[c] EXCEPT !.at = "drop", !.sid = s, !.then = "sweeping",
                                    !.todo = @ \ {s}]
    <3>2. t.at = "drop" /\ UNCHANGED store
      BY <2>4, TaskType DEF SweepNext, Task
    <3> QED BY <2>1, <3>1, <3>2 DEF Holding
  <2>5. ASSUME NEW c \in Conn, NEW m \in Message, Receive(c, m) PROVE AllSound'
    <3> DEFINE t == [task[c] EXCEPT !.at = IF m.kind = "JOIN_REQUEST"
                                           THEN "absent" ELSE "loaded",
                                    !.msg = m, !.copy = store[m.sid]]
    <3>1. Move(c, t) /\ UNCHANGED <<store, hist>>
      BY <2>5 DEF Receive
    <3>2. t.at = "loaded" => store[m.sid] # NoSession
      BY <2>5, TaskType DEF Receive, Task
    <3>3. /\ t.at \in {"absent", "loaded"} /\ t.msg.sid = m.sid
          /\ t.copy = store[m.sid] /\ m.sid \in Session
      BY TaskType DEF Task, Message
    <3>4. t.at \in Holding => Sound(hist', t.msg.sid, t.copy)
      BY <3>1, <3>2, <3>3 DEF AllSound, Holding
    <3>5. t.at # "host"
      BY <3>3
    <3> HIDE DEF t
    <3> QED BY <2>0, <3>1, <3>4, <3>5, LoadStep
  <2>6. ASSUME NEW c \in Conn, NEW j \in BOOLEAN, BeginCheck(c, j) PROVE AllSound'
    <3> DEFINE r == NewSession(PresenceOf[c], task[c].msg.to, clock + SessionTtl)
               t == [task[c] EXCEPT !.at = "put", !.ttl = SessionTtl, !.sent = clock,
                                    !.copy = r]
    <3>1. CASE Done(c)
      BY <2>1, <2>6, <3>1 DEF Done, BeginCheck, Holding
    <3>2. CASE Move(c, t)
      <4>1. task[c].msg \in Message
        BY <2>6 DEF BeginCheck, TypeOK, InHand
      <4>2. WellFormed(r) /\ ~r.joinAccepted
        BY <4>1, TaskType, NewSessionOK, RelayAssumption DEF TypeOK, Message
      <4>3. t.at = "put" /\ t.copy = r
        BY TaskType DEF Task
      <4>4. Sound(hist', t.msg.sid, t.copy)
        BY <4>2, <4>3 DEF Sound
      <4>5. UNCHANGED store
        BY <2>6 DEF BeginCheck
      <4> HIDE DEF t
      <4> QED BY <2>0, <3>2, <4>3, <4>4, <4>5, LoadStep
    <3> QED BY <2>6, <3>1, <3>2 DEF BeginCheck
  <2>7. ASSUME NEW c \in Conn, Send(c) PROVE AllSound'
    <3> DEFINE t == [task[c] EXCEPT !.at = "drop", !.copy = NoSession,
                                    !.sid = task[c].msg.sid, !.then = "loop"]
    <3>1. t.at = "drop"
      BY TaskType DEF Task
    <3>2. UNCHANGED store /\ (Move(c, Idle("loop")) \/ Move(c, t))
      BY <2>7 DEF Send, Done, Drop
    <3> HIDE DEF t
    <3> QED BY <2>1, <3>1, <3>2 DEF Holding
  <2>8. ASSUME NEW c \in Conn, DropCommit(c) PROVE AllSound'
    <3>1. \A s \in Session : store'[s] \in {store[s], NoSession}
      BY <2>8 DEF DropCommit, TypeOK
    <3> DEFINE t == [task[c] EXCEPT !.at = task[c].then, !.copy = NoSession,
                                    !.sid = NoSession]
    <3>2. t.at \in {"loop", "send", "sweeping"}
      BY TaskType DEF Task
    <3>3. Move(c, Idle("loop")) \/ Move(c, t)
      BY <2>8 DEF DropCommit, Done
    <3> HIDE DEF t
    <3>4. \A d \in Conn : task'[d].at \in Holding => task'[d] = task[d]
      BY <3>2, <3>3 DEF TypeOK, Holding
    <3> QED BY <2>0, <3>1, <3>4, QuietStep
  <2>9. CASE Tick
    <3>1. /\ \A s \in Session : store'[s] \in {store[s], NoSession}
          /\ UNCHANGED task
      BY <2>9 DEF Tick
    <3> QED BY <2>0, <3>1, QuietStep
  <2>10. CASE Crash
    <3>1. \A d \in Conn : task'[d].at \in Holding => task'[d] = task[d]
      BY <2>10 DEF Crash, Holding
    <3>2. UNCHANGED store
      BY <2>10 DEF Crash
    <3> QED BY <2>0, <3>1, <3>2, QuietStep
  <2>11. ASSUME NEW c \in Conn, Connect(c) PROVE AllSound'
    BY <2>2, <2>11 DEF Connect
  <2>12. CASE UNCHANGED vars
    BY <2>2, <2>12 DEF vars
  <2> QED
    BY <2>3, <2>4, <2>5, <2>6, <2>7, <2>8, <2>9, <2>10, <2>11, <2>12,
       ContinueSound, PutSound, <2>0, NextCases
<1> QED BY <1>1, <1>2, TypeCorrect, PTL DEF Spec

(* What is stored in Redis is always a session that registered messages    *)
(* brought about, although handlers overwrite each other's writes, a       *)
(* server may crash between any two commands, and ids are used again.      *)
THEOREM StoredWellFormedHolds == Spec => []StoredWellFormed
<1>1. AllSound => StoredWellFormed
  BY DEF AllSound, Sound, StoredWellFormed
<1> QED BY <1>1, AllSoundInvariant, PTL

(* A stored session says that the host accepted only if this host has sent *)
(* JOIN_ACCEPTED to this initiator under this session id.                  *)
THEOREM HostConsentsHolds == Spec => []HostConsents
<1>1. AllSound => HostConsents
  BY DEF AllSound, Sound, HostConsents
<1> QED BY <1>1, AllSoundInvariant, PTL
-----------------------------------------------------------------------------
(* How long a session stays.                                               *)

\* The end of a session that was read, or is about to be written back.
Inherited(h, s, r) == r.expiresAt <= h[BindingOf(s, r)].begun + SessionTtl

\* A JOIN_REQUEST brings its own end; every other message writes back the one
\* it has read, which is that of the binding's last JOIN_REQUEST or earlier.  A
\* copy that goes out says how long it had left when it did, not long ago.
CopyTimely(t, now, h) ==
  /\ t.at = "absent" => t.msg.kind = "JOIN_REQUEST"
  /\ t.at \in Holding =>
       \/ t.at = "put" /\ t.msg.kind = "JOIN_REQUEST" /\ t.copy.expiresAt <= now + SessionTtl
       \/ t.msg.kind # "JOIN_REQUEST" /\ Inherited(h, t.msg.sid, t.copy)
  /\ t.at = "put" =>
       /\ t.sent + t.ttl = t.copy.expiresAt
       /\ t.sent <= now /\ now <= t.sent + MaxDelay

\* When Redis drops a session that ends at end: its time is counted from the
\* arrival of the write, in whole seconds.
Due(end, drop) == end < drop + Second /\ drop <= end + MaxDelay

Timely ==
  /\ \A b \in Binding : hist[b].begun <= clock
  /\ \A s \in Session : store[s] # NoSession =>
       /\ clock < until[s]
       /\ Due(store[s].expiresAt, until[s])
       /\ Inherited(hist, s, store[s])
  /\ \A c \in Conn : CopyTimely(task[c], clock, hist)

\* Time waits for the writes that are under way long enough.
ClockSteps ==
  \/ clock' = clock
  \/ clock' = clock + 1 /\ \A c \in Conn : Arriving(task[c])

\* The beginning of a binding only ever moves on.
BeginningsKept == \A b \in Binding : /\ hist[b].begun <= hist'[b].begun
                                     /\ hist'[b].begun <= clock'

\* Registering a message leaves the end of the session alone.
LEMMA RegisterKeepsEnd ==
  ASSUME NEW r \in Record, NEW k, NEW p
  PROVE  Register(r, k, p).expiresAt = r.expiresAt
<1>1. CASE k = "JOIN_ACCEPTED"
  BY <1>1 DEF Register, Record
<1>2. CASE k = "OFFER"
  BY <1>2 DEF Register, Record
<1>3. CASE k = "ANSWER"
  BY <1>3 DEF Register, Record
<1>4. CASE k \notin {"JOIN_ACCEPTED", "OFFER", "ANSWER"}
  BY <1>4 DEF Register, Record
<1> QED BY <1>1, <1>2, <1>3, <1>4

LEMMA RecordedBegun ==
  ASSUME NEW h \in History, NEW kind
  PROVE  Recorded(h, kind).begun = IF kind = "JOIN_REQUEST" THEN clock ELSE h.begun
<1>1. CASE kind = "JOIN_REQUEST"
  BY <1>1 DEF Recorded, History
<1>2. CASE kind # "JOIN_REQUEST"
  BY <1>2 DEF Recorded, History
<1> QED BY <1>1, <1>2

LEMMA BegunType ==
  ASSUME TypeOK
  PROVE  /\ clock \in Nat
         /\ \A b \in Binding : hist[b] \in History /\ hist[b].begun \in Nat
BY DEF TypeOK, History

LEMMA StepKeepsBeginnings ==
  ASSUME TypeOK, Timely, [Next]_vars
  PROVE  BeginningsKept /\ ClockSteps
<1>1. ASSUME NEW c \in Conn, NEW j \in BOOLEAN, HostCheck(c, j)
      PROVE  BeginningsKept /\ clock' = clock
  <2> DEFINE b == BindingOf(task[c].msg.sid, task[c].copy)
  <2>1. clock' = clock /\ (hist' = hist \/ hist' = [hist EXCEPT ![b].consent = TRUE])
    BY <1>1, HostCases DEF ConsentGiven
  <2> HIDE DEF b
  <2>2. \A x \in Binding : hist'[x].begun = hist[x].begun
    BY <2>1 DEF TypeOK, History
  <2> QED BY <2>1, <2>2, BegunType DEF BeginningsKept, Timely
<1>2. ASSUME NEW c \in Conn, Put(c) PROVE BeginningsKept /\ clock' = clock
  <2> DEFINE b == BindingOf(task[c].msg.sid, task[c].copy)
             k == task[c].msg.kind
  <2>1. clock' = clock /\ (hist' = hist \/ hist' = [hist EXCEPT ![b] = Recorded(@, k)])
    BY <1>2 DEF Put
  <2>2. \A h \in History : Recorded(h, k).begun \in {clock, h.begun}
    BY RecordedBegun
  <2>3. \A x \in Binding : hist'[x].begun \in {clock, hist[x].begun}
    BY <2>1, <2>2 DEF TypeOK
  <2> QED BY <2>1, <2>3, BegunType DEF BeginningsKept, Timely
<1>3. ASSUME Tick PROVE BeginningsKept /\ ClockSteps
  BY <1>3, BegunType DEF Tick, BeginningsKept, Timely, ClockSteps
<1>4. ASSUME hist' = hist, clock' = clock PROVE BeginningsKept /\ clock' = clock
  BY <1>4, BegunType DEF BeginningsKept, Timely
<1>5. ASSUME NEW c \in Conn,
             \/ Connect(c) \/ Break(c) \/ Send(c) \/ DropRead(c) \/ DropCommit(c)
             \/ Unregister(c) \/ Sweep(c) \/ SweepNext(c) \/ SweepDone(c)
             \/ ContinueCheck(c) \/ (\E j \in BOOLEAN : BeginCheck(c, j))
             \/ (\E m \in Message : Receive(c, m))
      PROVE  hist' = hist /\ clock' = clock
  BY <1>5 DEF Connect, Break, Send, DropRead, DropCommit, Unregister, Sweep, SweepNext,
              SweepDone, ContinueCheck, BeginCheck, Receive
<1>6. CASE Crash
  BY <1>4, <1>6, BegunType DEF Crash, ClockSteps
<1>7. CASE UNCHANGED vars
  BY <1>4, <1>7, BegunType DEF vars, ClockSteps
<1>8. clock \in Nat
  BY BegunType
<1> QED
  BY <1>1, <1>2, <1>3, <1>4, <1>5, <1>6, <1>7, <1>8, NextCases DEF ClockSteps

LEMMA InheritedKept ==
  ASSUME TypeOK, TypeOK', BeginningsKept, NEW s \in Session, NEW r \in Record,
         Inherited(hist, s, r)
  PROVE  Inherited(hist', s, r)
<1> DEFINE b == BindingOf(s, r)
<1>1. b \in Binding
  BY BindingType
<1>2. hist[b].begun \in Nat /\ hist'[b].begun \in Nat /\ hist[b].begun <= hist'[b].begun
  BY <1>1 DEF TypeOK, History, BeginningsKept
<1>3. r.expiresAt \in Nat /\ r.expiresAt <= hist[b].begun + SessionTtl
  BY DEF Inherited, Record
<1> HIDE DEF b
<1> QED BY <1>2, <1>3, RelayAssumption DEF Inherited, b

\* A copy in hand stays timely while its task stands still.
LEMMA CopyKept ==
  ASSUME TypeOK, TypeOK', Timely, BeginningsKept, ClockSteps,
         NEW c \in Conn, task'[c] = task[c]
  PROVE  CopyTimely(task'[c], clock', hist')
<1>1. SUFFICES ASSUME task[c].at \in Holding
               PROVE  CopyTimely(task[c], clock', hist')
  BY DEF CopyTimely, Timely, Holding
<1>2. task[c].msg.sid \in Session /\ task[c].copy \in Record
  BY <1>1 DEF TypeOK, InHand, Message, Holding
<1>3. CopyTimely(task[c], clock, hist)
  BY DEF Timely
<1>4. clock \in Nat /\ clock' \in Nat /\ task[c].copy.expiresAt \in Nat /\ clock <= clock'
  BY <1>2 DEF TypeOK, Record, ClockSteps
<1>5. task[c].at = "put" =>
        /\ task[c].sent + task[c].ttl = task[c].copy.expiresAt
        /\ task[c].sent <= clock' /\ clock' <= task[c].sent + MaxDelay
  <2>1. task[c].sent \in Nat /\ MaxDelay \in Nat
    BY TaskType, RelayAssumption
  <2> QED BY <1>3, <1>4, <2>1 DEF CopyTimely, ClockSteps, Arriving
<1>6. CASE task[c].at = "put" /\ task[c].msg.kind = "JOIN_REQUEST"
           /\ task[c].copy.expiresAt <= clock + SessionTtl
  <2>1. task[c].copy.expiresAt <= clock' + SessionTtl
    BY <1>4, <1>6, RelayAssumption
  <2> QED BY <1>5, <1>6, <2>1 DEF CopyTimely
<1>7. CASE task[c].msg.kind # "JOIN_REQUEST"
           /\ Inherited(hist, task[c].msg.sid, task[c].copy)
  <2>1. Inherited(hist', task[c].msg.sid, task[c].copy)
    BY <1>2, <1>7, InheritedKept
  <2> QED BY <1>1, <1>5, <1>7, <2>1 DEF CopyTimely, Holding
<1> QED BY <1>1, <1>3, <1>6, <1>7 DEF CopyTimely

\* A step that stores nothing new, and moves tasks to where they hold nothing,
\* or something timely.
LEMMA TimelyStep ==
  ASSUME TypeOK, TypeOK', Timely, BeginningsKept, ClockSteps,
         \A s \in Session : store'[s] # NoSession =>
           store'[s] = store[s] /\ until'[s] = until[s] /\ clock' < until[s],
         \A c \in Conn : task'[c] = task[c] \/ CopyTimely(task'[c], clock', hist')
  PROVE  Timely'
<1>1. ASSUME NEW s \in Session, store'[s] # NoSession
      PROVE  /\ clock' < until'[s] /\ Due(store'[s].expiresAt, until'[s])
             /\ Inherited(hist', s, store'[s])
  <2>1. /\ store'[s] = store[s] /\ store[s] \in Record /\ Inherited(hist, s, store[s])
        /\ Due(store[s].expiresAt, until[s])
    BY <1>1 DEF TypeOK, Timely
  <2> QED BY <1>1, <2>1, InheritedKept
<1>2. \A c \in Conn : CopyTimely(task'[c], clock', hist')
  BY CopyKept
<1>3. \A b \in Binding : hist'[b].begun <= clock'
  BY DEF BeginningsKept
<1> QED BY <1>1, <1>2, <1>3 DEF Timely

\* One task moves and nothing is stored.
LEMMA TimelyMove ==
  ASSUME TypeOK, TypeOK', Timely, BeginningsKept, UNCHANGED <<clock, until>>,
         \A s \in Session : store'[s] \in {store[s], NoSession},
         NEW c \in Conn, NEW t, Move(c, t), CopyTimely(t, clock, hist')
  PROVE  Timely'
<1>1. clock \in Nat
  BY DEF TypeOK
<1>2. \A s \in Session : store'[s] # NoSession =>
        store'[s] = store[s] /\ until'[s] = until[s] /\ clock' < until[s]
  BY DEF Timely
<1>3. \A d \in Conn : task'[d] = task[d] \/ task'[d] = t
  BY DEF TypeOK
<1>4. \A d \in Conn : task'[d] = task[d] \/ CopyTimely(task'[d], clock', hist')
  BY <1>3
<1> QED BY <1>1, <1>2, <1>4, TimelyStep DEF ClockSteps

\* The end of what a handler is about to write back.
LEMMA ContinueTimely ==
  ASSUME TypeOK, TypeOK', Timely, BeginningsKept,
         NEW c \in Conn, NEW j \in BOOLEAN, ContinueCheck(c) \/ HostCheck(c, j)
  PROVE  Timely'
<1> DEFINE r == task[c].copy
           k == task[c].msg.kind
           s == task[c].msg.sid
           u == Register(r, k, PresenceOf[c])
           d(label) == [task[c] EXCEPT !.at = "drop", !.copy = NoSession,
                                       !.sid = s, !.then = label]
<1>1. /\ task[c].at \in {"loaded", "host"} /\ task[c] \in Task
      /\ r \in Record /\ s \in Session /\ UNCHANGED <<clock, store, until>>
      /\ \/ Done(c) \/ Drop(c, "loop") \/ Drop(c, "send") \/ Move(c, Looking(c))
         \/ Legal(c) /\ Move(c, Outgoing(c))
  BY ContinueCases, HostCases, TaskType DEF TypeOK, InHand, Message
<1>2. k # "JOIN_REQUEST" /\ Inherited(hist, s, r)
  BY <1>1 DEF Timely, CopyTimely, Holding
<1>3. Inherited(hist', s, r)
  BY <1>1, <1>2, InheritedKept
<1>4. Inherited(hist', s, u) /\ u.expiresAt = r.expiresAt
  <2>1. BindingOf(s, u) = BindingOf(s, r) /\ u.expiresAt = r.expiresAt
    BY <1>1, RegisterType, RegisterKeepsEnd DEF BindingOf
  <2> QED BY <1>3, <2>1 DEF Inherited
<1>5. CopyTimely(Looking(c), clock, hist')
  <2>1. Looking(c).at = "host" /\ Looking(c).msg = task[c].msg /\ Looking(c).copy = r
    BY <1>1 DEF Looking, Task
  <2> QED BY <1>2, <1>3, <2>1 DEF CopyTimely
<1>6. Legal(c) => CopyTimely(Outgoing(c), clock, hist')
  <2>1. /\ Outgoing(c).at = "put" /\ Outgoing(c).msg = task[c].msg /\ Outgoing(c).copy = u
        /\ Outgoing(c).sent = clock /\ Outgoing(c).ttl = r.expiresAt - clock
    BY <1>1 DEF Outgoing, Task, Remaining
  <2>2. clock \in Nat /\ r.expiresAt \in Nat /\ MaxDelay \in Nat
    BY <1>1, RelayAssumption DEF TypeOK, Record
  <2>3. clock + (r.expiresAt - clock) = r.expiresAt /\ clock <= clock /\ clock <= clock + MaxDelay
    BY <2>2
  <2> HIDE DEF u
  <2> QED BY <1>2, <1>4, <2>1, <2>3 DEF CopyTimely
<1>7. CopyTimely(Idle("loop"), clock, hist')
      /\ CopyTimely(d("loop"), clock, hist') /\ CopyTimely(d("send"), clock, hist')
  BY <1>1 DEF CopyTimely, Task, Holding
<1>8. \/ Move(c, Idle("loop")) \/ Move(c, d("loop")) \/ Move(c, d("send"))
      \/ Move(c, Looking(c))
      \/ Legal(c) /\ Move(c, Outgoing(c))
  BY <1>1, Zenon DEF Done, Drop
<1>9. \A z \in Session : store'[z] \in {store[z], NoSession}
  BY <1>1
<1> HIDE DEF d
<1> QED BY <1>1, <1>5, <1>6, <1>7, <1>8, <1>9, TimelyMove

\* The step that stores a session.
LEMMA PutTimely ==
  ASSUME TypeOK, TypeOK', Timely, BeginningsKept, NEW c \in Conn, Put(c)
  PROVE  Timely'
<1> DEFINE r == task[c].copy
           s == task[c].msg.sid
           k == task[c].msg.kind
           b == BindingOf(s, r)
           lasts == Whole(task[c].ttl)
           t == [task[c] EXCEPT !.at = "send", !.copy = NoSession, !.ttl = 0, !.sent = 0]
<1>1. /\ task[c] \in Task /\ task[c].at = "put" /\ r \in Record /\ s \in Session
      /\ UNCHANGED clock /\ CopyTimely(task[c], clock, hist) /\ b \in Binding
  BY TaskType, BindingType DEF Put, TypeOK, InHand, Message, Timely
<1>2. clock \in Nat /\ r.expiresAt \in Nat /\ ClockSteps
  BY <1>1 DEF TypeOK, Record, ClockSteps
<1>3. CASE Done(c) /\ UNCHANGED <<store, until>>
  <2>1. CopyTimely(Idle("loop"), clock, hist')
    BY DEF CopyTimely, Holding
  <2> QED BY <1>1, <1>3, <2>1, TimelyMove DEF Done
<1>4. CASE /\ lasts > 0 /\ Move(c, t) /\ store' = [store EXCEPT ![s] = r]
           /\ until' = [until EXCEPT ![s] = clock + lasts]
           /\ hist' = [hist EXCEPT ![b] = Recorded(@, k)]
  <2>1. clock < clock + lasts /\ Due(r.expiresAt, clock + lasts)
    <3>1. /\ task[c].sent \in Nat /\ task[c].ttl \in Nat
          /\ lasts \in Nat /\ lasts <= task[c].ttl /\ task[c].ttl < lasts + Second
      BY TaskType, WholeSeconds
    <3>2. /\ task[c].sent + task[c].ttl = r.expiresAt
          /\ task[c].sent <= clock /\ clock <= task[c].sent + MaxDelay
      BY <1>1 DEF CopyTimely
    <3> HIDE DEF lasts
    <3> QED BY <1>2, <1>4, <3>1, <3>2, RelayAssumption DEF Due
  <2>2. Inherited(hist', s, r)
    <3>1. CASE k = "JOIN_REQUEST" /\ r.expiresAt <= clock + SessionTtl
      <4>1. hist'[b].begun = clock
        BY <1>1, <1>4, <3>1, RecordedBegun DEF TypeOK
      <4> QED BY <3>1, <4>1 DEF Inherited
    <3>2. CASE Inherited(hist, s, r)
      BY <1>1, <3>2, InheritedKept
    <3> QED BY <1>1, <3>1, <3>2 DEF CopyTimely, Holding
  <2>3. ASSUME NEW z \in Session, store'[z] # NoSession
        PROVE  /\ clock' < until'[z] /\ Due(store'[z].expiresAt, until'[z])
               /\ Inherited(hist', z, store'[z])
    <3>1. CASE z = s
      <4>1. store'[z] = r /\ until'[z] = clock + lasts
        BY <1>1, <1>4, <3>1 DEF TypeOK
      <4> QED BY <1>1, <2>1, <2>2, <3>1, <4>1
    <3>2. CASE z # s
      <4>1. store'[z] = store[z] /\ until'[z] = until[z] /\ store[z] \in Record
        BY <1>4, <2>3, <3>2 DEF TypeOK
      <4> QED BY <1>1, <2>3, <4>1, InheritedKept DEF Timely
    <3> QED BY <3>1, <3>2
  <2>4. t.at = "send"
    BY <1>1 DEF Task
  <2>5. \A d \in Conn : CopyTimely(task'[d], clock', hist')
    <3>1. SUFFICES ASSUME NEW d \in Conn PROVE CopyTimely(task'[d], clock', hist')
      OBVIOUS
    <3>2. CASE d = c
      BY <1>4, <2>4, <3>2 DEF TypeOK, CopyTimely, Holding
    <3>3. CASE d # c
      <4>1. task'[d] = task[d]
        BY <1>4, <3>3 DEF TypeOK
      <4> QED BY <1>2, <4>1, CopyKept
    <3> QED BY <3>2, <3>3
  <2> QED BY <2>3, <2>5 DEF Timely, BeginningsKept
<1> QED BY <1>3, <1>4, Zenon DEF Put

LEMMA TimelyInvariant == Spec => []Timely
<1>1. Init => Timely
  BY DEF Init, Timely, CopyTimely, Holding
<1>2. TypeOK /\ TypeOK' /\ Timely /\ [Next]_vars => Timely'
  <2> SUFFICES ASSUME TypeOK, TypeOK', Timely, [Next]_vars PROVE Timely'
    OBVIOUS
  <2>0. BeginningsKept /\ ClockSteps /\ clock \in Nat
    BY StepKeepsBeginnings, BegunType
  <2>1. ASSUME NEW c \in Conn, NEW t, Move(c, t), UNCHANGED <<clock, until>>,
               \A s \in Session : store'[s] \in {store[s], NoSession},
               t.at \notin {"absent", "loaded", "host", "put"}
        PROVE  Timely'
    BY <2>0, <2>1, TimelyMove DEF CopyTimely, Holding
  <2>2. ASSUME UNCHANGED <<clock, store, until, task>> PROVE Timely'
    BY <2>0, <2>2, TimelyStep DEF Timely
  <2>3. ASSUME NEW c \in Conn,
               Break(c) \/ Unregister(c) \/ Sweep(c) \/ SweepDone(c) \/ DropRead(c)
        PROVE  Timely'
    <3> DEFINE sweep == [task[c] EXCEPT !.at = "sweeping", !.todo = index[PresenceOf[c]]]
               unlink == [task[c] EXCEPT !.at = "unlink", !.copy = store[task[c].sid]]
    <3>1. sweep.at = "sweeping" /\ unlink.at = "unlink"
      BY TaskType DEF Task
    <3>2. /\ UNCHANGED <<clock, store, until>>
          /\ \/ \E label \in {"leaving", "sweep", "gone"} : Move(c, Idle(label))
             \/ Move(c, sweep) \/ Move(c, unlink)
      BY <2>3 DEF Break, Unregister, Sweep, SweepDone, DropRead
    <3> HIDE DEF sweep, unlink
    <3> QED BY <2>1, <3>1, <3>2
  <2>4. ASSUME NEW c \in Conn, SweepNext(c) PROVE Timely'
    <3>1. PICK s \in task[c].todo :
            Move(c, [task[c] EXCEPT !.at = "drop", !.sid = s, !.then = "sweeping",
                                    !.todo = @ \ {s}])
      BY <2>4, Zenon DEF SweepNext
    <3> DEFINE t == [task[c] EXCEPT !.at = "drop", !.sid = s, !.then = "sweeping",
                                    !.todo = @ \ {s}]
    <3>2. t.at = "drop" /\ UNCHANGED <<clock, store, until>>
      BY <2>4, TaskType DEF SweepNext, Task
    <3> QED BY <2>1, <3>1, <3>2
  <2>5. ASSUME NEW c \in Conn, NEW m \in Message, Receive(c, m) PROVE Timely'
    <3> DEFINE t == [task[c] EXCEPT !.at = IF m.kind = "JOIN_REQUEST"
                                           THEN "absent" ELSE "loaded",
                                    !.msg = m, !.copy = store[m.sid]]
    <3>1. Move(c, t) /\ UNCHANGED <<clock, store, until, hist>>
      BY <2>5 DEF Receive
    <3>2. t.at = "loaded" => store[m.sid] # NoSession /\ m.kind # "JOIN_REQUEST"
      BY <2>5, TaskType DEF Receive, Task
    <3>3. t.at \in {"absent", "loaded"} /\ t.msg = m /\ t.copy = store[m.sid]
          /\ m.sid \in Session
      BY TaskType DEF Task, Message
    <3>4. CopyTimely(t, clock, hist')
      BY <3>1, <3>2, <3>3 DEF Timely, CopyTimely, Holding
    <3> HIDE DEF t
    <3> QED BY <2>0, <3>1, <3>4, TimelyMove
  <2>6. ASSUME NEW c \in Conn, NEW j \in BOOLEAN, BeginCheck(c, j) PROVE Timely'
    <3> DEFINE r == NewSession(PresenceOf[c], task[c].msg.to, clock + SessionTtl)
               t == [task[c] EXCEPT !.at = "put", !.ttl = SessionTtl, !.sent = clock,
                                    !.copy = r]
    <3>1. UNCHANGED <<clock, store, until>> /\ (Done(c) \/ Move(c, t))
      BY <2>6 DEF BeginCheck
    <3>2. CASE Done(c)
      BY <2>1, <3>1, <3>2 DEF Done
    <3>3. CASE Move(c, t)
      <4>1. task[c].msg.kind = "JOIN_REQUEST"
        BY <2>6 DEF BeginCheck, Timely, CopyTimely
      <4>2. t.at = "put" /\ t.msg = task[c].msg /\ t.copy = r
            /\ t.sent = clock /\ t.ttl = SessionTtl
        BY TaskType DEF Task
      <4>3. /\ r.expiresAt = clock + SessionTtl /\ r.expiresAt <= clock + SessionTtl
            /\ clock <= clock /\ clock <= clock + MaxDelay
        BY <2>0, RelayAssumption DEF NewSession
      <4>4. CopyTimely(t, clock, hist')
        BY <4>1, <4>2, <4>3 DEF CopyTimely
      <4> HIDE DEF t
      <4> QED BY <2>0, <3>1, <3>3, <4>4, TimelyMove
    <3> QED BY <3>1, <3>2, <3>3
  <2>7. ASSUME NEW c \in Conn, Send(c) PROVE Timely'
    <3> DEFINE t == [task[c] EXCEPT !.at = "drop", !.copy = NoSession,
                                    !.sid = task[c].msg.sid, !.then = "loop"]
    <3>1. t.at = "drop"
      BY TaskType DEF Task
    <3>2. UNCHANGED <<clock, store, until>> /\ (Move(c, Idle("loop")) \/ Move(c, t))
      BY <2>7 DEF Send, Done, Drop
    <3> HIDE DEF t
    <3> QED BY <2>1, <3>1, <3>2
  <2>8. ASSUME NEW c \in Conn, DropCommit(c) PROVE Timely'
    <3>1. UNCHANGED <<clock, until>> /\ \A s \in Session : store'[s] \in {store[s], NoSession}
      BY <2>8 DEF DropCommit, TypeOK
    <3> DEFINE t == [task[c] EXCEPT !.at = task[c].then, !.copy = NoSession,
                                    !.sid = NoSession]
    <3>2. t.at \in {"loop", "send", "sweeping"}
      BY TaskType DEF Task
    <3>3. Move(c, Idle("loop")) \/ Move(c, t)
      BY <2>8 DEF DropCommit, Done
    <3> HIDE DEF t
    <3> QED BY <2>1, <3>1, <3>2, <3>3
  <2>9. CASE Tick
    <3>1. /\ \A s \in Session : store'[s] # NoSession =>
               store'[s] = store[s] /\ ~ (until[s] <= clock + 1)
          /\ UNCHANGED <<until, task>> /\ clock' = clock + 1
      BY <2>9 DEF Tick
    <3>2. \A s \in Session : store'[s] # NoSession =>
            store'[s] = store[s] /\ until'[s] = until[s] /\ clock' < until[s]
      BY <2>0, <3>1 DEF TypeOK
    <3> QED BY <2>0, <3>1, <3>2, TimelyStep
  <2>10. CASE Crash
    <3>1. \A d \in Conn : task'[d] = task[d] \/ task'[d] = Idle("gone")
      BY <2>10 DEF Crash
    <3>2. \A d \in Conn : task'[d] = task[d] \/ CopyTimely(task'[d], clock', hist')
      BY <3>1 DEF CopyTimely, Holding
    <3>3. UNCHANGED <<clock, store, until>>
      BY <2>10 DEF Crash
    <3> QED BY <2>0, <3>2, <3>3, TimelyStep DEF Timely
  <2>11. ASSUME NEW c \in Conn, Connect(c) PROVE Timely'
    BY <2>2, <2>11 DEF Connect
  <2>12. CASE UNCHANGED vars
    BY <2>2, <2>12 DEF vars
  <2> QED
    BY <2>3, <2>4, <2>5, <2>6, <2>7, <2>8, <2>9, <2>10, <2>11, <2>12,
       ContinueTimely, PutTimely, <2>0, NextCases
<1> QED BY <1>1, <1>2, TypeCorrect, PTL DEF Spec

(* Redis has dropped a session SessionTtl after the JOIN_REQUEST that      *)
(* began it, plus the delay of one write, and not a whole second before    *)
(* its own time is over: for every time to live, every length of a second  *)
(* and every delay, however often put_signaling_session writes it back,    *)
(* out of whichever copy, and whatever crashes in between.                 *)
THEOREM NoOverstayHolds == Spec => []NoOverstay
<1>1. TypeOK /\ Timely => NoOverstay
  <2> SUFFICES ASSUME TypeOK, Timely, NEW s \in Session, store[s] # NoSession
               PROVE  /\ clock < hist[BindingOf(s, store[s])].begun + SessionTtl + MaxDelay
                      /\ until[s] > store[s].expiresAt - Second
    BY DEF NoOverstay
  <2> DEFINE begun == hist[BindingOf(s, store[s])].begun
  <2>1. store[s] \in Record
    BY DEF TypeOK
  <2>2. /\ clock \in Nat /\ store[s].expiresAt \in Nat /\ begun \in Nat
        /\ until[s] \in Nat
    BY <2>1, BindingType, BegunType DEF Record, TypeOK
  <2>3. /\ clock < until[s] /\ until[s] <= store[s].expiresAt + MaxDelay
        /\ store[s].expiresAt < until[s] + Second
        /\ store[s].expiresAt <= begun + SessionTtl
    BY DEF Timely, Inherited, Due
  <2> HIDE DEF begun
  <2>4. clock < begun + SessionTtl + MaxDelay /\ until[s] > store[s].expiresAt - Second
    BY <2>2, <2>3, RelayAssumption
  <2> QED BY <2>4 DEF begun
<1> QED BY <1>1, TimelyInvariant, TypeCorrect, PTL
-----------------------------------------------------------------------------
(* One OFFER.  (Of a Presence with two connections the older one may still *)
(* put back what the initiator has offered upon since, so here a Presence  *)
(* connects once.)                                                         *)

ConnectsOnce == \A c, d \in Conn : PresenceOf[c] = PresenceOf[d] => c = d

\* The binding a task is at work on, and a copy it may write back.
AtWorkOn(t) == BindingOf(t.msg.sid, t.copy)
Continues(t) == t.at \in Holding /\ t.msg.kind # "JOIN_REQUEST"
Initiates(c, t) == Continues(t) /\ PresenceOf[c] = t.copy.initiator

\* The target's copy precedes the OFFER, and may be written back.
TakesBack(c, t) ==
  /\ Continues(t) /\ PresenceOf[c] = t.copy.target /\ t.copy.target # t.copy.initiator
  /\ t.at \in {"loaded", "host"} => ~ t.copy.joinAccepted
  /\ t.at = "put" => ~ t.copy.offerSent

\* What a task may be about to write.
Writes(c, t) ==
  /\ t.at = "absent" => t.msg.kind = "JOIN_REQUEST"
  /\ t.at = "put" =>
       /\ PresenceOf[c] \in Peers(t.copy)
       /\ t.msg.kind = "JOIN_REQUEST" =>
            PresenceOf[c] = t.copy.initiator /\ ~ t.copy.joinAccepted
       /\ t.msg.kind # "JOIN_REQUEST" => t.copy.joinAccepted
       /\ t.msg.kind = "OFFER" => PresenceOf[c] = t.copy.initiator /\ t.copy.offerSent

StoredAs(s, b) == store[s] # NoSession /\ BindingOf(s, store[s]) = b

\* The initiator knows of its OFFER, and of no acceptance that is not stored.
InitiatorKnows(c, t) ==
  /\ Initiates(c, t) /\ hist[AtWorkOn(t)].offers # 0 => t.copy.offerSent
  /\ Initiates(c, t) /\ t.msg.kind = "OFFER" /\ t.at = "put" => hist[AtWorkOn(t)].offers = 0
  /\ Initiates(c, t) /\ t.copy.initiator # t.copy.target /\ t.copy.joinAccepted
       /\ StoredAs(t.msg.sid, AtWorkOn(t)) => store[t.msg.sid].joinAccepted

\* As long as the target may take an OFFER back, there is none.
NoneYet(d, t) ==
  TakesBack(d, t) =>
    /\ hist[AtWorkOn(t)].offers = 0
    /\ StoredAs(t.msg.sid, AtWorkOn(t)) => ~ store[t.msg.sid].joinAccepted
    /\ \A c \in Conn : Initiates(c, task[c]) /\ AtWorkOn(task[c]) = AtWorkOn(t)
                         => ~ task[c].copy.joinAccepted

Offered ==
  /\ \A b \in Binding : hist[b].offers <= 1
  /\ \A s \in Session : store[s] # NoSession /\ hist[BindingOf(s, store[s])].offers # 0
                          => store[s].offerSent
  /\ \A c \in Conn : /\ Writes(c, task[c])
                     /\ InitiatorKnows(c, task[c])
                     /\ NoneYet(c, task[c])

OffersKept == \A b \in Binding : hist'[b].offers = hist[b].offers

\* What a task in the middle of a session holds.
LEMMA AtWork ==
  ASSUME TypeOK, NEW c \in Conn, task[c].at \in Holding
  PROVE  /\ task[c].msg.sid \in Session /\ task[c].copy \in Record
         /\ AtWorkOn(task[c]) \in Binding
BY BindingType DEF TypeOK, InHand, Message, AtWorkOn, Holding

\* One task turns to where it continues no session, and nothing is stored.
LEMMA OfferedQuiet ==
  ASSUME TypeOK, Offered, OffersKept,
         \A s \in Session : store'[s] \in {store[s], NoSession},
         NEW c \in Conn, \A d \in Conn : d # c => task'[d] = task[d],
         ~ Continues(task'[c]), Writes(c, task'[c])
  PROVE  Offered'
<1>1. \A b \in Binding : hist'[b].offers <= 1
  BY DEF OffersKept, Offered
<1>2. ASSUME NEW s \in Session, store'[s] # NoSession,
             hist'[BindingOf(s, store'[s])].offers # 0
      PROVE  store'[s].offerSent
  <2>1. store'[s] = store[s] /\ BindingOf(s, store[s]) \in Binding
    BY <1>2, BindingType DEF TypeOK
  <2> QED BY <1>2, <2>1 DEF OffersKept, Offered
<1>3. \A d \in Conn : Writes(d, task'[d])
  BY DEF Offered
<1>4. ASSUME NEW d \in Conn, Continues(task'[d])
      PROVE  /\ d # c /\ task'[d] = task[d]
             /\ task[d].msg.sid \in Session /\ AtWorkOn(task[d]) \in Binding
             /\ hist'[AtWorkOn(task[d])].offers = hist[AtWorkOn(task[d])].offers
  BY <1>4, AtWork DEF Continues, OffersKept
<1>5. \A s \in Session, b \in Binding : StoredAs(s, b)' => StoredAs(s, b) /\ store'[s] = store[s]
  BY DEF StoredAs
<1>6. ASSUME NEW d \in Conn PROVE InitiatorKnows(d, task[d])'
  <2>1. CASE Initiates(d, task'[d])
    BY <1>4, <1>5, <2>1 DEF Offered, InitiatorKnows, Initiates
  <2>2. CASE ~ Initiates(d, task'[d])
    BY <2>2 DEF InitiatorKnows
  <2> QED BY <2>1, <2>2
<1>7. ASSUME NEW d \in Conn PROVE NoneYet(d, task[d])'
  <2>1. CASE TakesBack(d, task'[d])
    <3>1. Continues(task'[d])
      BY <2>1 DEF TakesBack
    <3>2. NoneYet(d, task[d]) /\ TakesBack(d, task[d])
      BY <1>4, <2>1, <3>1 DEF Offered
    <3>3. \A e \in Conn : Initiates(e, task'[e]) => task'[e] = task[e]
      BY <1>4 DEF Initiates
    <3> QED BY <1>4, <1>5, <3>1, <3>2, <3>3 DEF NoneYet
  <2>2. CASE ~ TakesBack(d, task'[d])
    BY <2>2 DEF NoneYet
  <2> QED BY <2>1, <2>2
<1> QED BY <1>1, <1>2, <1>3, <1>6, <1>7 DEF Offered

\* One task goes on with a session, and nothing is stored.
LEMMA OfferedMove ==
  ASSUME TypeOK, Offered, OffersKept, UNCHANGED store,
         NEW c \in Conn, \A d \in Conn : d # c => task'[d] = task[d],
         Writes(c, task'[c]), InitiatorKnows(c, task[c])', NoneYet(c, task[c])',
         \A d \in Conn : (/\ d # c /\ TakesBack(d, task[d]) /\ Initiates(c, task'[c])
                          /\ AtWorkOn(task'[c]) = AtWorkOn(task[d]))
                            => ~ task'[c].copy.joinAccepted
  PROVE  Offered'
<1>1. \A b \in Binding : hist'[b].offers <= 1
  BY DEF OffersKept, Offered
<1>2. ASSUME NEW s \in Session, store'[s] # NoSession,
             hist'[BindingOf(s, store'[s])].offers # 0
      PROVE  store'[s].offerSent
  <2>1. BindingOf(s, store[s]) \in Binding
    BY <1>2, BindingType DEF TypeOK
  <2> QED BY <1>2, <2>1 DEF OffersKept, Offered
<1>3. \A d \in Conn : Writes(d, task'[d])
  BY DEF Offered
<1>4. ASSUME NEW d \in Conn, d # c, Continues(task[d])
      PROVE  hist'[AtWorkOn(task[d])].offers = hist[AtWorkOn(task[d])].offers
  BY <1>4, AtWork DEF Continues, OffersKept
<1>5. \A s \in Session, b \in Binding : StoredAs(s, b)' = StoredAs(s, b)
  BY DEF StoredAs
<1>6. ASSUME NEW d \in Conn, d # c PROVE InitiatorKnows(d, task[d])'
  <2>1. CASE Initiates(d, task[d])
    <3>1. task[d].msg.sid \in Session /\ AtWorkOn(task[d]) \in Binding
      BY <2>1, AtWork DEF Initiates, Continues
    <3> QED BY <1>4, <1>5, <1>6, <2>1, <3>1 DEF Offered, InitiatorKnows, Initiates
  <2>2. CASE ~ Initiates(d, task[d])
    BY <1>6, <2>2 DEF InitiatorKnows
  <2> QED BY <2>1, <2>2
<1>7. ASSUME NEW d \in Conn, d # c PROVE NoneYet(d, task[d])'
  <2>1. CASE TakesBack(d, task[d])
    <3>1. Continues(task[d]) /\ NoneYet(d, task[d])
      BY <2>1 DEF TakesBack, Offered
    <3>2. task[d].msg.sid \in Session /\ AtWorkOn(task[d]) \in Binding
      BY <3>1, AtWork DEF Continues
    <3> QED BY <1>4, <1>5, <1>7, <2>1, <3>1, <3>2 DEF NoneYet
  <2>2. CASE ~ TakesBack(d, task[d])
    BY <1>7, <2>2 DEF NoneYet
  <2> QED BY <2>1, <2>2
<1> QED BY <1>1, <1>2, <1>3, <1>6, <1>7 DEF Offered

LEMMA SameOffers ==
  ASSUME UNCHANGED hist
  PROVE  OffersKept
BY DEF OffersKept

\* What Register does to the OFFER.
LEMMA RegisterOffer ==
  ASSUME NEW r \in Record, NEW k, NEW p
  PROVE  /\ k = "OFFER" => Register(r, k, p).offerSent
         /\ k # "OFFER" => Register(r, k, p).offerSent = r.offerSent
<1>1. CASE k = "JOIN_ACCEPTED"
  BY <1>1 DEF Register, Record
<1>2. CASE k = "OFFER"
  BY <1>2 DEF Register, Record
<1>3. CASE k = "ANSWER"
  BY <1>3 DEF Register, Record
<1>4. CASE k \notin {"JOIN_ACCEPTED", "OFFER", "ANSWER"}
  BY <1>4 DEF Register, Record
<1> QED BY <1>1, <1>2, <1>3, <1>4

\* What the history keeps of the OFFERs.
LEMMA RecordedOffers ==
  ASSUME NEW h \in History, NEW k
  PROVE  /\ k = "JOIN_REQUEST" => Recorded(h, k).offers = 0
         /\ k = "OFFER" /\ h.offers = 0 => Recorded(h, k).offers = 1
         /\ k \notin {"JOIN_REQUEST", "OFFER"} => Recorded(h, k).offers = h.offers
<1>1. CASE k = "JOIN_REQUEST"
  BY <1>1 DEF Recorded, History
<1>2. CASE k = "OFFER"
  BY <1>2 DEF Recorded, History
<1>3. CASE k \notin {"JOIN_REQUEST", "OFFER"}
  BY <1>3 DEF Recorded, History
<1> QED BY <1>1, <1>2, <1>3

\* A session is read.
LEMMA ReceiveOffered ==
  ASSUME ConnectsOnce, TypeOK, AllSound, Offered,
         NEW c \in Conn, NEW m \in Message, Receive(c, m)
  PROVE  Offered'
<1> DEFINE t == [task[c] EXCEPT !.at = IF m.kind = "JOIN_REQUEST"
                                       THEN "absent" ELSE "loaded",
                                !.msg = m, !.copy = store[m.sid]]
<1>1. /\ task' = [task EXCEPT ![c] = t] /\ UNCHANGED <<store, hist>>
      /\ m.kind # "JOIN_REQUEST" => store[m.sid] # NoSession
  BY DEF Receive
<1>2. /\ t.at = (IF m.kind = "JOIN_REQUEST" THEN "absent" ELSE "loaded")
      /\ t.msg = m /\ t.copy = store[m.sid] /\ m.sid \in Session
  BY TaskType DEF Task, Message
<1> HIDE DEF t
<1>3. task'[c] = t /\ \A d \in Conn : d # c => task'[d] = task[d]
  BY <1>1 DEF TypeOK
<1>4. Writes(c, t) /\ OffersKept
  BY <1>1, <1>2, SameOffers DEF Writes
<1>5. CASE m.kind = "JOIN_REQUEST"
  <2>1. ~ Continues(t)
    BY <1>2, <1>5 DEF Continues
  <2> QED BY <1>1, <1>3, <1>4, <2>1, OfferedQuiet
<1>6. CASE m.kind # "JOIN_REQUEST"
  <2> DEFINE r == store[m.sid]
             b == BindingOf(m.sid, r)
  <2>1. /\ r \in Record /\ t.at = "loaded" /\ AtWorkOn(t) = b
        /\ r.offerSent => r.joinAccepted
        /\ hist[b].offers # 0 => r.offerSent
    BY <1>1, <1>2, <1>6 DEF TypeOK, AtWorkOn, AllSound, Sound, WellFormed, Offered
  <2>2. InitiatorKnows(c, task[c])'
    BY <1>1, <1>2, <1>3, <2>1 DEF InitiatorKnows, Initiates, StoredAs
  <2>3. ASSUME TakesBack(c, t)
        PROVE  /\ hist[b].offers = 0 /\ ~ r.joinAccepted
               /\ \A e \in Conn : Initiates(e, task'[e]) /\ AtWorkOn(task'[e]) = b
                                    => ~ task'[e].copy.joinAccepted
    <3>1. ~ r.joinAccepted /\ PresenceOf[c] = r.target /\ r.target # r.initiator
      BY <1>2, <2>1, <2>3 DEF TakesBack
    <3>2. ASSUME NEW e \in Conn, Initiates(e, task'[e]), AtWorkOn(task'[e]) = b
          PROVE  ~ task'[e].copy.joinAccepted
      <4>1. /\ task'[e].msg.sid = m.sid /\ task'[e].copy.initiator = r.initiator
            /\ task'[e].copy.target = r.target
        BY <3>2 DEF AtWorkOn, BindingOf
      <4>2. e # c
        BY <3>1, <3>2, <4>1 DEF Initiates
      <4>3. InitiatorKnows(e, task[e]) /\ task'[e] = task[e]
        BY <1>3, <4>2 DEF Offered
      <4>4. StoredAs(m.sid, b)
        BY <1>1, <1>6 DEF StoredAs
      <4> QED BY <3>1, <3>2, <4>1, <4>3, <4>4 DEF InitiatorKnows
    <3> QED BY <2>1, <3>1, <3>2
  <2>4. NoneYet(c, task[c])'
    BY <1>1, <1>2, <1>3, <2>1, <2>3 DEF NoneYet, StoredAs
  <2>5. ASSUME NEW d \in Conn, d # c, TakesBack(d, task[d]), AtWorkOn(t) = AtWorkOn(task[d])
        PROVE  ~ t.copy.joinAccepted
    <3>1. StoredAs(m.sid, b) /\ task[d].msg.sid = m.sid /\ NoneYet(d, task[d])
      BY <1>1, <1>6, <2>1, <2>5 DEF StoredAs, AtWorkOn, BindingOf, Offered
    <3> QED BY <1>2, <2>1, <2>5, <3>1 DEF NoneYet
  <2>6. Writes(c, task'[c])
    BY <1>3, <1>4
  <2>7. ASSUME NEW d \in Conn,
               /\ d # c /\ TakesBack(d, task[d]) /\ Initiates(c, task'[c])
               /\ AtWorkOn(task'[c]) = AtWorkOn(task[d])
        PROVE  ~ task'[c].copy.joinAccepted
    BY <1>3, <2>5, <2>7
  <2> QED BY <1>1, <1>3, <1>4, <2>2, <2>4, <2>6, <2>7, OfferedMove
<1> QED BY <1>5, <1>6

\* The host is looked at, or a message is registered in a copy.
LEMMA ContinueOffered ==
  ASSUME ConnectsOnce, TypeOK, AllSound, Offered,
         NEW c \in Conn, NEW j \in BOOLEAN, ContinueCheck(c) \/ HostCheck(c, j)
  PROVE  Offered'
<1> DEFINE r == task[c].copy
           k == task[c].msg.kind
           p == PresenceOf[c]
           s == task[c].msg.sid
           b == BindingOf(s, r)
           u == Register(r, k, p)
           t == Outgoing(c)
           legal == MaySpeak(c) /\ Legal(c)
           d(label) == [task[c] EXCEPT !.at = "drop", !.copy = NoSession,
                                       !.sid = task[c].msg.sid, !.then = label]
<1>1. /\ task[c] \in Task /\ task[c].at \in {"loaded", "host"} /\ UNCHANGED store
      /\ r \in Record /\ s \in Session /\ b \in Binding
      /\ AtWorkOn(task[c]) = b
      /\ InitiatorKnows(c, task[c]) /\ NoneYet(c, task[c])
  BY AtWork, TaskType, ContinueCases, HostCases DEF AtWorkOn, Offered, Holding
<1>2. OffersKept
  <2>1. hist' = hist \/ ConsentGiven(c)
    BY ContinueCases, HostCases
  <2>2. hist' = hist \/ hist' = [hist EXCEPT ![b].consent = TRUE]
    BY <2>1 DEF ConsentGiven
  <2> HIDE DEF b
  <2> QED BY <2>2 DEF TypeOK, History, OffersKept
<1>3. ASSUME NEW v, Move(c, v), v.at \notin {"absent", "loaded", "host", "put"}
      PROVE  Offered'
  <2>1. task'[c] = v /\ \A e \in Conn : e # c => task'[e] = task[e]
    BY <1>3 DEF TypeOK
  <2>2. ~ Continues(v) /\ Writes(c, v)
    BY <1>3 DEF Continues, Writes, Holding
  <2> QED BY <1>1, <1>2, <2>1, <2>2, OfferedQuiet
<1>4. \/ Done(c) \/ Drop(c, "loop") \/ Drop(c, "send")
      \/ Move(c, Looking(c))
      \/ legal /\ Move(c, t)
  BY ContinueCases, HostCases DEF AllSound
<1>5. CASE Done(c) \/ Drop(c, "loop") \/ Drop(c, "send")
  <2>1. Move(c, Idle("loop")) \/ Move(c, d("loop")) \/ Move(c, d("send"))
    BY <1>5, Zenon DEF Done, Drop
  <2>2. d("loop").at = "drop" /\ d("send").at = "drop"
    BY <1>1 DEF Task
  <2> HIDE DEF d
  <2> QED BY <1>3, <2>1, <2>2
<1>6. CASE Move(c, Looking(c))
  <2> DEFINE v == Looking(c)
  <2>1. v.at = "host" /\ v.msg = task[c].msg /\ v.copy = r
    BY <1>1 DEF Looking, Task
  <2>2. task'[c] = v /\ \A e \in Conn : e # c => task'[e] = task[e]
    BY <1>6 DEF TypeOK
  <2> HIDE DEF v
  <2>3. /\ hist'[b].offers = hist[b].offers
        /\ \A z \in Session, y \in Binding : StoredAs(z, y)' = StoredAs(z, y)
    BY <1>1, <1>2 DEF OffersKept, StoredAs
  <2>4. /\ AtWorkOn(v) = b /\ Writes(c, v)
        /\ Initiates(c, v) => Initiates(c, task[c])
        /\ TakesBack(c, v) => TakesBack(c, task[c])
    BY <1>1, <2>1 DEF AtWorkOn, Writes, Initiates, TakesBack, Continues, Holding
  <2>5. ASSUME Initiates(c, v) PROVE InitiatorKnows(c, task[c])'
    BY <1>1, <2>1, <2>2, <2>3, <2>4, <2>5 DEF InitiatorKnows
  <2>6. ASSUME TakesBack(c, v) PROVE NoneYet(c, task[c])'
    <3>1. ASSUME NEW e \in Conn, Initiates(e, task'[e]), AtWorkOn(task'[e]) = b
          PROVE  ~ task'[e].copy.joinAccepted
      <4>1. e # c
        <5>1. PresenceOf[c] = r.target /\ r.target # r.initiator
          BY <2>1, <2>6 DEF TakesBack
        <5>2. PresenceOf[e] = r.initiator
          BY <3>1 DEF Initiates, AtWorkOn, BindingOf
        <5> QED BY <5>1, <5>2
      <4> QED BY <1>1, <2>2, <2>4, <2>6, <3>1, <4>1 DEF NoneYet
    <3> QED BY <1>1, <2>1, <2>2, <2>3, <2>4, <2>6, <3>1 DEF NoneYet
  <2>7. ASSUME NEW e \in Conn, e # c, TakesBack(e, task[e]),
               Initiates(c, v), AtWorkOn(v) = AtWorkOn(task[e])
        PROVE  ~ r.joinAccepted
    BY <1>1, <2>4, <2>7 DEF NoneYet, Offered
  <2>8. InitiatorKnows(c, task[c])' /\ NoneYet(c, task[c])'
    BY <2>2, <2>5, <2>6 DEF InitiatorKnows, NoneYet
  <2>9. \A e \in Conn : (/\ e # c /\ TakesBack(e, task[e]) /\ Initiates(c, task'[c])
                          /\ AtWorkOn(task'[c]) = AtWorkOn(task[e]))
                            => ~ task'[c].copy.joinAccepted
    BY <2>1, <2>2, <2>7
  <2>10. Writes(c, task'[c])
    BY <2>2, <2>4
  <2> QED BY <1>1, <1>2, <2>2, <2>8, <2>9, <2>10, OfferedMove
<1>7. CASE legal /\ Move(c, t)
  <2>1. /\ t.at = "put" /\ t.msg = task[c].msg /\ t.copy = u
        /\ u.initiator = r.initiator /\ u.target = r.target /\ AtWorkOn(t) = b
    BY <1>1, RegisterType DEF Outgoing, Task, AtWorkOn, BindingOf
  <2>2. task'[c] = t /\ \A e \in Conn : e # c => task'[e] = task[e]
    BY <1>7 DEF TypeOK
  <2> HIDE DEF t
  <2>3. /\ k \in {"JOIN_ACCEPTED", "OFFER", "ANSWER", "ICE_CANDIDATE"}
        /\ k = "JOIN_ACCEPTED" => p = r.target /\ ~ r.joinAccepted
        /\ k = "OFFER" => p = r.initiator /\ r.joinAccepted /\ ~ r.offerSent
        /\ k \in {"ANSWER", "ICE_CANDIDATE"} => r.offerSent
    <3>1. legal
      BY <1>7
    <3> QED BY <3>1 DEF MaySpeak, Legal, PhaseAllows, RoleAllows, Phase, Closing
  <2>4. /\ r.offerSent => r.joinAccepted
        /\ k = "OFFER" => u.offerSent
        /\ k # "OFFER" => u.offerSent = r.offerSent
        /\ k # "JOIN_ACCEPTED" => u.joinAccepted = r.joinAccepted
    BY <1>1, RegisterOffer, RegisterKeepsAccepted DEF AllSound, Sound, WellFormed, Holding
  <2>5. k = "JOIN_ACCEPTED" => u.joinAccepted
    BY <1>1 DEF Register, Record
  <2>6. Writes(c, t)
    <3>1. p \in Peers(u)
      BY <1>7, <2>1 DEF Peers, MaySpeak
    <3> QED BY <2>1, <2>3, <2>4, <2>5, <3>1 DEF Writes
  <2>7. Initiates(c, t) => Initiates(c, task[c])
    BY <1>1, <2>1, <2>3 DEF Initiates, Continues, Holding
  <2>8. /\ hist'[b].offers = hist[b].offers
        /\ \A z \in Session, y \in Binding : StoredAs(z, y)' = StoredAs(z, y)
    BY <1>1, <1>2 DEF OffersKept, StoredAs
  <2>9. ASSUME Initiates(c, t) PROVE InitiatorKnows(c, task[c])'
    <3>1. p = r.initiator /\ Initiates(c, task[c])
      BY <2>1, <2>7, <2>9 DEF Initiates
    <3>2. hist[b].offers # 0 => r.offerSent
      BY <1>1, <3>1 DEF InitiatorKnows
    <3>3. k = "OFFER" => hist[b].offers = 0
      BY <2>3, <3>2
    <3>4. ASSUME u.initiator # u.target, u.joinAccepted, StoredAs(s, b)
          PROVE  store[s].joinAccepted
      <4>1. r.joinAccepted
        BY <2>1, <2>3, <2>4, <3>1, <3>4
      <4> QED BY <1>1, <2>1, <3>1, <3>4, <4>1 DEF InitiatorKnows
    <3>5. hist[b].offers # 0 => u.offerSent
      BY <2>4, <3>2
    <3> QED BY <1>1, <2>1, <2>2, <2>8, <3>3, <3>4, <3>5 DEF InitiatorKnows, StoredAs
  <2>10. ASSUME TakesBack(c, t) PROVE NoneYet(c, task[c])'
    <3>1. p = r.target /\ r.target # r.initiator /\ ~ u.offerSent
      BY <2>1, <2>10 DEF TakesBack
    <3>2. k = "JOIN_ACCEPTED"
      BY <2>3, <2>4, <3>1
    <3>3. TakesBack(c, task[c])
      BY <1>1, <2>3, <3>1, <3>2 DEF TakesBack, Continues, Holding
    <3>4. ASSUME NEW e \in Conn, Initiates(e, task'[e]), AtWorkOn(task'[e]) = b
          PROVE  ~ task'[e].copy.joinAccepted
      <4>1. PresenceOf[e] = r.initiator
        BY <3>4 DEF Initiates, AtWorkOn, BindingOf
      <4>2. task'[e] = task[e]
        BY <2>2, <3>1, <4>1
      <4> QED BY <1>1, <3>3, <3>4, <4>2 DEF NoneYet
    <3> QED BY <1>1, <2>1, <2>2, <2>8, <3>3, <3>4 DEF NoneYet, StoredAs
  <2>11. ASSUME NEW e \in Conn, e # c, TakesBack(e, task[e]),
                Initiates(c, t), AtWorkOn(t) = AtWorkOn(task[e])
         PROVE  ~ u.joinAccepted
    <3>1. p = r.initiator /\ r.initiator # r.target /\ Initiates(c, task[c])
      BY <2>1, <2>7, <2>11 DEF Initiates, TakesBack, AtWorkOn, BindingOf
    <3>2. ~ r.joinAccepted /\ k # "JOIN_ACCEPTED"
      <4>1. NoneYet(e, task[e])
        BY DEF Offered
      <4> QED BY <1>1, <2>1, <2>3, <2>11, <3>1, <4>1 DEF NoneYet
    <3> QED BY <2>4, <3>2
  <2>12. InitiatorKnows(c, task[c])'
    BY <2>2, <2>9 DEF InitiatorKnows
  <2>13. NoneYet(c, task[c])'
    BY <2>2, <2>10 DEF NoneYet
  <2>14. Writes(c, task'[c])
    BY <2>2, <2>6
  <2>15. ASSUME NEW e \in Conn,
                /\ e # c /\ TakesBack(e, task[e]) /\ Initiates(c, task'[c])
                /\ AtWorkOn(task'[c]) = AtWorkOn(task[e])
         PROVE  ~ task'[c].copy.joinAccepted
    BY <2>1, <2>2, <2>11, <2>15
  <2> QED BY <1>1, <1>2, <2>2, <2>12, <2>13, <2>14, <2>15, OfferedMove
<1> QED BY <1>4, <1>5, <1>6, <1>7

\* A copy is written.
LEMMA PutOffered ==
  ASSUME ConnectsOnce, TypeOK, Offered, NEW c \in Conn, Put(c)
  PROVE  Offered'
<1> DEFINE r == task[c].copy
           k == task[c].msg.kind
           p == PresenceOf[c]
           s == task[c].msg.sid
           b == BindingOf(s, r)
           t == [task[c] EXCEPT !.at = "send", !.copy = NoSession,
                                !.ttl = 0, !.sent = 0]
<1>1. /\ task[c] \in Task /\ task[c].at = "put"
      /\ r \in Record /\ s \in Session /\ b \in Binding /\ AtWorkOn(task[c]) = b
      /\ Writes(c, task[c]) /\ InitiatorKnows(c, task[c]) /\ NoneYet(c, task[c])
  BY AtWork, TaskType DEF Put, AtWorkOn, Offered, Holding
<1>2. CASE Done(c) /\ UNCHANGED <<store, hist>>
  <2>1. task'[c] = Idle("loop") /\ \A d \in Conn : d # c => task'[d] = task[d]
    BY <1>2 DEF Done, TypeOK
  <2>2. UNCHANGED <<store, hist>>
    BY <1>2
  <2>3. ~ Continues(Idle("loop")) /\ Writes(c, Idle("loop")) /\ OffersKept
    BY <2>2, SameOffers DEF Continues, Writes, Holding
  <2> QED BY <2>1, <2>2, <2>3, OfferedQuiet
<1>3. CASE /\ Move(c, t) /\ store' = [store EXCEPT ![s] = r]
           /\ hist' = [hist EXCEPT ![b] = Recorded(@, k)]
  <2>1. /\ Move(c, t) /\ store' = [store EXCEPT ![s] = r]
        /\ hist' = [hist EXCEPT ![b] = Recorded(@, k)]
    BY <1>3
  <2>2. task'[c].at = "send" /\ \A d \in Conn : d # c => task'[d] = task[d]
    BY <1>1, <2>1 DEF TypeOK, Task
  <2>3. store'[s] = r /\ \A z \in Session : z # s => store'[z] = store[z]
    BY <1>1, <2>1 DEF TypeOK
  <2>4. \A x \in Binding : x # b => hist'[x] = hist[x]
    BY <2>1 DEF TypeOK
  <2>5. /\ k = "JOIN_REQUEST" => hist'[b].offers = 0
        /\ k = "OFFER" /\ hist[b].offers = 0 => hist'[b].offers = 1
        /\ k \notin {"JOIN_REQUEST", "OFFER"} => hist'[b].offers = hist[b].offers
    <3>1. hist[b] \in History /\ hist'[b] = Recorded(hist[b], k)
      BY <1>1, <2>1 DEF TypeOK
    <3> QED BY <3>1, RecordedOffers
  <2>6. /\ p \in {r.initiator, r.target}
        /\ k = "JOIN_REQUEST" => p = r.initiator /\ ~ r.joinAccepted
        /\ k # "JOIN_REQUEST" => r.joinAccepted /\ Continues(task[c])
        /\ k = "OFFER" => p = r.initiator /\ r.offerSent
    BY <1>1 DEF Writes, Peers, Continues, Holding
  <2>7. /\ k = "OFFER" => hist[b].offers = 0
        /\ k # "JOIN_REQUEST" /\ hist[b].offers # 0 => r.offerSent
    <3>1. CASE k # "JOIN_REQUEST" /\ p = r.initiator
      BY <1>1, <2>6, <3>1 DEF InitiatorKnows, Initiates
    <3>2. CASE k # "JOIN_REQUEST" /\ p # r.initiator
      BY <1>1, <2>6, <3>2 DEF NoneYet, TakesBack
    <3> QED BY <3>1, <3>2
  <2>8. ASSUME NEW x \in Binding PROVE hist'[x].offers <= 1
    <3>1. hist[x].offers <= 1
      BY DEF Offered
    <3> QED BY <2>4, <2>5, <2>7, <3>1
  <2>9. ASSUME NEW z \in Session, store'[z] # NoSession,
               hist'[BindingOf(z, store'[z])].offers # 0
        PROVE  store'[z].offerSent
    <3>1. CASE z = s
      BY <2>3, <2>5, <2>6, <2>7, <2>9, <3>1
    <3>2. CASE z # s
      <4>1. /\ store'[z] = store[z] /\ BindingOf(z, store[z]) # b
            /\ BindingOf(z, store[z]) \in Binding
        BY <2>3, <2>9, <3>2, BindingType DEF BindingOf, TypeOK
      <4> QED BY <2>4, <2>9, <4>1 DEF Offered
    <3> QED BY <3>1, <3>2
  <2>10. \A d \in Conn : Writes(d, task'[d])
    <3>1. Writes(c, task'[c])
      BY <2>2 DEF Writes
    <3> QED BY <2>2, <3>1 DEF Offered
  <2>11. \A d \in Conn : Continues(task'[d]) => d # c /\ task'[d] = task[d]
    BY <2>2 DEF Continues, Holding
  <2>12. ASSUME NEW z \in Session, NEW x \in Binding, x # b, StoredAs(z, x)'
         PROVE  StoredAs(z, x) /\ store'[z] = store[z]
    BY <2>3, <2>12 DEF StoredAs
  <2> HIDE DEF r, k, p, s, b, t
  <2>13. ASSUME NEW d \in Conn, Initiates(d, task'[d]) PROVE InitiatorKnows(d, task[d])'
    <3>1. /\ d # c /\ task'[d] = task[d] /\ InitiatorKnows(d, task[d])
          /\ task[d].msg.sid \in Session /\ AtWorkOn(task[d]) \in Binding
      BY <2>11, <2>13, AtWork DEF Initiates, Continues, Offered
    <3>2. CASE AtWorkOn(task[d]) = b
      <4>1. PresenceOf[d] = r.initiator /\ task[d].msg.sid = s
        BY <2>13, <3>1, <3>2 DEF Initiates, AtWorkOn, BindingOf, b
      <4>2. p # r.initiator
        BY <3>1, <4>1 DEF ConnectsOnce, p
      <4>3. r.joinAccepted /\ hist'[b].offers = hist[b].offers
        BY <2>5, <2>6, <4>2
      <4> QED BY <2>3, <2>13, <3>1, <3>2, <4>1, <4>3 DEF InitiatorKnows
    <3>3. CASE AtWorkOn(task[d]) # b
      <4>1. hist'[AtWorkOn(task[d])] = hist[AtWorkOn(task[d])]
        BY <2>4, <3>1, <3>3
      <4>2. StoredAs(task[d].msg.sid, AtWorkOn(task[d]))'
              => /\ StoredAs(task[d].msg.sid, AtWorkOn(task[d]))
                 /\ store'[task[d].msg.sid] = store[task[d].msg.sid]
        BY <2>12, <3>1, <3>3
      <4> QED BY <2>13, <3>1, <4>1, <4>2 DEF InitiatorKnows
    <3> QED BY <3>2, <3>3
  <2>14. ASSUME NEW d \in Conn, TakesBack(d, task'[d]) PROVE NoneYet(d, task[d])'
    <3>1. /\ d # c /\ task'[d] = task[d] /\ NoneYet(d, task[d])
          /\ task[d].msg.sid \in Session /\ AtWorkOn(task[d]) \in Binding
      BY <2>11, <2>14, AtWork DEF TakesBack, Continues, Offered
    <3>2. \A e \in Conn : Initiates(e, task'[e]) => e # c /\ task'[e] = task[e]
      BY <2>11 DEF Initiates
    <3>3. CASE AtWorkOn(task[d]) = b
      <4>1. /\ PresenceOf[d] = r.target /\ r.target # r.initiator
            /\ task[d].msg.sid = s
        BY <2>14, <3>1, <3>3 DEF TakesBack, AtWorkOn, BindingOf, b
      <4>2. p = r.initiator
        BY <2>6, <3>1, <4>1 DEF ConnectsOnce, p
      <4>3. k = "JOIN_REQUEST"
        <5>1. SUFFICES ASSUME k # "JOIN_REQUEST" PROVE FALSE
          OBVIOUS
        <5>2. Initiates(c, task[c]) /\ task[c].copy.joinAccepted
          BY <2>6, <4>2, <5>1 DEF Initiates, p, r
        <5> QED BY <1>1, <2>14, <3>1, <3>3, <5>2 DEF NoneYet, b
      <4>4. ASSUME NEW e \in Conn, Initiates(e, task'[e]), AtWorkOn(task'[e]) = b
            PROVE  FALSE
        <5>1. PresenceOf[e] = r.initiator
          BY <4>4 DEF Initiates, AtWorkOn, BindingOf, b
        <5> QED BY <3>2, <4>2, <4>4, <5>1 DEF ConnectsOnce, p
      <4> QED BY <2>3, <2>5, <2>6, <2>14, <3>1, <3>3, <4>1, <4>3, <4>4 DEF NoneYet
    <3>4. CASE AtWorkOn(task[d]) # b
      <4>1. hist'[AtWorkOn(task[d])] = hist[AtWorkOn(task[d])]
        BY <2>4, <3>1, <3>4
      <4>2. StoredAs(task[d].msg.sid, AtWorkOn(task[d]))'
              => /\ StoredAs(task[d].msg.sid, AtWorkOn(task[d]))
                 /\ store'[task[d].msg.sid] = store[task[d].msg.sid]
        BY <2>12, <3>1, <3>4
      <4> QED BY <2>14, <3>1, <3>2, <4>1, <4>2 DEF NoneYet
    <3> QED BY <3>3, <3>4
  <2>15. \A d \in Conn : InitiatorKnows(d, task[d])' /\ NoneYet(d, task[d])'
    BY <2>13, <2>14 DEF InitiatorKnows, NoneYet
  <2> QED BY <2>8, <2>9, <2>10, <2>15 DEF Offered
<1> QED BY <1>2, <1>3, Zenon DEF Put

LEMMA OfferedInvariant == ASSUME ConnectsOnce PROVE Spec => []Offered
<1>1. Init => Offered
  <2> SUFFICES ASSUME Init PROVE Offered
    OBVIOUS
  <2>1. /\ \A b \in Binding : hist[b].offers = 0
        /\ \A s \in Session : store[s] = NoSession
        /\ \A c \in Conn : task[c].at = "loop"
    BY DEF Init
  <2>2. ASSUME NEW c \in Conn
        PROVE  /\ Writes(c, task[c]) /\ ~ Initiates(c, task[c])
               /\ ~ TakesBack(c, task[c])
    BY <2>1 DEF Writes, Initiates, TakesBack, Continues, Holding
  <2> QED BY <2>1, <2>2 DEF Offered, InitiatorKnows, NoneYet
<1>2. TypeOK /\ AllSound /\ Offered /\ [Next]_vars => Offered'
  <2> SUFFICES ASSUME TypeOK, AllSound, Offered, [Next]_vars PROVE Offered'
    OBVIOUS
  <2>1. ASSUME NEW c \in Conn, NEW t, Move(c, t), UNCHANGED hist,
               \A s \in Session : store'[s] \in {store[s], NoSession},
               t.at \notin {"absent", "loaded", "host", "put"}
        PROVE  Offered'
    <3>1. task'[c] = t /\ \A d \in Conn : d # c => task'[d] = task[d]
      BY <2>1 DEF TypeOK
    <3>2. ~ Continues(t) /\ Writes(c, t) /\ OffersKept
      BY <2>1, SameOffers DEF Continues, Writes, Holding
    <3> QED BY <2>1, <3>1, <3>2, OfferedQuiet
  <2>2. ASSUME UNCHANGED hist,
               \A s \in Session : store'[s] \in {store[s], NoSession},
               \A d \in Conn : task'[d] = task[d] \/ task'[d] = Idle("gone")
        PROVE  Offered'
    <3>1. \A b \in Binding : hist'[b].offers <= 1
      BY <2>2 DEF Offered
    <3>2. \A s \in Session :
            /\ store'[s] # NoSession => store'[s] = store[s]
            /\ \A b \in Binding : StoredAs(s, b)' => StoredAs(s, b)
      BY <2>2 DEF StoredAs
    <3>3. ASSUME NEW s \in Session, store'[s] # NoSession,
                 hist'[BindingOf(s, store'[s])].offers # 0
          PROVE  store'[s].offerSent
      BY <2>2, <3>2, <3>3 DEF Offered
    <3>4. \A d \in Conn : Continues(task'[d]) => task'[d] = task[d]
      BY <2>2 DEF Continues, Holding
    <3>5. ASSUME NEW d \in Conn PROVE Writes(d, task'[d])
      BY <2>2 DEF Offered, Writes
    <3>6. ASSUME NEW d \in Conn, Initiates(d, task'[d]) PROVE InitiatorKnows(d, task[d])'
      <4>1. /\ task'[d] = task[d] /\ InitiatorKnows(d, task[d])
            /\ task[d].msg.sid \in Session /\ AtWorkOn(task[d]) \in Binding
        BY <3>4, <3>6, AtWork DEF Initiates, Continues, Offered
      <4>2. StoredAs(task[d].msg.sid, AtWorkOn(task[d]))'
              => /\ StoredAs(task[d].msg.sid, AtWorkOn(task[d]))
                 /\ store'[task[d].msg.sid] = store[task[d].msg.sid]
        BY <2>2, <4>1 DEF StoredAs
      <4> QED BY <2>2, <3>6, <4>1, <4>2 DEF InitiatorKnows
    <3>7. ASSUME NEW d \in Conn, TakesBack(d, task'[d]) PROVE NoneYet(d, task[d])'
      <4>1. /\ task'[d] = task[d] /\ NoneYet(d, task[d])
            /\ task[d].msg.sid \in Session /\ AtWorkOn(task[d]) \in Binding
        BY <3>4, <3>7, AtWork DEF TakesBack, Continues, Offered
      <4>2. \A e \in Conn : Initiates(e, task'[e]) => task'[e] = task[e]
        BY <3>4 DEF Initiates
      <4>3. StoredAs(task[d].msg.sid, AtWorkOn(task[d]))'
              => /\ StoredAs(task[d].msg.sid, AtWorkOn(task[d]))
                 /\ store'[task[d].msg.sid] = store[task[d].msg.sid]
        BY <2>2, <4>1 DEF StoredAs
      <4> QED BY <2>2, <3>7, <4>1, <4>2, <4>3 DEF NoneYet
    <3>8. \A d \in Conn : InitiatorKnows(d, task[d])' /\ NoneYet(d, task[d])'
      BY <3>6, <3>7 DEF InitiatorKnows, NoneYet
    <3> QED BY <3>1, <3>3, <3>5, <3>8 DEF Offered
  <2>3. ASSUME NEW c \in Conn,
               Break(c) \/ Unregister(c) \/ Sweep(c) \/ SweepDone(c) \/ DropRead(c)
        PROVE  Offered'
    <3> DEFINE sweep == [task[c] EXCEPT !.at = "sweeping", !.todo = index[PresenceOf[c]]]
               unlink == [task[c] EXCEPT !.at = "unlink", !.copy = store[task[c].sid]]
    <3>1. sweep.at = "sweeping" /\ unlink.at = "unlink"
      BY TaskType DEF Task
    <3>2. /\ UNCHANGED <<store, hist>>
          /\ \/ \E label \in {"leaving", "sweep", "gone"} : Move(c, Idle(label))
             \/ Move(c, sweep) \/ Move(c, unlink)
      BY <2>3 DEF Break, Unregister, Sweep, SweepDone, DropRead
    <3> HIDE DEF sweep, unlink
    <3> QED BY <2>1, <3>1, <3>2
  <2>4. ASSUME NEW c \in Conn, SweepNext(c) PROVE Offered'
    <3>1. PICK s \in task[c].todo :
            Move(c, [task[c] EXCEPT !.at = "drop", !.sid = s, !.then = "sweeping",
                                    !.todo = @ \ {s}])
      BY <2>4, Zenon DEF SweepNext
    <3> DEFINE t == [task[c] EXCEPT !.at = "drop", !.sid = s, !.then = "sweeping",
                                    !.todo = @ \ {s}]
    <3>2. t.at = "drop" /\ UNCHANGED <<store, hist>>
      BY <2>4, TaskType DEF SweepNext, Task
    <3> QED BY <2>1, <3>1, <3>2
  <2>5. ASSUME NEW c \in Conn, NEW j \in BOOLEAN, BeginCheck(c, j) PROVE Offered'
    <3> DEFINE r == NewSession(PresenceOf[c], task[c].msg.to, clock + SessionTtl)
               t == [task[c] EXCEPT !.at = "put", !.ttl = SessionTtl, !.sent = clock,
                                    !.copy = r]
    <3>1. UNCHANGED <<store, hist>> /\ (Done(c) \/ Move(c, t))
      BY <2>5 DEF BeginCheck
    <3>2. CASE Done(c)
      BY <2>1, <3>1, <3>2 DEF Done
    <3>3. CASE Move(c, t)
      <4>1. task[c].msg.kind = "JOIN_REQUEST"
        BY <2>5 DEF BeginCheck, Offered, Writes
      <4>2. t.at = "put" /\ t.msg = task[c].msg /\ t.copy = r
        BY TaskType DEF Task
      <4>3. r.initiator = PresenceOf[c] /\ ~ r.joinAccepted
        BY DEF NewSession
      <4>4. ~ Continues(t) /\ Writes(c, t) /\ OffersKept
        BY <3>1, <4>1, <4>2, <4>3, SameOffers DEF Continues, Writes, Peers
      <4>5. task'[c] = t /\ \A d \in Conn : d # c => task'[d] = task[d]
        BY <3>3 DEF TypeOK
      <4> HIDE DEF t
      <4> QED BY <3>1, <4>4, <4>5, OfferedQuiet
    <3> QED BY <3>1, <3>2, <3>3
  <2>6. ASSUME NEW c \in Conn, Send(c) PROVE Offered'
    <3> DEFINE t == [task[c] EXCEPT !.at = "drop", !.copy = NoSession,
                                    !.sid = task[c].msg.sid, !.then = "loop"]
    <3>1. t.at = "drop"
      BY TaskType DEF Task
    <3>2. UNCHANGED <<store, hist>> /\ (Move(c, Idle("loop")) \/ Move(c, t))
      BY <2>6 DEF Send, Done, Drop
    <3> HIDE DEF t
    <3> QED BY <2>1, <3>1, <3>2
  <2>7. ASSUME NEW c \in Conn, DropCommit(c) PROVE Offered'
    <3>1. UNCHANGED hist /\ \A s \in Session : store'[s] \in {store[s], NoSession}
      BY <2>7 DEF DropCommit, TypeOK
    <3> DEFINE t == [task[c] EXCEPT !.at = task[c].then, !.copy = NoSession,
                                    !.sid = NoSession]
    <3>2. t.at \in {"loop", "send", "sweeping"}
      BY TaskType DEF Task
    <3>3. Move(c, Idle("loop")) \/ Move(c, t)
      BY <2>7 DEF DropCommit, Done
    <3> HIDE DEF t
    <3> QED BY <2>1, <3>1, <3>2, <3>3
  <2>8. CASE Tick
    BY <2>2, <2>8 DEF Tick
  <2>9. CASE Crash
    <3>1. /\ UNCHANGED <<store, hist>>
          /\ \A d \in Conn : task'[d] = task[d] \/ task'[d] = Idle("gone")
      BY <2>9 DEF Crash
    <3> QED BY <2>2, <3>1
  <2>10. ASSUME NEW c \in Conn, Connect(c) PROVE Offered'
    BY <2>2, <2>10 DEF Connect
  <2>11. CASE UNCHANGED vars
    BY <2>2, <2>11 DEF vars
  <2> QED
    BY <2>3, <2>4, <2>5, <2>6, <2>7, <2>8, <2>9, <2>10, <2>11,
       ReceiveOffered, ContinueOffered, PutOffered, NextCases
<1> QED BY <1>1, <1>2, TypeCorrect, AllSoundInvariant, PTL DEF Spec

(* A session takes one OFFER, for any number of Presences that connect     *)
(* once, with crashes, expiry and ids used again: the host's handler may   *)
(* put back a copy it has read before the acceptance, but the initiator    *)
(* cannot have offered then (register_offer needs the acceptance).         *)
THEOREM SingleOfferHolds == ASSUME ConnectsOnce PROVE Spec => []SingleOffer
<1>1. Offered => SingleOffer
  BY DEF Offered, SingleOffer
<1> QED BY <1>1, OfferedInvariant, PTL
-----------------------------------------------------------------------------
(* Termination: what SMEMBERS answers is finite, and every step of a       *)
(* handler or a cleanup brings it nearer to its end.                       *)

Finite ==
  /\ \A p \in Presence : IsFiniteSet(index[p])
  /\ \A c \in Conn : IsFiniteSet(task[c].todo)
  /\ \A c \in Conn : task[c].at = "gone" => task[c] = Idle("gone")

\* A task keeps its list or drops it, or takes a part of a finite one.
LEMMA FiniteMove ==
  ASSUME TypeOK, Finite, NEW c \in Conn, NEW t, Move(c, t), IsFiniteSet(t.todo),
         t.at = "gone" => t = Idle("gone"),
         \A p \in Presence : IsFiniteSet(index'[p])
  PROVE  Finite'
BY DEF Finite, TypeOK

LEMMA SmallerIndex ==
  ASSUME Finite, \A p \in Presence : index'[p] \in SUBSET index[p]
  PROVE  \A p \in Presence : IsFiniteSet(index'[p])
BY FS_Subset DEF Finite

LEMMA IdleFinite == ASSUME NEW label PROVE IsFiniteSet(Idle(label).todo)
BY FS_EmptySet

\* What a step of c makes of its task: it leaves the loop, it comes to a later
\* stretch, it owes less for the ids it has, or it has taken one of them.
Leads(c, t) ==
  /\ t.at = "gone" => t = Idle("gone")
  /\ \/ At(c, "loop") /\ t.todo \in {task[c].todo, {}}
     \/ /\ Stretch(t) < Stretch(task[c])
        /\ t.todo \in {task[c].todo, {}, index[PresenceOf[c]]}
     \/ /\ Stretch(t) = Stretch(task[c])
        /\ Owed(t) < Owed(task[c])
        /\ t.todo \in {task[c].todo, {}}
     \/ /\ Stretch(t) = Stretch(task[c])
        /\ Owed(t) < Owed(task[c]) + 3
        /\ \E s \in task[c].todo : t.todo = task[c].todo \ {s}

LEMMA OwedType ==
  ASSUME NEW t
  PROVE  Owed(t) \in Nat /\ Stretch(t) \in Nat
<1>1. Owed(t) \in Nat
  BY DEF Owed
<1>2. Stretch(t) \in Nat
  BY DEF Stretch
<1> QED BY <1>1, <1>2

LEMMA LeadsNearer ==
  ASSUME TypeOK, Finite, NEW c \in Conn, NEW t, Leads(c, t)
  PROVE  IsFiniteSet(t.todo) /\ (At(c, "loop") \/ Nearer(t, task[c]))
<1> DEFINE n == Cardinality(task[c].todo)
<1>1. IsFiniteSet(task[c].todo) /\ IsFiniteSet(index[PresenceOf[c]])
  BY TaskType DEF Finite
<1>2. n \in Nat
  BY <1>1, FS_CardinalityType
<1>3. IsFiniteSet({}) /\ Cardinality({}) = 0
  BY FS_EmptySet
<1>4. \A s \in task[c].todo : /\ IsFiniteSet(task[c].todo \ {s})
                             /\ Cardinality(task[c].todo \ {s}) = n - 1
  BY <1>1, FS_RemoveElement
<1>5. /\ Owed(t) \in Nat /\ Owed(task[c]) \in Nat
      /\ Stretch(t) \in Nat /\ Stretch(task[c]) \in Nat
  BY OwedType
<1>6. CASE At(c, "loop") /\ t.todo \in {task[c].todo, {}}
  BY <1>1, <1>3, <1>6
<1>7. CASE /\ Stretch(t) < Stretch(task[c])
           /\ t.todo \in {task[c].todo, {}, index[PresenceOf[c]]}
  BY <1>1, <1>3, <1>7 DEF Nearer
<1>8. CASE /\ Stretch(t) = Stretch(task[c])
           /\ Owed(t) < Owed(task[c])
           /\ t.todo \in {task[c].todo, {}}
  <2>1. IsFiniteSet(t.todo)
    BY <1>1, <1>3, <1>8
  <2>2. Cardinality(t.todo) \in {n, 0}
    BY <1>3, <1>8
  <2>3. 3 * Cardinality(t.todo) + Owed(t) < 3 * n + Owed(task[c])
    BY <1>2, <1>5, <1>8, <2>2
  <2> QED BY <1>8, <2>1, <2>3 DEF Nearer, Steps
<1>9. CASE /\ Stretch(t) = Stretch(task[c])
           /\ Owed(t) < Owed(task[c]) + 3
           /\ \E s \in task[c].todo : t.todo = task[c].todo \ {s}
  <2>1. IsFiniteSet(t.todo) /\ Cardinality(t.todo) = n - 1
    BY <1>4, <1>9
  <2>2. 3 * Cardinality(t.todo) + Owed(t) < 3 * n + Owed(task[c])
    BY <1>2, <1>5, <1>9, <2>1
  <2> QED BY <1>9, <2>1, <2>2 DEF Nearer, Steps
<1> QED BY <1>6, <1>7, <1>8, <1>9, Zenon DEF Leads

LEMMA DropLeads ==
  ASSUME TypeOK, NEW c \in Conn, NEW label \in {"loop", "send"}, Drop(c, label),
         \/ task[c].at = "loaded"
         \/ task[c].at \in {"host", "send"} /\ label = "loop"
  PROVE  \E t : Move(c, t) /\ Leads(c, t)
<1> DEFINE t == [task[c] EXCEPT !.at = "drop", !.copy = NoSession,
                                !.sid = task[c].msg.sid, !.then = label]
<1>1. t.at = "drop" /\ t.then = label /\ t.todo = task[c].todo
  BY TaskType DEF Task
<1>2. Move(c, t)
  BY DEF Drop
<1> HIDE DEF t
<1>3. Stretch(t) = 0 /\ Stretch(task[c]) = 0
  BY <1>1 DEF Stretch
<1>4. Owed(t) < Owed(task[c])
  BY <1>1 DEF Owed
<1> QED BY <1>1, <1>2, <1>3, <1>4 DEF Leads

LEMMA DoneLeads ==
  ASSUME TypeOK, NEW c \in Conn, Done(c),
         \/ task[c].at \in {"absent", "loaded", "host", "put", "send"}
         \/ task[c].at = "unlink" /\ task[c].then = "loop"
  PROVE  \E t : Move(c, t) /\ Leads(c, t)
<1>1. Stretch(Idle("loop")) = 0 /\ Owed(Idle("loop")) = 0
  BY DEF Stretch, Owed
<1>2. Stretch(task[c]) = 0 /\ Owed(task[c]) > 0
  BY DEF Stretch, Owed
<1>3. Leads(c, Idle("loop"))
  BY <1>1, <1>2 DEF Leads
<1>4. Move(c, Idle("loop"))
  BY DEF Done
<1> QED BY <1>3, <1>4

\* A message that is followed by a deletion does not ask for the host.
LEMMA HostGoesOn ==
  ASSUME TypeOK, NEW c \in Conn, NEW j \in BOOLEAN, HostCheck(c, j)
  PROVE  Done(c) \/ Drop(c, "loop") \/ Move(c, Outgoing(c))
<1>1. task[c].msg.kind \notin Closing
  BY HostCases DEF TypeOK, InHand, NeedsHost, Closing
<1>2. RegisterMessage(c) => Done(c) \/ Move(c, Outgoing(c))
  BY <1>1, Zenon DEF RegisterMessage, Outgoing
<1> QED BY <1>2, Zenon DEF HostCheck

LEMMA StepLeads ==
  ASSUME TypeOK, NEW c \in Conn,
         \/ Break(c) \/ Handle(c)
         \/ \E m \in Message : Receive(c, m)
  PROVE  \E t : Move(c, t) /\ Leads(c, t)
<1>1. CASE Break(c)
  <2>1. At(c, "loop") /\ Move(c, Idle("leaving"))
    BY <1>1 DEF Break
  <2>2. Leads(c, Idle("leaving"))
    BY <2>1 DEF Leads
  <2> QED BY <2>1, <2>2
<1>2. ASSUME NEW m \in Message, Receive(c, m) PROVE \E t : Move(c, t) /\ Leads(c, t)
  <2> DEFINE t == [task[c] EXCEPT !.at = IF m.kind = "JOIN_REQUEST"
                                         THEN "absent" ELSE "loaded",
                                  !.msg = m, !.copy = store[m.sid]]
  <2>1. t.at # "gone" /\ t.todo = task[c].todo
    BY TaskType DEF Task
  <2>2. At(c, "loop") /\ Move(c, t)
    BY <1>2 DEF Receive
  <2> HIDE DEF t
  <2> QED BY <2>1, <2>2 DEF Leads
<1>3. ASSUME NEW j \in BOOLEAN, BeginCheck(c, j) PROVE \E t : Move(c, t) /\ Leads(c, t)
  <2> DEFINE r == NewSession(PresenceOf[c], task[c].msg.to, clock + SessionTtl)
             t == [task[c] EXCEPT !.at = "put", !.ttl = SessionTtl, !.sent = clock,
                                  !.copy = r]
  <2>1. t.at = "put" /\ t.todo = task[c].todo
    BY TaskType DEF Task
  <2>2. task[c].at = "absent" /\ (Move(c, t) \/ Done(c))
    BY <1>3 DEF BeginCheck
  <2> HIDE DEF t
  <2>3. /\ Stretch(t) = 0 /\ Owed(t) = 4
        /\ Stretch(task[c]) = 0 /\ Owed(task[c]) = 5
    BY <2>1, <2>2 DEF Stretch, Owed
  <2> QED BY <2>1, <2>2, <2>3, DoneLeads DEF Leads
<1>4. ASSUME NEW j \in BOOLEAN, ContinueCheck(c) \/ HostCheck(c, j)
      PROVE  \E t : Move(c, t) /\ Leads(c, t)
  <2>1. /\ task[c].at \in {"loaded", "host"}
        /\ \/ Done(c) \/ Drop(c, "loop")
           \/ task[c].at = "loaded" /\ Drop(c, "send")
           \/ task[c].at = "loaded" /\ Move(c, Looking(c))
           \/ Move(c, Outgoing(c))
    BY <1>4, ContinueCases, HostCases, HostGoesOn
  <2>2. /\ Looking(c).at = "host" /\ Looking(c).todo = task[c].todo
        /\ Outgoing(c).at = "put" /\ Outgoing(c).todo = task[c].todo
    BY TaskType DEF Looking, Outgoing, Task
  <2>3. /\ Stretch(task[c]) = 0 /\ Owed(task[c]) = (IF task[c].at = "loaded" THEN 6 ELSE 5)
        /\ Stretch(Looking(c)) = 0 /\ Owed(Looking(c)) = 5
        /\ Stretch(Outgoing(c)) = 0 /\ Owed(Outgoing(c)) = 4
    BY <2>1, <2>2 DEF Stretch, Owed
  <2>4. Leads(c, Outgoing(c)) /\ (task[c].at = "loaded" => Leads(c, Looking(c)))
    BY <2>1, <2>2, <2>3 DEF Leads
  <2>5. Done(c) \/ Drop(c, "loop") \/ (task[c].at = "loaded" /\ Drop(c, "send"))
          => \E t : Move(c, t) /\ Leads(c, t)
    BY <2>1, DoneLeads, DropLeads
  <2> QED BY <2>1, <2>4, <2>5, Zenon
<1>5. CASE Put(c)
  <2> DEFINE t == [task[c] EXCEPT !.at = "send", !.copy = NoSession,
                                  !.ttl = 0, !.sent = 0]
  <2>1. t.at = "send" /\ t.todo = task[c].todo
    BY TaskType DEF Task
  <2>2. task[c].at = "put" /\ (Move(c, t) \/ Done(c))
    BY <1>5 DEF Put
  <2> HIDE DEF t
  <2>3. /\ Stretch(t) = 0 /\ Owed(t) = 3
        /\ Stretch(task[c]) = 0 /\ Owed(task[c]) = 4
    BY <2>1, <2>2 DEF Stretch, Owed
  <2> QED BY <2>1, <2>2, <2>3, DoneLeads DEF Leads
<1>6. CASE Send(c)
  BY <1>6, DoneLeads, DropLeads DEF Send
<1>7. CASE DropRead(c)
  <2> DEFINE t == [task[c] EXCEPT !.at = "unlink", !.copy = store[task[c].sid]]
  <2>1. t.at = "unlink" /\ t.then = task[c].then /\ t.todo = task[c].todo
    BY TaskType DEF Task
  <2>2. task[c].at = "drop" /\ Move(c, t)
    BY <1>7 DEF DropRead
  <2> HIDE DEF t
  <2>3. Stretch(t) = Stretch(task[c])
    BY <2>1, <2>2 DEF Stretch
  <2>4. Owed(t) < Owed(task[c])
    BY <2>1, <2>2 DEF Owed
  <2> QED BY <2>1, <2>2, <2>3, <2>4 DEF Leads
<1>8. CASE DropCommit(c)
  <2> DEFINE t == [task[c] EXCEPT !.at = task[c].then, !.copy = NoSession,
                                  !.sid = NoSession]
  <2>1. t.at = task[c].then /\ t.then = task[c].then /\ t.todo = task[c].todo
    BY TaskType DEF Task
  <2>2. /\ task[c].at = "unlink" /\ task[c].then \in {"loop", "send", "sweeping"}
        /\ (task[c].then = "loop" /\ Done(c)) \/ (task[c].then # "loop" /\ Move(c, t))
    BY <1>8, TaskType DEF DropCommit, Task
  <2> HIDE DEF t
  <2>3. CASE task[c].then = "loop"
    BY <2>2, <2>3, DoneLeads
  <2>4. CASE task[c].then # "loop"
    <3>1. Stretch(t) = Stretch(task[c])
      BY <2>1, <2>2, <2>4 DEF Stretch
    <3>2. Owed(t) < Owed(task[c])
      BY <2>1, <2>2, <2>4 DEF Owed
    <3> QED BY <2>1, <2>2, <2>4, <3>1, <3>2 DEF Leads
  <2> QED BY <2>3, <2>4
<1>9. CASE Unregister(c)
  <2>1. task[c].at = "leaving" /\ Move(c, Idle("sweep"))
    BY <1>9 DEF Unregister
  <2>2. Stretch(Idle("sweep")) = 2 /\ Stretch(task[c]) = 3
    BY <2>1 DEF Stretch
  <2>3. Leads(c, Idle("sweep"))
    BY <2>2 DEF Leads
  <2> QED BY <2>1, <2>3
<1>10. CASE Sweep(c)
  <2> DEFINE t == [task[c] EXCEPT !.at = "sweeping", !.todo = index[PresenceOf[c]]]
  <2>1. t.at = "sweeping" /\ t.todo = index[PresenceOf[c]]
    BY TaskType DEF Task
  <2>2. task[c].at = "sweep" /\ Move(c, t)
    BY <1>10 DEF Sweep
  <2> HIDE DEF t
  <2>3. Stretch(t) = 1 /\ Stretch(task[c]) = 2
    BY <2>1, <2>2 DEF Stretch
  <2>4. Leads(c, t)
    BY <2>1, <2>3 DEF Leads
  <2> QED BY <2>2, <2>4
<1>11. CASE SweepNext(c)
  <2>1. PICK s \in task[c].todo :
          Move(c, [task[c] EXCEPT !.at = "drop", !.sid = s, !.then = "sweeping",
                                  !.todo = @ \ {s}])
    BY <1>11, Zenon DEF SweepNext
  <2> DEFINE t == [task[c] EXCEPT !.at = "drop", !.sid = s, !.then = "sweeping",
                                  !.todo = @ \ {s}]
  <2>2. t.at = "drop" /\ t.then = "sweeping" /\ t.todo = task[c].todo \ {s}
    BY TaskType DEF Task
  <2>3. task[c].at = "sweeping"
    BY <1>11 DEF SweepNext
  <2>4. Move(c, t)
    BY <2>1
  <2> HIDE DEF t
  <2>5. /\ Stretch(t) = 1 /\ Stretch(task[c]) = 1
        /\ Owed(t) = 2 /\ Owed(task[c]) = 0
    BY <2>2, <2>3 DEF Stretch, Owed
  <2>6. t.at # "gone" /\ Stretch(t) = Stretch(task[c]) /\ Owed(t) < Owed(task[c]) + 3
    BY <2>2, <2>5
  <2>7. Leads(c, t)
    BY <2>2, <2>6, Zenon DEF Leads
  <2> QED BY <2>4, <2>7
<1>12. CASE SweepDone(c)
  <2>1. task[c].at = "sweeping" /\ Move(c, Idle("gone"))
    BY <1>12 DEF SweepDone
  <2>2. Stretch(Idle("gone")) = 0 /\ Stretch(task[c]) = 1
    BY <2>1 DEF Stretch
  <2>3. Leads(c, Idle("gone"))
    BY <2>2 DEF Leads
  <2> QED BY <2>1, <2>3
<1> QED BY <1>1, <1>2, <1>3, <1>4, <1>5, <1>6, <1>7, <1>8, <1>9, <1>10, <1>11, <1>12,
           HandleCases

\* One command adds at most one id to an index.
LEMMA IndexGrowsByOne ==
  ASSUME TypeOK, [Next]_vars, NEW p \in Presence
  PROVE  \E s : index'[p] \in SUBSET (index[p] \cup {s})
<1>1. CASE index' = index
  BY <1>1
<1>2. ASSUME NEW c \in Conn, Put(c)
      PROVE  \E s : index'[p] \in SUBSET (index[p] \cup {s})
  <2>1. index'[p] \in {index[p] \cup {task[c].msg.sid}, index[p]}
    BY <1>2 DEF Put, Link
  <2> QED BY <2>1
<1>3. ASSUME NEW c \in Conn, DropCommit(c)
      PROVE  \E s : index'[p] \in SUBSET (index[p] \cup {s})
  <2>1. index'[p] \in {index[p] \ {task[c].sid}, index[p]}
    BY <1>3 DEF DropCommit
  <2> QED BY <2>1
<1>4. ASSUME NEW c \in Conn, SweepDone(c)
      PROVE  \E s : index'[p] \in SUBSET (index[p] \cup {s})
  <2>1. index'[p] \in {{}, index[p]}
    BY <1>4 DEF SweepDone, TypeOK
  <2> QED BY <2>1
<1>5. CASE Tick
  <2>1. index'[p] \in {{}, index[p]}
    BY <1>5 DEF Tick
  <2> QED BY <2>1
<1>6. ASSUME NEW c \in Conn,
             \/ Connect(c) \/ Break(c) \/ Send(c) \/ DropRead(c)
             \/ Unregister(c) \/ Sweep(c) \/ SweepNext(c)
      PROVE  index' = index
  BY <1>6 DEF Connect, Break, Send, DropRead, Unregister, Sweep, SweepNext
<1>7. ASSUME NEW c \in Conn, NEW j \in BOOLEAN,
             BeginCheck(c, j) \/ ContinueCheck(c) \/ HostCheck(c, j)
      PROVE  index' = index
  BY <1>7 DEF BeginCheck, ContinueCheck, HostCheck
<1>8. ASSUME NEW c \in Conn, NEW m \in Message, Receive(c, m)
      PROVE  index' = index
  BY <1>8 DEF Receive
<1>9. CASE Crash
  BY <1>1, <1>9 DEF Crash
<1>10. CASE UNCHANGED vars
  BY <1>1, <1>10 DEF vars
<1> QED BY <1>1, <1>2, <1>3, <1>4, <1>5, <1>6, <1>7, <1>8, <1>9, <1>10, NextCases

LEMMA IndexStaysFinite ==
  ASSUME TypeOK, Finite, [Next]_vars
  PROVE  \A p \in Presence : IsFiniteSet(index'[p])
<1> SUFFICES ASSUME NEW p \in Presence PROVE IsFiniteSet(index'[p])
  OBVIOUS
<1>1. PICK s : index'[p] \in SUBSET (index[p] \cup {s})
  BY IndexGrowsByOne
<1>2. IsFiniteSet(index[p] \cup {s})
  BY FS_AddElement DEF Finite
<1> QED BY <1>1, <1>2, FS_Subset

\* Who steps: one connection, whose task goes on; or no task moves, or all that
\* have begun are gone with the process.
LEMMA WhoSteps ==
  ASSUME TypeOK, [Next]_vars
  PROVE  \/ \E c \in Conn : \E t : Move(c, t) /\ Leads(c, t)
         \/ task' = task
         \/ Crash
<1>1. ASSUME NEW c \in Conn, Connect(c) PROVE task' = task
  BY <1>1 DEF Connect
<1>2. CASE Tick
  BY <1>2 DEF Tick
<1>3. CASE UNCHANGED vars
  BY <1>3 DEF vars
<1>4. CASE Next
  BY <1>1, <1>2, <1>4, StepLeads, Zenon DEF Next, Serve
<1> QED BY <1>3, <1>4

LEMMA FiniteInvariant == Spec => []Finite
<1>1. Init => Finite
  <2> SUFFICES ASSUME Init PROVE Finite
    OBVIOUS
  <2>1. /\ \A p \in Presence : index[p] = {}
        /\ \A c \in Conn : task[c].todo = {} /\ task[c].at = "loop"
    BY DEF Init
  <2> QED BY <2>1, FS_EmptySet DEF Finite
<1>2. TypeOK /\ Finite /\ [Next]_vars => Finite'
  <2> SUFFICES ASSUME TypeOK, Finite, [Next]_vars PROVE Finite'
    OBVIOUS
  <2>1. \A p \in Presence : IsFiniteSet(index'[p])
    BY IndexStaysFinite
  <2>2. ASSUME NEW c \in Conn, NEW t, Move(c, t), Leads(c, t) PROVE Finite'
    <3>1. t.at = "gone" => t = Idle("gone")
      BY <2>2 DEF Leads
    <3> QED BY <2>1, <2>2, <3>1, LeadsNearer, FiniteMove
  <2>3. CASE task' = task
    BY <2>1, <2>3 DEF Finite
  <2>4. CASE Crash
    <3>1. ASSUME NEW d \in Conn
          PROVE  /\ IsFiniteSet(task'[d].todo)
                 /\ task'[d].at = "gone" => task'[d] = Idle("gone")
      <4>1. task'[d] \in {task[d], Idle("gone")}
        BY <2>4 DEF Crash
      <4> QED BY <4>1, IdleFinite DEF Finite
    <3> QED BY <2>1, <3>1 DEF Finite
  <2> QED BY <2>2, <2>3, <2>4, WhoSteps
<1> QED BY <1>1, <1>2, TypeCorrect, PTL DEF Spec

(* Every step of a handler or a cleanup brings it nearer to its end, for   *)
(* any number of peers, whatever they write and wherever the server        *)
(* crashes: no session that goes away, is refused or comes back under the  *)
(* same id makes it begin anew.  (That the steps are taken is HandlerReturns *)
(* and CleanupEnds, under fairness.)                                       *)
THEOREM WorkShrinksHolds == Spec => WorkShrinks
<1>1. TypeOK /\ Finite /\ [Next]_vars
        => [\A c \in Conn :
              task'[c] # task[c] => At(c, "loop") \/ Nearer(task'[c], task[c])]_vars
  <2> SUFFICES ASSUME TypeOK, Finite, [Next]_vars, NEW d \in Conn, task'[d] # task[d]
               PROVE  At(d, "loop") \/ Nearer(task'[d], task[d])
    OBVIOUS
  <2>1. ASSUME NEW c \in Conn, NEW t, Move(c, t), Leads(c, t)
        PROVE  At(d, "loop") \/ Nearer(task'[d], task[d])
    <3>1. c = d /\ task'[d] = t
      BY <2>1 DEF TypeOK
    <3> QED BY <2>1, <3>1, LeadsNearer
  <2>2. CASE Crash
    <3>1. stage[d] # "waiting" /\ task'[d] = Idle("gone")
      BY <2>2 DEF Crash
    <3>2. task[d].at # "gone" /\ task[d].at \in Label /\ IsFiniteSet(task[d].todo)
      BY <3>1, TaskType DEF Finite, Task
    <3> DEFINE n == Cardinality(task[d].todo)
               t == Idle("gone")
    <3>3. n \in Nat /\ Cardinality(t.todo) = 0
      BY <3>2, FS_CardinalityType, FS_EmptySet
    <3>4. Stretch(t) = 0 /\ Owed(t) = 0
      BY DEF Stretch, Owed
    <3>5. CASE At(d, "loop")
      BY <3>5
    <3>6. CASE Stretch(task[d]) > 0
      BY <3>1, <3>4, <3>6 DEF Nearer
    <3>7. CASE Stretch(task[d]) = 0 /\ Owed(task[d]) > 0
      <4>1. Steps(t) < Steps(task[d])
        BY <3>3, <3>4, <3>7, OwedType DEF Steps
      <4> QED BY <3>1, <3>4, <3>7, <4>1 DEF Nearer
    <3>8. At(d, "loop") \/ Stretch(task[d]) > 0 \/ (Stretch(task[d]) = 0 /\ Owed(task[d]) > 0)
      BY <3>1, <3>2 DEF Stretch, Owed, Label
    <3> QED BY <3>5, <3>6, <3>7, <3>8
  <2> QED BY <2>1, <2>2, WhoSteps
<1> QED BY <1>1, TypeCorrect, FiniteInvariant, PTL DEF Spec, WorkShrinks
=============================================================================
