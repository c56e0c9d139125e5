--------------------------- MODULE SignalingRelay ---------------------------
(***************************************************************************)
(* The WebSocket tasks of the signaling service and the sessions they      *)
(* share in Redis.  Each connection runs serve_socket: it handles one text *)
(* at a time, and every Redis command it awaits is a step of its own, so   *)
(* the tasks of the two peers (and of a Presence that reconnects)          *)
(* interleave between the read of a session and the write of its copy.     *)
(* The connection registry is represented by what it answers: the          *)
(* registered connection of a Presence.  Time is counted in ticks; the     *)
(* times Redis is given are whole seconds of them, counted from the        *)
(* arrival of the command.                                                 *)
(***************************************************************************)
EXTENDS SignalingSession, Integers, FiniteSets

CONSTANTS
  Session,      (* session ids, chosen by the initiating clients           *)
  NoSession,    (* the absent value                                        *)
  Conn,         (* WebSocket connections, each used once                   *)
  NoConn,
  PresenceOf,   (* the Presence a connection has authenticated as          *)
  Second,       (* the ticks of a second                                   *)
  SessionTtl,   (* config.signaling_session_ttl                            *)
  IndexSlack,   (* what put_signaling_session adds to an index's EXPIRE    *)
  Guest,        (* bound: the Presences whose clients send JOIN_REQUEST    *)
  Host,         (* bound: the Presences that may be found joinable         *)
  Trickler,     (* bound: the Presences whose clients send candidates      *)
  MaxDelay,     (* bound: how long a write of a session is under way       *)
  MaxClock      (* bound: of the clock                                     *)

ASSUME RelayAssumption ==
  /\ NoConn \notin Conn
  /\ NoSession \notin Record
  /\ PresenceOf \in [Conn -> Presence]
  /\ Second \in Nat \ {0}
  /\ SessionTtl \in Nat \ {0}
  /\ MaxDelay \in Nat
  /\ IndexSlack \in Nat
  /\ MaxClock \in Nat

VARIABLES
  clock,
  store,        (* signaling-session:<id>, the value or NoSession          *)
  until,        (* when Redis drops that key                               *)
  index,        (* presence-signaling-sessions:<id>, a set of session ids  *)
  indexUntil,   (* when Redis drops the index                              *)
  unlisted,     (* what an index lost by lapsing before the session did    *)
  owner,        (* the registered connection of a Presence                 *)
  stage,        (* "waiting", "serving" or "over": the connection's stage  *)
  task,         (* where the task of a connection stands, and its locals   *)
  hist          (* what happened to a binding since its JOIN_REQUEST       *)

\* What a step of Redis may change; unlisted records, and nothing depends on it.
redis == <<store, until, index, indexUntil, unlisted>>
vars == <<clock, redis, owner, stage, task, hist>>

Message == [kind : Kind, sid : Session, to : Presence]
NoMessage == [kind |-> "none", sid |-> NoSession, to |-> NoSession]

Label == {"loop", "absent", "loaded", "host", "put", "send", "drop", "unlink",
          "leaving", "sweep", "sweeping", "gone"}

\* at: the next step; msg: the text in hand; copy: the session as last read;
\* ttl: what put_signaling_session is passed with it, sent: since when;
\* sid, then: what delete_signaling_session deletes and where it returns to;
\* todo: the ids SMEMBERS answered.
Task == [at : Label, msg : Message \cup {NoMessage}, copy : Record \cup {NoSession},
         ttl : Nat, sent : Nat, sid : Session \cup {NoSession}, then : {"loop", "send", "sweeping"},
         todo : SUBSET Session]

Idle(label) == [at |-> label, msg |-> NoMessage, copy |-> NoSession,
                ttl |-> 0, sent |-> 0, sid |-> NoSession, then |-> "loop", todo |-> {}]

\* What a handler holds at each of its steps.
InHand(t) ==
  /\ t.at \in {"absent", "loaded", "host", "put", "send"} => t.msg \in Message
  /\ t.at \in {"loaded", "host", "put"} => t.copy \in Record
  /\ t.at = "host" => t.msg.kind \in NeedsHost
  /\ t.at \in {"drop", "unlink"} => /\ t.sid \in Session
                                    /\ t.then = "send" => t.msg \in Message

\* What a session is bound to: its id, its initiator and its target.
Binding == Session \X Presence \X Presence
BindingOf(s, r) == <<s, r.initiator, r.target>>

\* begun: the time of the JOIN_REQUEST; consent: the target has once sent
\* JOIN_ACCEPTED; offers, answers: how many were registered (two stands for
\* more).
History == [begun : Nat, consent : BOOLEAN, offers : 0..2, answers : 0..2]

TypeOK ==
  /\ clock \in Nat
  /\ store \in [Session -> Record \cup {NoSession}]
  /\ until \in [Session -> Nat]
  /\ index \in [Presence -> SUBSET Session]
  /\ indexUntil \in [Presence -> Nat]
  /\ unlisted \in SUBSET (Presence \X Session)
  /\ owner \in [Presence -> Conn \cup {NoConn}]
  /\ stage \in [Conn -> {"waiting", "serving", "over"}]
  /\ task \in [Conn -> Task]
  /\ \A c \in Conn : InHand(task[c])
  /\ hist \in [Binding -> History]

Init ==
  /\ clock = 0
  /\ store = [s \in Session |-> NoSession]
  /\ until = [s \in Session |-> 0]
  /\ index = [p \in Presence |-> {}]
  /\ indexUntil = [p \in Presence |-> 0]
  /\ unlisted = {}
  /\ owner = [p \in Presence |-> NoConn]
  /\ stage = [c \in Conn |-> "waiting"]
  /\ task = [c \in Conn |-> Idle("loop")]
  /\ hist = [b \in Binding |-> [begun |-> 0, consent |-> FALSE, offers |-> 0,
                               answers |-> 0]]
-----------------------------------------------------------------------------
At(c, label) == stage[c] # "waiting" /\ task[c].at = label

Move(c, t) == task' = [task EXCEPT ![c] = t]

\* The handler is done with its text: forwarded, or answered with an error.
Done(c) == Move(c, Idle("loop"))

\* Call delete_signaling_session(sid), and go on at label.
Drop(c, label) ==
  Move(c, [task[c] EXCEPT !.at = "drop", !.copy = NoSession,
                          !.sid = task[c].msg.sid, !.then = label])
-----------------------------------------------------------------------------
(* Connections.                                                            *)

\* The upgraded socket registers; a connection of the Presence is replaced.
Connect(c) ==
  /\ stage[c] = "waiting"
  /\ stage' = [stage EXCEPT ![c] = "serving"]
  /\ owner' = [owner EXCEPT ![PresenceOf[c]] = c]
  /\ UNCHANGED <<clock, redis, task, hist>>

\* The loop ends: the peer is gone, a Close is received, the connection idles
\* out, or its token is no longer current.
Break(c) ==
  /\ At(c, "loop")
  /\ Move(c, Idle("leaving"))
  /\ UNCHANGED <<clock, redis, owner, stage, hist>>

Unregister(c) ==
  LET p == PresenceOf[c] IN
  /\ At(c, "leaving")
  /\ stage' = [stage EXCEPT ![c] = "over"]
  /\ owner' = [owner EXCEPT ![p] = IF @ = c THEN NoConn ELSE @]
  /\ Move(c, Idle("sweep"))
  /\ UNCHANGED <<clock, redis, hist>>

\* delete_signaling_sessions_for_presence: SMEMBERS ...
Sweep(c) ==
  /\ At(c, "sweep")
  /\ Move(c, [task[c] EXCEPT !.at = "sweeping", !.todo = index[PresenceOf[c]]])
  /\ UNCHANGED <<clock, redis, owner, stage, hist>>

\* ... delete_signaling_session for each ...
SweepNext(c) ==
  /\ At(c, "sweeping")
  /\ \E s \in task[c].todo :
       Move(c, [task[c] EXCEPT !.at = "drop", !.sid = s, !.then = "sweeping",
                               !.todo = @ \ {s}])
  /\ UNCHANGED <<clock, redis, owner, stage, hist>>

\* Faulty variant: it begins anew while the index has members.
SweepAgain(c) ==
  /\ At(c, "sweeping")
  /\ task[c].todo = {}
  /\ Move(c, Idle(IF index[PresenceOf[c]] = {} THEN "gone" ELSE "sweep"))
  /\ UNCHANGED <<clock, redis, owner, stage, hist>>

\* ... and DEL of the index, whatever was added to it in the meantime.
SweepDone(c) ==
  /\ At(c, "sweeping")
  /\ task[c].todo = {}
  /\ index' = [index EXCEPT ![PresenceOf[c]] = {}]
  /\ Move(c, Idle("gone"))
  /\ UNCHANGED <<clock, store, until, indexUntil, unlisted, owner, stage, hist>>
-----------------------------------------------------------------------------
(* handle_text.                                                            *)

\* begin_session needs an unused id, continue_session a session.
\* Faulty variant: the session that is not there is not missed.
AdmitsAny(m) == TRUE

Admits(m) == (store[m.sid] # NoSession) # (m.kind = "JOIN_REQUEST")

\* A text from a sender whose token is current, and the GET with which
\* begin_session and continue_session start.  (A text that is refused before
\* it touches a session, as invalid, too many, or not among friends, changes
\* nothing.)
Receive(c, m) ==
  LET joining == m.kind = "JOIN_REQUEST" IN
  /\ At(c, "loop")
  /\ joining => PresenceOf[c] \in Guest
  /\ m.kind = "ICE_CANDIDATE" => PresenceOf[c] \in Trickler
  /\ Admits(m)
  /\ Move(c, [task[c] EXCEPT !.at = IF joining THEN "absent" ELSE "loaded",
                             !.msg = m, !.copy = store[m.sid]])
  /\ UNCHANGED <<clock, redis, owner, stage, hist>>

\* begin_session: the target's Presence is read, the session is made up and goes
\* out with the whole of its time.  Presences are published, cleared and expire
\* at any time, so what is_joinable finds here and below is arbitrary for a
\* Presence of Host.
BeginCheck(c, joinable) ==
  LET t == task[c] IN
  /\ At(c, "absent")
  /\ joinable => t.msg.to \in Host
  /\ IF joinable
     THEN Move(c, [t EXCEPT !.at = "put", !.ttl = SessionTtl, !.sent = clock,
                            !.copy = NewSession(PresenceOf[c], t.msg.to, clock + SessionTtl)])
     ELSE Done(c)
  /\ UNCHANGED <<clock, redis, owner, stage, hist>>

\* A session whose time is over.
Outlived(r) == r.expiresAt <= clock

\* remaining_ttl, while there is any.
\* Faulty variant: every message renews the session.
RemainingWhole(r) == SessionTtl
Remaining(r) == r.expiresAt - clock

\* The message is registered: refused in this phase; or followed by a deletion;
\* or the session's time is over by now, an error; or the copy goes out with
\* the time it has left.
RegisterMessage(c) ==
  LET t == task[c]
      r == t.copy
      k == t.msg.kind
      p == PresenceOf[c]
      legal == PhaseAllows(r, k, p)
  IN
  \/ ~legal /\ Done(c)
  \/ legal /\ k \in Closing /\ Drop(c, "send")
  \/ legal /\ k \notin Closing /\ Outlived(r) /\ Done(c)
  \/ /\ legal /\ k \notin Closing /\ ~Outlived(r)
     /\ Move(c, [t EXCEPT !.at = "put", !.copy = Register(r, k, p),
                          !.ttl = Remaining(r), !.sent = clock])

\* continue_session with the session it was answered: the expiry check, the
\* checks of the sender; then either the host is looked at, or the message is
\* registered.
ContinueCheck(c) ==
  LET t == task[c]
      r == t.copy
      k == t.msg.kind
      p == PresenceOf[c]
      mayspeak == /\ p \in Peers(r)
                  /\ t.msg.to = Recipient(r, p)
                  /\ RoleAllows(r, k, p)
  IN
  /\ At(c, "loaded")
  /\ \/ Outlived(r) /\ Drop(c, "loop")
     \/ ~Outlived(r) /\ ~mayspeak /\ Done(c)
     \/ ~Outlived(r) /\ mayspeak /\ k \in NeedsHost /\ Move(c, [t EXCEPT !.at = "host"])
     \/ ~Outlived(r) /\ mayspeak /\ k \notin NeedsHost /\ RegisterMessage(c)
  /\ UNCHANGED <<clock, redis, owner, stage, hist>>

\* ensure_host_joinable: the host's Presence is read, and the session deleted if
\* it is not joinable.
HostCheck(c, joinable) ==
  LET t == task[c]
      accepted == /\ t.msg.kind = "JOIN_ACCEPTED"
                  /\ PresenceOf[c] = t.copy.target
                  /\ PhaseAllows(t.copy, t.msg.kind, PresenceOf[c])
  IN
  /\ At(c, "host")
  /\ joinable => t.copy.target \in Host
  /\ IF joinable THEN RegisterMessage(c) ELSE Drop(c, "loop")
  /\ hist' = IF joinable /\ accepted
             THEN [hist EXCEPT ![BindingOf(t.msg.sid, t.copy)].consent = TRUE]
             ELSE hist
  /\ UNCHANGED <<clock, redis, owner, stage>>

\* The history a written message leaves.
Recorded(h, kind) ==
  IF kind = "JOIN_REQUEST"
  THEN [h EXCEPT !.begun = clock, !.offers = 0, !.answers = 0]
  ELSE [h EXCEPT !.offers = IF kind = "OFFER" /\ @ < 2 THEN @ + 1 ELSE @,
                 !.answers = IF kind = "ANSWER" /\ @ < 2 THEN @ + 1 ELSE @]

\* as_secs.
Whole(ttl) == ttl - (ttl % Second)

\* The index half of put_signaling_session: SADD and EXPIRE for both peers.
Link(s, r, lasts) ==
  /\ index' = [p \in Presence |-> IF p \in Peers(r) THEN index[p] \cup {s} ELSE index[p]]
  /\ indexUntil' = [p \in Presence |->
                      IF p \in Peers(r) THEN clock + lasts + IndexSlack ELSE indexUntil[p]]

\* put_signaling_session: the copy is written, whatever is there by now, and
\* both indexes are extended.  SETEX refuses a time of no whole second, but the
\* commands that follow it in the MULTI are carried out all the same.
Put(c) ==
  LET t == task[c]
      r == t.copy
      s == t.msg.sid
      lasts == Whole(t.ttl)
  IN
  /\ At(c, "put")
  /\ Link(s, r, lasts)
  /\ \/ /\ lasts = 0
        /\ Done(c)
        /\ UNCHANGED <<store, until, unlisted, hist>>
     \/ /\ lasts > 0
        /\ store' = [store EXCEPT ![s] = r]
        /\ until' = [until EXCEPT ![s] = clock + lasts]
        /\ unlisted' = unlisted \ (Peers(r) \X {s})
        /\ hist' = [hist EXCEPT ![BindingOf(s, r)] = Recorded(@, t.msg.kind)]
        /\ Move(c, [t EXCEPT !.at = "send", !.copy = NoSession,
                             !.ttl = 0, !.sent = 0])
  /\ UNCHANGED <<clock, owner, stage>>

\* Faulty variants: nothing is deleted; the Presence is waited for.
SendOnly(c) ==
  At(c, "send") /\ Done(c) /\ UNCHANGED <<clock, redis, owner, stage, hist>>
SendPatiently(c) ==
  SendOnly(c) /\ owner[task[c].msg.to] # NoConn

\* Forwarding: lost when the Presence has no connection or its queue is full;
\* then the session is deleted.
Send(c) ==
  /\ At(c, "send")
  /\ \/ owner[task[c].msg.to] # NoConn /\ Done(c)
     \/ Drop(c, "loop")
  /\ UNCHANGED <<clock, redis, owner, stage, hist>>
-----------------------------------------------------------------------------
(* delete_signaling_session: a GET for the peers, then MULTI.              *)

DropRead(c) ==
  LET t == task[c] IN
  /\ At(c, "drop")
  /\ Move(c, [t EXCEPT !.at = "unlink", !.copy = store[t.sid]])
  /\ UNCHANGED <<clock, redis, owner, stage, hist>>

DropCommit(c) ==
  LET t == task[c]
      linked == IF t.copy = NoSession THEN {} ELSE Peers(t.copy)
  IN
  /\ At(c, "unlink")
  /\ store' = [store EXCEPT ![t.sid] = NoSession]
  /\ index' = [p \in Presence |-> IF p \in linked THEN index[p] \ {t.sid} ELSE index[p]]
  /\ IF t.then = "loop"
     THEN Done(c)
     ELSE Move(c, [t EXCEPT !.at = t.then, !.copy = NoSession, !.sid = NoSession])
  /\ UNCHANGED <<clock, until, indexUntil, unlisted, owner, stage, hist>>
-----------------------------------------------------------------------------
(* The surroundings.                                                       *)

\* A write that goes out arrives before MaxDelay ticks have passed since its
\* remaining time was computed.
Arriving(t) == t.at = "put" => clock < t.sent + MaxDelay

\* Redis drops what has outlived its time.
Tick ==
  LET dropped == {p \in Presence : indexUntil[p] <= clock + 1} IN
  /\ clock < MaxClock
  /\ \A c \in Conn : Arriving(task[c])
  /\ clock' = clock + 1
  /\ store' = [s \in Session |-> IF until[s] <= clock + 1 THEN NoSession ELSE store[s]]
  /\ index' = [p \in Presence |-> IF p \in dropped THEN {} ELSE index[p]]
  /\ unlisted' = unlisted \cup {e \in dropped \X Session :
                                  e[2] \in index[e[1]] /\ store'[e[2]] # NoSession}
  /\ UNCHANGED <<until, indexUntil, owner, stage, task, hist>>

\* The server process dies: no cleanup runs, Redis keeps everything.
Crash ==
  /\ \E c \in Conn : stage[c] = "serving"
  /\ stage' = [c \in Conn |-> IF stage[c] = "waiting" THEN "waiting" ELSE "over"]
  /\ owner' = [p \in Presence |-> NoConn]
  /\ task' = [c \in Conn |-> IF stage[c] = "waiting" THEN task[c] ELSE Idle("gone")]
  /\ UNCHANGED <<clock, redis, hist>>

\* What a task owes once it has begun it.
Handle(c) ==
  \/ Put(c) \/ Send(c)
  \/ ContinueCheck(c)
  \/ \E joinable \in BOOLEAN : BeginCheck(c, joinable) \/ HostCheck(c, joinable)
  \/ DropRead(c) \/ DropCommit(c)
  \/ Unregister(c) \/ Sweep(c) \/ SweepNext(c) \/ SweepDone(c)

Serve ==
  \/ \E c \in Conn : Connect(c) \/ Break(c) \/ Handle(c)
  \/ \E c \in Conn, m \in Message : Receive(c, m)
  \/ Tick

Next == Serve \/ Crash

(***************************************************************************)
(* ServeSpec is a server that stays up, Spec one that may crash.  A task   *)
(* that is handling a text or cleaning up is polled again, and Redis       *)
(* answers; nobody owes a text, a disconnect or the passing of time.       *)
(***************************************************************************)
ServeSpec == Init /\ [][Serve]_vars
Spec == Init /\ [][Next]_vars
LiveSpec == ServeSpec /\ \A c \in Conn : WF_vars(Handle(c))
-----------------------------------------------------------------------------
(* Properties.                                                             *)

(* Safety: whatever the peers' handlers overwrite, a stored session is one *)
(* the register_* methods could have produced: an ANSWER only with an      *)
(* OFFER, an OFFER only with a JOIN_ACCEPTED, candidates only after the    *)
(* OFFER and never more than the limit.                                    *)
StoredWellFormed == \A s \in Session : store[s] # NoSession => WellFormed(store[s])

(* Safety: no lost update, crash or reuse of an id lets an initiator       *)
(* negotiate with a host that never accepted this very binding.            *)
HostConsents ==
  \A s \in Session :
    store[s] # NoSession /\ store[s].joinAccepted =>
      hist[BindingOf(s, store[s])].consent

(* Safety: traffic does not keep a session alive.  However often it is     *)
(* written back, with a time of whole seconds that Redis counts from the   *)
(* arrival of the write, Redis has dropped it SessionTtl after the         *)
(* JOIN_REQUEST, plus the delay of one write; and no write makes Redis     *)
(* drop it a whole second before the session's own time is over.           *)
NoOverstay ==
  \A s \in Session :
    store[s] # NoSession =>
      /\ clock < hist[BindingOf(s, store[s])].begun + SessionTtl + MaxDelay
      /\ until[s] > store[s].expiresAt - Second

\* Every connection the Presence has had is cleaned up after.
Away(p) ==
  /\ \E c \in Conn : PresenceOf[c] = p /\ At(c, "gone")
  /\ \A c \in Conn : PresenceOf[c] = p => stage[c] = "waiting" \/ At(c, "gone")

\* A handler is about to find out that it cannot forward, or is deleting s.
Settling(s) ==
  \E c \in Conn : /\ stage[c] # "waiting"
                  /\ task[c].at \in {"send", "drop", "unlink"}
                  /\ s \in {task[c].msg.sid, task[c].sid}

(* Safety: disconnecting deletes every session of the Presence, those      *)
(* excepted that its index has lost by lapsing before them (a write of a   *)
(* session with less time left shortens the index for the others too).  A  *)
(* session that a peer's handler writes (or writes back) while the cleanup *)
(* runs escapes the SMEMBERS, but the forwarding that follows finds the    *)
(* Presence unregistered and deletes it: unregister comes before the       *)
(* cleanup, and send after the write.                                      *)
DisconnectDeletes ==
  \A s \in Session :
    store[s] # NoSession =>
      \A p \in Peers(store[s]) :
        Away(p) => Settling(s) \/ <<p, s>> \in unlisted

(* Safety: a session takes one OFFER, even against concurrent writes of    *)
(* the host's handler: what the host can overwrite lies before the OFFER.  *)
SingleOffer == \A b \in Binding : hist[b].offers <= 1

(* Safety, as documented: one ANSWER per session.                          *)
SingleAnswer == \A b \in Binding : hist[b].answers <= 1

\* How far a task is from its loop or its end: the stretch it is in (a cleanup
\* before its SMEMBERS, and over the ids it was answered) and the steps it owes
\* there at most, three for each id that is left.
Stretch(t) ==
  CASE t.at = "leaving" -> 3
    [] t.at = "sweep" -> 2
    [] t.at = "sweeping" \/ (t.at \in {"drop", "unlink"} /\ t.then = "sweeping") -> 1
    [] OTHER -> 0
Owed(t) ==
  CASE t.at = "loaded" -> 6
    [] t.at \in {"absent", "host"} -> 5
    [] t.at = "put" -> 4
    [] t.at = "send" -> 3
    [] t.at = "drop" -> IF t.then = "send" THEN 5 ELSE 2
    [] t.at = "unlink" -> IF t.then = "send" THEN 4 ELSE 1
    [] OTHER -> 0
Steps(t) == 3 * Cardinality(t.todo) + Owed(t)

Nearer(u, t) ==
  \/ Stretch(u) < Stretch(t)
  \/ /\ Stretch(u) = Stretch(t)
     /\ Steps(u) < Steps(t)

(* Action property: a handler that has begun with a text takes six steps   *)
(* at most (none is taken back or begun anew, however often the session is *)
(* gone, refused, or deleted on the way), and a cleanup three for each id  *)
(* SMEMBERS answered: what peers add to the index meanwhile is no work of  *)
(* its.  Nobody's step is undone by another's.                             *)
WorkShrinks ==
  [][\A c \in Conn :
       task'[c] # task[c] => At(c, "loop") \/ Nearer(task'[c], task[c])]_vars

(* Liveness: a handler comes back to its loop and a cleanup comes to its   *)
(* end, whatever the peers go on sending.                                  *)
HandlerReturns ==
  \A c \in Conn :
    (At(c, "absent") \/ At(c, "loaded")) ~> At(c, "loop")
CleanupEnds == \A c \in Conn : At(c, "leaving") ~> At(c, "gone")
=============================================================================
