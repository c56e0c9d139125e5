-------------------------- MODULE FriendProjection --------------------------
(***************************************************************************)
(* The projection of the official Minecraft friends into PostgreSQL.       *)
(* Every request asks the official service, on behalf of its caller, for   *)
(* or for a change of the caller's relationships, and replaces the         *)
(* caller's rows of friendships and friend_requests by the answer, in one  *)
(* transaction at READ COMMITTED.  Requests of all profiles, on any number *)
(* of servers, interleave at every statement; a statement that meets a row *)
(* another transaction wrote waits for it to end.                          *)
(***************************************************************************)
EXTENDS Integers, FiniteSets

CONSTANTS
  Profile,
  Client,     (* bound: the profiles that call this server                 *)
  Pair,       (* bound: the pairs of profiles that deal with each other    *)
  Abroad,     (* bound: the pairs whose relationship other clients change  *)
  Task,       (* bound: requests served at a time                          *)
  NoOne,      (* who asked for a friendship: nobody                        *)
  NoRow

(* A relationship, official or stored: of a normalised pair of profiles,   *)
(* a friendship or the request of one of the two.  What is official and    *)
(* what is stored are sets of them.                                        *)
Row == {r \in [pair : Pair, from : Profile \cup {NoOne}] :
          r.from \in r.pair \cup {NoOne}}

ASSUME FriendsAssumption ==
  /\ \A q \in Pair : \E a, b \in Profile : a # b /\ q = {a, b}
  /\ Client \subseteq Profile /\ Abroad \subseteq Pair
  /\ NoOne \notin Profile
  /\ NoRow \notin Row

VARIABLES
  official,   (* the relationships the official service knows              *)
  table,      (* the rows that are committed                               *)
  task,       (* where a request stands, and its locals                    *)
  deleted, added, held,  (* the rows its transaction wrote                 *)
  missed      (* the pairs others committed to since it asked (a ghost)    *)

written == <<deleted, added, held>>
vars == <<official, table, task, written, missed>>

Label == {"idle", "deleteRequests", "visitRequests", "deleteFriends",
          "visitFriends", "insert", "commit", "readFriends", "readIncoming",
          "readOutgoing", "answer"}
InTransaction == {"deleteRequests", "visitRequests", "deleteFriends",
                  "visitFriends", "insert", "commit"}

\* who: the caller; answers: whether it answers with what is stored; snap: the
\* relationships of the caller in the official answer; todo: the rows that the
\* statements at hand have still to visit, and next the one it visits or waits
\* for; shown: the rows its answer has collected.
Locals ==
  {l \in [at : Label, who : Profile \cup {NoOne}, answers : BOOLEAN,
          snap : SUBSET Row, todo : SUBSET Row, next : Row \cup {NoRow},
          shown : SUBSET Row] :
     /\ l.at # "idle" => l.who \in Profile
     /\ l.at \in {"visitRequests", "visitFriends", "insert"} => l.next \in Row
     /\ l.at = "insert" => l.next \in l.todo}

Idle == [at |-> "idle", who |-> NoOne, answers |-> FALSE, snap |-> {},
         todo |-> {}, next |-> NoRow, shown |-> {}]

TypeOK ==
  /\ official \subseteq Row
  /\ table \subseteq Row
  /\ task \in [Task -> Locals]
  /\ deleted \in [Task -> SUBSET Row]
  /\ added \in [Task -> SUBSET Row]
  /\ held \in [Task -> SUBSET Row]
  /\ missed \in [Task -> SUBSET Pair]

Init ==
  /\ official = {}
  /\ table = {}
  /\ task = [t \in Task |-> Idle]
  /\ deleted = [t \in Task |-> {}]
  /\ added = [t \in Task |-> {}]
  /\ held = [t \in Task |-> {}]
  /\ missed = [t \in Task |-> {}]
-----------------------------------------------------------------------------
(* Rows and locks.                                                         *)

IsFriendship(r) == r.from = NoOne
Of(p, rows) == {r \in rows : p \in r.pair}
OfPair(q, rows) == {r \in rows : r.pair = q}
Requests(rows) == {r \in rows : ~ IsFriendship(r)}
Friends(rows) == {r \in rows : IsFriendship(r)}
Incoming(p, rows) == {r \in Requests(rows) : r.from # p}
Outgoing(p, rows) == {r \in Requests(rows) : r.from = p}

At(t, label) == task[t].at = label
Caller(t) == task[t].who
Wrote(t) == deleted[t] \cup added[t] \cup held[t]

\* What the transaction of t reads.
View(t) == (table \ deleted[t]) \cup added[t]

\* Faulty variant: the primary key of friend_requests alone.
SamePrimaryKey(r, s) == r = s

\* The primary key of friendships, and the unique index of friend_requests
\* over its unordered pair.
SameKey(r, s) == r.pair = s.pair /\ (IsFriendship(r) <=> IsFriendship(s))

Visiting(t) == At(t, "visitRequests") \/ At(t, "visitFriends")

\* A DELETE waits for whoever wrote the row, an INSERT for whoever wrote one
\* that has its key, deleted ones included.
Blocks(u, t) ==
  /\ u # t
  /\ \/ Visiting(t) /\ task[t].next \in Wrote(u)
     \/ At(t, "insert") /\ \E s \in Wrote(u) : SameKey(s, task[t].next)

Free(t) == \A u \in Task : ~ Blocks(u, t)

\* The lists of an answer are written one after the other, each in its order.
Foremost(p, rows) ==
  IF Friends(rows) # {} THEN Friends(rows)
  ELSE IF Incoming(p, rows) # {} THEN Incoming(p, rows) ELSE rows

\* The task is left with rows to visit, and turns to one of the first of them.
Visit(t, label, rows, first) ==
  \E r \in IF first = {} THEN {NoRow} ELSE first :
    task' = [task EXCEPT ![t] =
               [task[t] EXCEPT !.at = label, !.todo = rows, !.next = r]]

Goto(t, label) == task' = [task EXCEPT ![t].at = label]

Release(t) ==
  /\ deleted' = [deleted EXCEPT ![t] = {}]
  /\ added' = [added EXCEPT ![t] = {}]
  /\ held' = [held EXCEPT ![t] = {}]

\* Faulty variant: a connection returns to the pool with its transaction open.
EndOpen(t) ==
  /\ task' = [task EXCEPT ![t] = Idle]
  /\ missed' = [missed EXCEPT ![t] = {}]
  /\ UNCHANGED <<official, table, written>>

\* The request ends; what its transaction wrote and did not commit is undone.
End(t) ==
  /\ task' = [task EXCEPT ![t] = Idle]
  /\ missed' = [missed EXCEPT ![t] = {}]
  /\ Release(t)
  /\ UNCHANGED <<official, table>>
-----------------------------------------------------------------------------
(* The official service.                                                   *)

Relate(q, r) == official' = (official \ OfPair(q, official)) \cup r

\* What it makes of ADD: a request, a friendship when the other has asked, or
\* nothing, when the settings of the other forbid it.
AddedTo(q, p) ==
  LET old == OfPair(q, official)
  IN  {old, IF old = {} THEN {[pair |-> q, from |-> p]}
            ELSE IF Incoming(p, old) # {} THEN {[pair |-> q, from |-> NoOne]}
            ELSE old}

\* What other clients change, and requests whose answer does not arrive.
Elsewhere ==
  /\ \E q \in Abroad : \E r \in {{}} \cup {{s} : s \in OfPair(q, Row)} : Relate(q, r)
  /\ UNCHANGED <<table, task, written, missed>>
-----------------------------------------------------------------------------
(* The handlers, up to the official answer.                                *)

\* The official answer: the relationships of the caller as they are by then.
Fetched(p) == Of(p, official')

\* It arrives: synchronize_official_snapshot begins.
Begin(t, p, answers) ==
  /\ task' = [task EXCEPT ![t] =
                [Idle EXCEPT !.at = "deleteRequests", !.who = p,
                   !.answers = answers, !.snap = Fetched(p)]]
  /\ UNCHANGED <<table, written, missed>>

\* GET /friends.
Snapshot(t, p) ==
  /\ At(t, "idle")
  /\ UNCHANGED official
  /\ Begin(t, p, TRUE)

\* A new instance does as much, and shows nothing.
SynchronizeFriends(t, p) ==
  /\ At(t, "idle")
  /\ UNCHANGED official
  /\ Begin(t, p, FALSE)

\* What relationship_for_name finds: accepted, or requested by the caller.
Relationship(p, rows) == Friends(rows) \cup Outgoing(p, rows)

\* POST /friends/requests.  An answer without a relationship is an error, and
\* is not written.
AddRequest(t, p, q) ==
  /\ At(t, "idle") /\ p \in q
  /\ \E r \in AddedTo(q, p) : Relate(q, r)
  /\ LET now == OfPair(q, official')
     IN  IF Relationship(p, now) # {}
           THEN Begin(t, p, FALSE)
           ELSE UNCHANGED <<table, task, written, missed>>

\* POST /friends/requests/{id}/accept.  Without the friendship likewise.
AcceptRequest(t, p, q) ==
  /\ At(t, "idle") /\ p \in q
  /\ \E r \in AddedTo(q, p) : Relate(q, r)
  /\ IF Friends(OfPair(q, official')) # {}
       THEN Begin(t, p, FALSE)
       ELSE UNCHANGED <<table, task, written, missed>>

\* DELETE /friends/requests/{id} and DELETE /friends/{id}.
RemoveFriend(t, p, q) ==
  /\ At(t, "idle") /\ p \in q
  /\ Relate(q, {})
  /\ Begin(t, p, FALSE)
-----------------------------------------------------------------------------
(* replace_with_official_snapshot.                                         *)

\* Faulty variant: only WHERE requester_profile_id = $1.
DeleteOutgoing(t) ==
  /\ At(t, "deleteRequests")
  /\ LET rows == Outgoing(Caller(t), table)
     IN  Visit(t, IF rows = {} THEN "deleteFriends" ELSE "visitRequests", rows, rows)
  /\ UNCHANGED <<official, table, written, missed>>

\* A DELETE visits the committed rows of the caller that it finds as it starts.
DeleteRequests(t) ==
  /\ At(t, "deleteRequests")
  /\ LET rows == Of(Caller(t), Requests(table))
     IN  Visit(t, IF rows = {} THEN "deleteFriends" ELSE "visitRequests", rows, rows)
  /\ UNCHANGED <<official, table, written, missed>>

\* Faulty variant: an empty answer inserts the absent row.
VisitNothing(t, rows) == Visit(t, "insert", rows, Foremost(Caller(t), rows))

\* The INSERTs follow the last DELETE.
VisitAnswer(t, rows) ==
  Visit(t, IF rows = {} THEN "commit" ELSE "insert", rows, Foremost(Caller(t), rows))

DeleteFriends(t) ==
  /\ At(t, "deleteFriends")
  /\ LET rows == Of(Caller(t), Friends(table))
     IN  IF rows = {} THEN VisitAnswer(t, task[t].snap)
                      ELSE Visit(t, "visitFriends", rows, rows)
  /\ UNCHANGED <<official, table, written, missed>>

\* Faulty variant: the statement runs on the pool, not in the transaction.
DeleteRowAtOnce(t) ==
  /\ Visiting(t)
  /\ Free(t)
  /\ LET left == task[t].todo \ {task[t].next}
     IN  IF left # {} THEN Visit(t, task[t].at, left, left)
         ELSE IF At(t, "visitRequests") THEN Visit(t, "deleteFriends", {}, {})
         ELSE VisitAnswer(t, task[t].snap)
  /\ table' = table \ {task[t].next}
  /\ UNCHANGED <<official, written, missed>>

\* The statement deletes the row, unless the transaction it waited for did.
DeleteRow(t) ==
  /\ Visiting(t)
  /\ Free(t)
  /\ LET left == task[t].todo \ {task[t].next}
     IN  IF left # {} THEN Visit(t, task[t].at, left, left)
         ELSE IF At(t, "visitRequests") THEN Visit(t, "deleteFriends", {}, {})
         ELSE VisitAnswer(t, task[t].snap)
  /\ deleted' = [deleted EXCEPT ![t] = @ \cup (task[t].todo \cap {task[t].next})]
  /\ UNCHANGED <<official, table, added, held, missed>>

\* The rows that the unique keys set against the next one.
Rivals(t) == {s \in View(t) : SameKey(s, task[t].next)} \ {task[t].next}

\* INSERT ... ON CONFLICT DO UPDATE: a row that is there is updated.
InsertRow(t) ==
  /\ At(t, "insert")
  /\ Free(t)
  /\ Rivals(t) = {}
  /\ VisitAnswer(t, task[t].todo \ {task[t].next})
  /\ IF task[t].next \in View(t)
       THEN held' = [held EXCEPT ![t] = @ \cup {task[t].next}] /\ UNCHANGED added
       ELSE added' = [added EXCEPT ![t] = @ \cup {task[t].next}] /\ UNCHANGED held
  /\ UNCHANGED <<official, table, deleted, missed>>

\* Faulty variant: the transaction is begun again.
ViolationRetried(t) ==
  /\ At(t, "insert")
  /\ Free(t)
  /\ Rivals(t) # {}
  /\ Visit(t, "deleteRequests", {}, {})
  /\ Release(t)
  /\ UNCHANGED <<official, table, missed>>

\* ON CONFLICT does not name the index that a request the other way round
\* violates: the statement fails.
Violation(t) ==
  /\ At(t, "insert")
  /\ Free(t)
  /\ Rivals(t) # {}
  /\ End(t)

\* The commit of t becomes visible: rows it deleted are gone for those who
\* wait to delete them.
Commit(t) ==
  /\ At(t, "commit")
  /\ table' = View(t)
  /\ task' = [u \in Task |->
       IF u = t
         THEN IF task[t].answers THEN [task[t] EXCEPT !.at = "readFriends"] ELSE Idle
         ELSE IF Visiting(u) THEN [task[u] EXCEPT !.todo = @ \ deleted[t]] ELSE task[u]]
  /\ missed' = [u \in Task |->
       IF u = t THEN IF task[t].answers THEN missed[t] ELSE {}
       ELSE IF At(u, "idle") THEN missed[u]
       ELSE missed[u] \cup {r.pair : r \in deleted[t] \cup added[t]}]
  /\ Release(t)
  /\ UNCHANGED official

\* A statement fails, or the request is dropped: the transaction rolls back.
Abort(t) == ~ At(t, "idle") /\ End(t)

\* Transactions that wait for each other: PostgreSQL makes one of them fail.
Deadlock(t) ==
  /\ \E S \in SUBSET Task :
       t \in S /\ \A u \in S : \E v \in S : Blocks(v, u)
  /\ End(t)
-----------------------------------------------------------------------------
(* FriendRepository::snapshot: three SELECTs, each of what is committed.   *)

Read(t, label, rows) ==
  /\ task' = [task EXCEPT ![t] = [task[t] EXCEPT !.at = label,
                                                !.shown = task[t].shown \cup rows]]
  /\ UNCHANGED <<official, table, written, missed>>

ReadFriends(t) ==
  At(t, "readFriends") /\ Read(t, "readIncoming", Of(Caller(t), Friends(table)))

\* Faulty variant: the column of the other end.
ReadRequested(t) ==
  At(t, "readIncoming") /\ Read(t, "readOutgoing", Outgoing(Caller(t), table))

ReadIncoming(t) ==
  /\ At(t, "readIncoming")
  /\ Read(t, "readOutgoing", Incoming(Caller(t), Of(Caller(t), table)))

ReadOutgoing(t) ==
  At(t, "readOutgoing") /\ Read(t, "answer", Outgoing(Caller(t), table))

Answer(t) == At(t, "answer") /\ End(t)
-----------------------------------------------------------------------------
Handle(t) ==
  \E p \in Client :
    \/ Snapshot(t, p) \/ SynchronizeFriends(t, p)
    \/ \E q \in Pair : AddRequest(t, p, q) \/ AcceptRequest(t, p, q) \/ RemoveFriend(t, p, q)

\* Steps that wait for nobody.
Proceed(t) ==
  \/ DeleteRequests(t) \/ DeleteFriends(t) \/ Commit(t)
  \/ ReadFriends(t) \/ ReadIncoming(t) \/ ReadOutgoing(t) \/ Answer(t)

\* Steps that may wait for a row.
Obtain(t) == DeleteRow(t) \/ InsertRow(t) \/ Violation(t)

Next ==
  \/ Elsewhere
  \/ \E t \in Task : Handle(t) \/ Proceed(t) \/ Obtain(t) \/ Abort(t) \/ Deadlock(t)

Spec == Init /\ [][Next]_vars

\* A task that can go on does.  PostgreSQL serves those who wait for a row in
\* turn, so that no one is overtaken for ever, and detects deadlocks.
Fairness ==
  \A t \in Task : WF_vars(Proceed(t)) /\ SF_vars(Obtain(t)) /\ WF_vars(Deadlock(t))

LiveSpec == Spec /\ Fairness
-----------------------------------------------------------------------------
(* Properties.                                                             *)

\* No two requests between the same two profiles are ever stored, whichever
\* transactions insert them (insert_official_request against the unique index).
RequestsUnique ==
  \A r, s \in Requests(table) : r.pair = s.pair => r = s

\* What replace_with_official_snapshot is about to commit has every row of the
\* official answer, and no other row of the caller unless another commit has
\* touched its pair since the answer.
Replaced ==
  \A t \in Task : At(t, "commit") =>
    /\ task[t].snap \subseteq View(t)
    /\ \A r \in Of(Caller(t), View(t)) : r \in task[t].snap \/ r.pair \in missed[t]

\* GET /friends shows the official relationship with everyone whose rows no
\* other request has changed meanwhile, though it reads them in three parts.
AnswerSound ==
  \A t \in Task : At(t, "answer") =>
    \A q \in Pair \ missed[t] :
      Caller(t) \in q => OfPair(q, task[t].shown) = OfPair(q, task[t].snap)

\* A relationship does not disappear while it is replaced: a row goes away only
\* in the commit of a task whose official answer no longer had it.
NoGap ==
  [][\A r \in table \ table' :
       \E t \in Task : At(t, "commit") /\ Caller(t) \in r.pair /\ r \notin task[t].snap]_vars

\* Every synchronisation ends, those that deadlock included.
SyncEnds == \A t \in Task : ~ At(t, "idle") ~> At(t, "idle")

\* The part of a synchronisation that is left, and the rows of that part.
Stretch == [l \in Label |->
  CASE l = "deleteRequests" -> 10 [] l = "visitRequests" -> 9
    [] l = "deleteFriends" -> 8 [] l = "visitFriends" -> 7
    [] l = "insert" -> 6 [] l = "commit" -> 5
    [] l = "readFriends" -> 4 [] l = "readIncoming" -> 3
    [] l = "readOutgoing" -> 2 [] l = "answer" -> 1 [] l = "idle" -> 0]
Ahead(l) == l.todo \cup {l.next}

\* m is left with less to do than l.
Nearer(l, m) ==
  \/ Stretch[m.at] < Stretch[l.at]
  \/ /\ m.at = l.at
     /\ m.todo \subseteq l.todo /\ Ahead(m) \subseteq Ahead(l)
     /\ <<m.todo, Ahead(m)>> # <<l.todo, Ahead(l)>>

\* Whatever happens to a synchronisation, the commits of others and a failed
\* statement included, leaves it with less to do: nothing is tried again.
SyncShrinks ==
  [][\A t \in Task : ~ At(t, "idle") /\ task'[t] # task[t] => Nearer(task[t], task'[t])]_vars

\* A synchronisation waits for transactions that are open, and for none that
\* has ended, whether it committed or failed.
WaitsForTheOpen == \A t, u \in Task : Blocks(u, t) => task[u].at \in InTransaction
=============================================================================
