----------------------- MODULE FriendProjectionProofs -----------------------
(* What is stored of the friends of a profile: proofs for every number of  *)
(* profiles and of concurrent synchronisations.                            *)
EXTENDS FriendProjection, FiniteSetTheorems, TLAPS

(* The requirements on the constants, step by step.                        *)
LEMMA RowFields ==
  ASSUME NEW r \in Row
  PROVE  r.pair \in Pair /\ r.from \in Profile \cup {NoOne}
  BY DEF Row

LEMMA RowEqual ==
  ASSUME NEW r \in Row, NEW s \in Row, r.pair = s.pair, r.from = s.from
  PROVE  r = s
  BY DEF Row

LEMMA NewRow ==
  ASSUME NEW q \in Pair, NEW p \in Profile, p \in q
  PROVE  /\ [pair |-> q, from |-> p] \in Row
         /\ [pair |-> q, from |-> NoOne] \in Row
  BY DEF Row

LEMMA Selections ==
  ASSUME NEW p, NEW rows \in SUBSET Row
  PROVE  /\ Of(p, rows) \subseteq rows
         /\ Friends(rows) \subseteq rows /\ Requests(rows) \subseteq rows
         /\ Incoming(p, rows) \subseteq rows /\ Outgoing(p, rows) \subseteq rows
         /\ Foremost(p, rows) \subseteq rows
         /\ rows # {} => Foremost(p, rows) # {}
  BY DEF Of, Friends, Requests, Incoming, Outgoing, Foremost
-----------------------------------------------------------------------------
(* Types.                                                                  *)

LEMMA IdleLocals == Idle \in Locals
  BY DEF Idle, Locals, Label

\* A step that only moves a task to a label, with rows to visit.
Turns(t, label, rows) ==
  /\ task' \in [Task -> Locals]
  /\ \A u \in Task \ {t} : task'[u] = task[u]
  /\ task'[t].at = label /\ task'[t].todo = rows
  /\ task'[t].who = task[t].who /\ task'[t].answers = task[t].answers
  /\ task'[t].snap = task[t].snap /\ task'[t].shown = task[t].shown

LEMMA VisitType ==
  ASSUME NEW t \in Task, NEW label \in Label, NEW rows, NEW first,
         rows \subseteq Row, first \subseteq rows, task \in [Task -> Locals],
         task[t].at # "idle",
         label \in {"visitRequests", "visitFriends", "insert"} => first # {},
         Visit(t, label, rows, first)
  PROVE  Turns(t, label, rows)
<1>1. PICK r \in IF first = {} THEN {NoRow} ELSE first :
        task' = [task EXCEPT ![t] =
                   [task[t] EXCEPT !.at = label, !.todo = rows, !.next = r]]
  BY DEF Visit
<1>2. r \in rows \cup {NoRow} /\ (first # {} => r \in rows)
  OBVIOUS
<1>3. [task[t] EXCEPT !.at = label, !.todo = rows, !.next = r] \in Locals
  BY <1>2 DEF Locals
<1>4. task[t] \in Locals
  OBVIOUS
<1> QED BY <1>1, <1>3, <1>4 DEF Turns, Locals

LEMMA EndType ==
  ASSUME TypeOK, NEW t \in Task, End(t)
  PROVE  TypeOK'
  BY IdleLocals DEF TypeOK, End, Release

LEMMA RelateType ==
  ASSUME TypeOK, NEW q, NEW r \in SUBSET Row, Relate(q, r)
  PROVE  official' \subseteq Row
  BY DEF TypeOK, Relate

LEMMA AddedToType ==
  ASSUME TypeOK, NEW q \in Pair, NEW p \in Profile, p \in q, NEW r \in AddedTo(q, p)
  PROVE  r \in SUBSET Row
<1>1. OfPair(q, official) \subseteq Row
  BY DEF OfPair, TypeOK
<1>2. {[pair |-> q, from |-> p]} \subseteq Row /\ {[pair |-> q, from |-> NoOne]} \subseteq Row
  BY NewRow
<1> QED BY <1>1, <1>2 DEF AddedTo

LEMMA BeginType ==
  ASSUME TypeOK, NEW t \in Task, NEW p \in Profile, NEW answers \in BOOLEAN,
         official' \subseteq Row, Begin(t, p, answers)
  PROVE  TypeOK'
<1> DEFINE new == [Idle EXCEPT !.at = "deleteRequests", !.who = p,
                     !.answers = answers, !.snap = Of(p, official')]
<1>1. Of(p, official') \subseteq Row
  BY DEF Of
<1>2. new \in Locals
  BY <1>1 DEF Idle, Locals, Label
<1>3. task' \in [Task -> Locals]
  BY <1>2 DEF Begin, Fetched, TypeOK
<1> QED BY <1>3 DEF TypeOK, Begin, written

LEMMA HandleType ==
  ASSUME TypeOK, NEW t \in Task, Handle(t)
  PROVE  TypeOK'
<1>1. PICK p \in Client :
        \/ Snapshot(t, p) \/ SynchronizeFriends(t, p)
        \/ \E q \in Pair : AddRequest(t, p, q) \/ AcceptRequest(t, p, q) \/ RemoveFriend(t, p, q)
  BY DEF Handle
<1>2. p \in Profile
  BY FriendsAssumption
<1>3. CASE Snapshot(t, p) \/ SynchronizeFriends(t, p)
  BY <1>2, <1>3, BeginType DEF Snapshot, SynchronizeFriends, TypeOK
<1>4. CASE \E q \in Pair : AddRequest(t, p, q) \/ AcceptRequest(t, p, q) \/ RemoveFriend(t, p, q)
  <2>1. PICK q \in Pair : AddRequest(t, p, q) \/ AcceptRequest(t, p, q) \/ RemoveFriend(t, p, q)
    BY <1>4
  <2>2. official' \subseteq Row
    <3>1. CASE AddRequest(t, p, q)
      BY <1>2, <3>1, AddedToType, RelateType DEF AddRequest
    <3>2. CASE AcceptRequest(t, p, q)
      BY <1>2, <3>2, AddedToType, RelateType DEF AcceptRequest
    <3>3. CASE RemoveFriend(t, p, q)
      BY <3>3, RelateType DEF RemoveFriend
    <3> QED BY <2>1, <3>1, <3>2, <3>3
  <2>3. CASE Begin(t, p, FALSE)
    BY <1>2, <2>2, <2>3, BeginType
  <2>4. CASE UNCHANGED <<table, task, written, missed>>
    BY <2>2, <2>4 DEF TypeOK, written
  <2> QED
    BY <2>1, <2>3, <2>4 DEF AddRequest, AcceptRequest, RemoveFriend
<1> QED BY <1>1, <1>3, <1>4

LEMMA VisitAnswerType ==
  ASSUME TypeOK, NEW t \in Task, ~ At(t, "idle"), NEW rows \in SUBSET Row,
         VisitAnswer(t, rows)
  PROVE  Turns(t, IF rows = {} THEN "commit" ELSE "insert", rows)
<1> DEFINE first == Foremost(Caller(t), rows)
<1>1. /\ first \subseteq rows
      /\ rows # {} => first # {}
      /\ rows \subseteq Row /\ task[t].at # "idle" /\ task \in [Task -> Locals]
  BY Selections DEF At, TypeOK
<1>2. "commit" \in Label /\ "insert" \in Label
  BY DEF Label
<1>3. Visit(t, IF rows = {} THEN "commit" ELSE "insert", rows, first)
  BY DEF VisitAnswer
<1> HIDE DEF first
<1>4. CASE rows = {}
  BY <1>1, <1>2, <1>3, <1>4, VisitType
<1>5. CASE rows # {}
  BY <1>1, <1>2, <1>3, <1>5, VisitType
<1> QED BY <1>4, <1>5

LEMMA LocalsType ==
  ASSUME TypeOK, NEW t \in Task
  PROVE  /\ task[t].at \in Label /\ task[t].who \in Profile \cup {NoOne}
         /\ task[t].answers \in BOOLEAN /\ task[t].snap \subseteq Row
         /\ task[t].todo \subseteq Row /\ task[t].next \in Row \cup {NoRow}
         /\ task[t].shown \subseteq Row
  BY DEF TypeOK, Locals

LEMMA DeleteRequestsTurns ==
  ASSUME TypeOK, NEW t \in Task, DeleteRequests(t)
  PROVE  LET rows == Of(Caller(t), Requests(table))
         IN  Turns(t, IF rows = {} THEN "deleteFriends" ELSE "visitRequests", rows)
<1> DEFINE rows == Of(Caller(t), Requests(table))
<1> SUFFICES Turns(t, IF rows = {} THEN "deleteFriends" ELSE "visitRequests", rows)
  OBVIOUS
<1>1. rows \subseteq Row /\ task[t].at # "idle" /\ task \in [Task -> Locals]
  BY DEF Of, Requests, TypeOK, DeleteRequests, At
<1>2. "deleteFriends" \in Label /\ "visitRequests" \in Label
  BY DEF Label
<1>3. Visit(t, IF rows = {} THEN "deleteFriends" ELSE "visitRequests", rows, rows)
  BY DEF DeleteRequests
<1> HIDE DEF rows
<1>4. CASE rows = {}
  BY <1>1, <1>2, <1>3, <1>4, VisitType
<1>5. CASE rows # {}
  BY <1>1, <1>2, <1>3, <1>5, VisitType
<1> QED BY <1>4, <1>5

LEMMA DeleteFriendsTurns ==
  ASSUME TypeOK, NEW t \in Task, DeleteFriends(t)
  PROVE  LET rows == Of(Caller(t), Friends(table))
         IN  IF rows # {} THEN Turns(t, "visitFriends", rows)
             ELSE Turns(t, IF task[t].snap = {} THEN "commit" ELSE "insert", task[t].snap)
<1> DEFINE rows == Of(Caller(t), Friends(table))
<1> SUFFICES IF rows # {} THEN Turns(t, "visitFriends", rows)
             ELSE Turns(t, IF task[t].snap = {} THEN "commit" ELSE "insert", task[t].snap)
  OBVIOUS
<1>1. rows \subseteq Row /\ task[t].at # "idle" /\ task \in [Task -> Locals]
      /\ task[t].snap \in SUBSET Row /\ ~ At(t, "idle")
  BY LocalsType DEF Of, Friends, TypeOK, DeleteFriends, At
<1>2. "visitFriends" \in Label
  BY DEF Label
<1>3. IF rows = {} THEN VisitAnswer(t, task[t].snap) ELSE Visit(t, "visitFriends", rows, rows)
  BY DEF DeleteFriends
<1> HIDE DEF rows
<1>4. CASE rows = {}
  BY <1>1, <1>3, <1>4, VisitAnswerType
<1>5. CASE rows # {}
  BY <1>1, <1>2, <1>3, <1>5, VisitType
<1> QED BY <1>4, <1>5

LEMMA DeleteRowTurns ==
  ASSUME TypeOK, NEW t \in Task, DeleteRow(t)
  PROVE  LET left == task[t].todo \ {task[t].next}
         IN  IF left # {} THEN Turns(t, task[t].at, left)
             ELSE IF At(t, "visitRequests") THEN Turns(t, "deleteFriends", {})
             ELSE Turns(t, IF task[t].snap = {} THEN "commit" ELSE "insert", task[t].snap)
<1> DEFINE left == task[t].todo \ {task[t].next}
<1> SUFFICES IF left # {} THEN Turns(t, task[t].at, left)
             ELSE IF At(t, "visitRequests") THEN Turns(t, "deleteFriends", {})
             ELSE Turns(t, IF task[t].snap = {} THEN "commit" ELSE "insert", task[t].snap)
  OBVIOUS
<1>1. left \subseteq Row /\ task[t].at # "idle" /\ task \in [Task -> Locals]
      /\ task[t].snap \in SUBSET Row /\ ~ At(t, "idle") /\ task[t].at \in Label
  BY LocalsType DEF TypeOK, DeleteRow, Visiting, At
<1>2. "deleteFriends" \in Label
  BY DEF Label
<1>3. IF left # {} THEN Visit(t, task[t].at, left, left)
      ELSE IF At(t, "visitRequests") THEN Visit(t, "deleteFriends", {}, {})
      ELSE VisitAnswer(t, task[t].snap)
  BY DEF DeleteRow
<1> HIDE DEF left
<1>4. CASE left # {}
  BY <1>1, <1>3, <1>4, VisitType
<1>5. CASE left = {} /\ At(t, "visitRequests")
  BY <1>1, <1>2, <1>3, <1>5, VisitType
<1>6. CASE left = {} /\ ~ At(t, "visitRequests")
  BY <1>1, <1>3, <1>6, VisitAnswerType
<1> QED BY <1>4, <1>5, <1>6

LEMMA TypeStep ==
  ASSUME TypeOK, [Next]_vars
  PROVE  TypeOK'
<1>1. CASE Elsewhere
  <2>1. official' \subseteq Row
    BY <1>1, RelateType DEF Elsewhere, OfPair
  <2> QED BY <1>1, <2>1 DEF Elsewhere, TypeOK, written
<1>2. ASSUME NEW t \in Task, Handle(t) PROVE TypeOK'
  BY <1>2, HandleType
<1>3. ASSUME NEW t \in Task, Proceed(t) PROVE TypeOK'
  <2>1. CASE DeleteRequests(t)
    BY <1>3, <2>1, DeleteRequestsTurns DEF DeleteRequests, TypeOK, written, Turns
  <2>2. CASE DeleteFriends(t)
    BY <1>3, <2>2, DeleteFriendsTurns DEF DeleteFriends, TypeOK, written, Turns
  <2>3. CASE Commit(t)
    <3>1. task' \in [Task -> Locals]
      <4> SUFFICES ASSUME NEW u \in Task PROVE task'[u] \in Locals
        BY <2>3 DEF Commit
      <4>1. task[t] \in Locals /\ task[u] \in Locals
        BY <1>3 DEF TypeOK
      <4>2. [task[t] EXCEPT !.at = "readFriends"] \in Locals
        BY <2>3, <4>1 DEF Locals, Label, Commit, At
      <4>3. Visiting(u) => [task[u] EXCEPT !.todo = @ \ deleted[t]] \in Locals
        BY <4>1 DEF Locals, Visiting, At
      <4> QED BY <2>3, <4>1, <4>2, <4>3, IdleLocals DEF Commit
    <3>2. table' \subseteq Row
      BY <1>3, <2>3 DEF Commit, View, TypeOK
    <3>3. missed' \in [Task -> SUBSET Pair]
      <4>1. {r.pair : r \in deleted[t] \cup added[t]} \subseteq Pair
        BY <1>3, RowFields DEF TypeOK
      <4> QED BY <2>3, <4>1 DEF Commit, TypeOK
    <3> QED BY <2>3, <3>1, <3>2, <3>3 DEF Commit, Release, TypeOK
  <2>4. ASSUME NEW label \in {"readIncoming", "readOutgoing", "answer"},
               NEW rows \in SUBSET Row, ~ At(t, "idle"), Read(t, label, rows)
        PROVE  TypeOK'
    <3>1. [task[t] EXCEPT !.at = label, !.shown = task[t].shown \cup rows] \in Locals
      <4>1. task[t] \in Locals /\ task[t].at # "idle"
        BY <1>3, <2>4 DEF TypeOK, At
      <4>2. label \in Label /\ label \notin {"visitRequests", "visitFriends", "insert"}
        BY <2>4 DEF Label
      <4> QED BY <2>4, <4>1, <4>2 DEF Locals
    <3> QED BY <2>4, <3>1 DEF Read, TypeOK, written
  <2>5. CASE ReadFriends(t) \/ ReadIncoming(t) \/ ReadOutgoing(t)
    <3>1. /\ Of(Caller(t), Friends(table)) \in SUBSET Row
          /\ Incoming(Caller(t), Of(Caller(t), table)) \in SUBSET Row
          /\ Outgoing(Caller(t), table) \in SUBSET Row
      BY DEF Of, Friends, Incoming, Outgoing, Requests, TypeOK
    <3> QED BY <2>4, <2>5, <3>1 DEF ReadFriends, ReadIncoming, ReadOutgoing, At
  <2>6. CASE Answer(t)
    BY <1>3, <2>6, EndType DEF Answer
  <2> QED BY <1>3, <2>1, <2>2, <2>3, <2>5, <2>6 DEF Proceed
<1>4. ASSUME NEW t \in Task, DeleteRow(t) PROVE TypeOK'
  <2>1. task' \in [Task -> Locals]
    BY <1>4, DeleteRowTurns DEF Turns
  <2>2. deleted' \in [Task -> SUBSET Row]
    BY <1>4, LocalsType DEF DeleteRow, TypeOK
  <2> QED BY <1>4, <2>1, <2>2 DEF DeleteRow, TypeOK
<1>5. ASSUME NEW t \in Task, InsertRow(t) PROVE TypeOK'
  <2>1. task' \in [Task -> Locals]
    BY <1>5, LocalsType, VisitAnswerType DEF InsertRow, At, Turns
  <2>2. task[t].next \in Row
    BY <1>5 DEF InsertRow, At, TypeOK, Locals
  <2>3. added' \in [Task -> SUBSET Row] /\ held' \in [Task -> SUBSET Row]
    BY <1>5, <2>2 DEF InsertRow, TypeOK
  <2> QED BY <1>5, <2>1, <2>3 DEF InsertRow, TypeOK
<1>6. ASSUME NEW t \in Task, Violation(t) \/ Abort(t) \/ Deadlock(t) PROVE TypeOK'
  BY <1>6, EndType DEF Violation, Abort, Deadlock
<1>7. CASE UNCHANGED vars
  BY <1>7 DEF vars, written, TypeOK
<1> QED BY <1>1, <1>2, <1>3, <1>4, <1>5, <1>6, <1>7 DEF Next, Obtain

\* Every variable keeps its type; a task that visits rows has a row to visit.
THEOREM TypeCorrect == Spec => []TypeOK
<1>1. Init => TypeOK
  BY IdleLocals DEF Init, TypeOK
<1>2. TypeOK /\ [Next]_vars => TypeOK'
  BY TypeStep
<1> QED BY <1>1, <1>2, PTL DEF Spec
-----------------------------------------------------------------------------
(* The inductive invariant.  What a transaction wrote belongs to no other  *)
(* one, key by key; that is why it may commit rows it checked long before. *)

UniqueKeys(rows) == \A r, s \in rows : SameKey(r, s) => r = s

Exclusive ==
  \A t, u \in Task : t # u =>
    \A r \in Wrote(t), s \in Wrote(u) : ~ SameKey(r, s)

\* Rows of the caller that no other commit accounts for.
Leftover(t) == {r \in Of(Caller(t), View(t)) : r.pair \notin missed[t]}

Written(t) ==
  /\ task[t].at \notin InTransaction => Wrote(t) = {}
  /\ task[t].at \notin {"insert", "commit"} => added[t] = {} /\ held[t] = {}
  /\ deleted[t] \subseteq Of(Caller(t), table)
  /\ held[t] \subseteq View(t)
  /\ UniqueKeys(View(t))

Working(t) ==
  /\ task[t].snap \subseteq Of(Caller(t), task[t].snap)
  /\ Visiting(t) => task[t].todo \subseteq Of(Caller(t), table)
  /\ At(t, "visitRequests") => Requests(Leftover(t)) \subseteq task[t].todo
  /\ At(t, "deleteFriends") \/ At(t, "visitFriends") => Requests(Leftover(t)) = {}
  /\ At(t, "visitFriends") => Friends(Leftover(t)) \subseteq task[t].todo
  /\ At(t, "insert") => task[t].todo \subseteq task[t].snap
  /\ At(t, "insert") => task[t].snap \subseteq added[t] \cup held[t] \cup task[t].todo
  /\ At(t, "commit") => task[t].snap \subseteq added[t] \cup held[t]
  /\ At(t, "insert") \/ At(t, "commit") => Leftover(t) \subseteq task[t].snap

\* The part of a pair that has been read, of the rows it should find.
Collected(t, rows) ==
  IF task[t].at \in InTransaction \cup {"readFriends"} THEN {}
  ELSE IF At(t, "readIncoming") THEN Friends(rows)
  ELSE IF At(t, "readOutgoing") THEN Friends(rows) \cup Incoming(Caller(t), rows)
  ELSE rows

Reading(t) ==
  /\ task[t].at \in InTransaction \cup {"readFriends"} => task[t].shown = {}
  /\ task[t].at \notin InTransaction \cup {"idle"} =>
       \A q \in Pair \ missed[t] : Caller(t) \in q =>
         /\ OfPair(q, table) = OfPair(q, task[t].snap)
         /\ OfPair(q, task[t].shown) = Collected(t, OfPair(q, task[t].snap))

Local(t) == Written(t) /\ Working(t) /\ Reading(t)

Inv == TypeOK /\ UniqueKeys(table) /\ Exclusive /\ \A t \in Task : Local(t)

(* A step of one task that leaves the table and the others alone.          *)
Alone(t) ==
  /\ table' = table
  /\ \A u \in Task \ {t} :
       /\ task'[u] = task[u] /\ missed'[u] = missed[u]
       /\ deleted'[u] = deleted[u] /\ added'[u] = added[u] /\ held'[u] = held[u]

LEMMA OthersKeep ==
  ASSUME NEW t \in Task, NEW u \in Task \ {t}, Alone(t), Local(u)
  PROVE  Local(u)' /\ Wrote(u)' = Wrote(u)
<1>1. /\ table' = table /\ task'[u] = task[u] /\ missed'[u] = missed[u]
      /\ deleted'[u] = deleted[u] /\ added'[u] = added[u] /\ held'[u] = held[u]
  BY DEF Alone
<1>2. View(u)' = View(u) /\ Caller(u)' = Caller(u) /\ Wrote(u)' = Wrote(u)
  BY <1>1 DEF View, Caller, Wrote
<1>3. Leftover(u)' = Leftover(u)
  BY <1>1, <1>2 DEF Leftover, Of
<1>4. Written(u)'
  BY <1>1, <1>2 DEF Local, Written, Of, UniqueKeys, SameKey, IsFriendship
<1>5. Working(u)'
  BY <1>1, <1>2, <1>3 DEF Local, Working, Of, Visiting, At, Requests, Friends, IsFriendship
<1>6. Reading(u)'
  BY <1>1, <1>2 DEF Local, Reading, OfPair, Collected, At, Requests, Friends, Incoming, IsFriendship
<1> QED BY <1>2, <1>4, <1>5, <1>6 DEF Local

(* It suffices that the task keeps its part, and takes rows nobody has.    *)
LEMMA AloneKeeps ==
  ASSUME Inv, TypeOK', NEW t \in Task, Alone(t), Local(t)',
         \A r \in Wrote(t)' : r \in Wrote(t) \/ \A u \in Task \ {t} : \A s \in Wrote(u) : ~ SameKey(r, s)
  PROVE  Inv'
<1>1. \A u \in Task \ {t} : Local(u)' /\ Wrote(u)' = Wrote(u)
  BY OthersKeep DEF Inv
<1>2. UniqueKeys(table)'
  BY DEF Inv, Alone, UniqueKeys, SameKey, IsFriendship
<1>3. \A r, s : SameKey(r, s)' = SameKey(r, s) /\ (SameKey(r, s) <=> SameKey(s, r))
  BY DEF SameKey, IsFriendship
<1>4. Exclusive'
  <2> SUFFICES ASSUME NEW x \in Task, NEW y \in Task, x # y,
                      NEW r \in Wrote(x)', NEW s \in Wrote(y)'
               PROVE  ~ SameKey(r, s)
    BY <1>3 DEF Exclusive
  <2>1. CASE x = t
    BY <1>1, <1>3, <2>1 DEF Inv, Exclusive
  <2>2. CASE y = t
    BY <1>1, <1>3, <2>2 DEF Inv, Exclusive
  <2>3. CASE x # t /\ y # t
    BY <1>1, <1>3, <2>3 DEF Inv, Exclusive
  <2> QED BY <2>1, <2>2, <2>3
<1> QED BY <1>1, <1>2, <1>4 DEF Inv
-----------------------------------------------------------------------------
(* One lemma per kind of step.                                             *)

LEMMA StutterKeeps ==
  ASSUME Inv, TypeOK', UNCHANGED <<table, task, written, missed>>
  PROVE  Inv'
<1>1. /\ table' = table /\ missed' = missed /\ task' = task
      /\ deleted' = deleted /\ added' = added /\ held' = held
  BY DEF written
<1>2. \A t \in Task : View(t)' = View(t) /\ Caller(t)' = Caller(t) /\ Wrote(t)' = Wrote(t)
  BY <1>1 DEF View, Caller, Wrote
<1>3. \A t \in Task : Written(t)'
  BY <1>1, <1>2 DEF Inv, Local, Written, Of, UniqueKeys, SameKey, IsFriendship
<1>4. \A t \in Task : Leftover(t)' = Leftover(t)
  BY <1>1, <1>2 DEF Leftover, Of
<1>5. \A t \in Task : Working(t)'
  BY <1>1, <1>2, <1>4 DEF Inv, Local, Working, Of, Visiting, At, Requests, Friends, IsFriendship
<1>6. \A t \in Task : Reading(t)'
  BY <1>1, <1>2 DEF Inv, Local, Reading, OfPair, Collected, At, Requests, Friends, Incoming, IsFriendship
<1>7. UniqueKeys(table)' /\ Exclusive'
  BY <1>1, <1>2 DEF Inv, UniqueKeys, Exclusive, SameKey, IsFriendship
<1> QED BY <1>3, <1>5, <1>6, <1>7 DEF Inv, Local

LEMMA BeginKeeps ==
  ASSUME Inv, TypeOK', NEW t \in Task, At(t, "idle"), NEW p \in Profile,
         NEW answers \in BOOLEAN, official' \subseteq Row, Begin(t, p, answers)
  PROVE  Inv'
<1>1. Alone(t)
  BY DEF Begin, Alone, written, Inv, TypeOK
<1>2. /\ task'[t].at = "deleteRequests" /\ task'[t].who = p
      /\ task'[t].snap = Of(p, official') /\ task'[t].shown = {}
  BY DEF Begin, Fetched, Idle, Inv, TypeOK
<1>3. /\ table' = table /\ missed' = missed
      /\ deleted' = deleted /\ added' = added /\ held' = held
  BY DEF Begin, written
<1>4. deleted[t] = {} /\ added[t] = {} /\ held[t] = {}
  BY DEF Inv, Local, Written, At, InTransaction, Wrote
<1>5. Wrote(t)' = {} /\ View(t)' = table
  BY <1>3, <1>4 DEF Wrote, View
<1>6. Written(t)'
  BY <1>2, <1>3, <1>4, <1>5 DEF Written, Inv, UniqueKeys, SameKey, IsFriendship, Of
<1>7. Working(t)'
  BY <1>2 DEF Working, Of, Caller, Visiting, At
<1>8. Reading(t)'
  BY <1>2 DEF Reading, InTransaction
<1> QED BY <1>1, <1>5, <1>6, <1>7, <1>8, AloneKeeps DEF Local

LEMMA EndKeeps ==
  ASSUME Inv, NEW t \in Task, End(t)
  PROVE  Inv'
<1>1. TypeOK'
  BY EndType DEF Inv
<1>2. Alone(t)
  BY DEF End, Release, Alone, Inv, TypeOK
<1>3. /\ table' = table /\ task'[t] = Idle
      /\ deleted'[t] = {} /\ added'[t] = {} /\ held'[t] = {}
  BY DEF End, Release, Inv, TypeOK
<1>4. Wrote(t)' = {} /\ View(t)' = table
  BY <1>3 DEF Wrote, View
<1>5. Written(t)'
  BY <1>3, <1>4 DEF Written, Inv, UniqueKeys, SameKey, IsFriendship, Of
<1>6. Working(t)' /\ Reading(t)'
  BY <1>3 DEF Working, Reading, Idle, Visiting, At, InTransaction, Of
<1> QED BY <1>1, <1>2, <1>4, <1>5, <1>6, AloneKeeps DEF Local

LEMMA DeleteRequestsKeeps ==
  ASSUME Inv, TypeOK', NEW t \in Task, DeleteRequests(t)
  PROVE  Inv'
<1> DEFINE rows == Of(Caller(t), Requests(table))
<1>1. Turns(t, IF rows = {} THEN "deleteFriends" ELSE "visitRequests", rows)
  BY DeleteRequestsTurns DEF Inv
<1>2. /\ table' = table /\ missed' = missed
      /\ deleted' = deleted /\ added' = added /\ held' = held
  BY DEF DeleteRequests, written
<1>3. Alone(t)
  BY <1>1, <1>2 DEF Alone, Turns
<1>4. /\ Caller(t)' = Caller(t) /\ Wrote(t)' = Wrote(t)
      /\ View(t)' = View(t) /\ Leftover(t)' = Leftover(t)
  BY <1>1, <1>2 DEF Turns, Caller, Wrote, View, Leftover, Of
<1>5. added[t] = {}
  BY DEF Inv, Local, Written, DeleteRequests, At
<1>6. Written(t)'
  BY <1>1, <1>2, <1>4 DEF Turns, Inv, Local, Written, DeleteRequests, At, Of,
     InTransaction, UniqueKeys, SameKey, IsFriendship
<1>7. Requests(Leftover(t)) \subseteq rows
  BY <1>5 DEF Requests, Leftover, Of, View
<1>8. Working(t)'
  <2>1. CASE rows = {}
    BY <1>1, <1>2, <1>4, <1>7, <2>1 DEF Turns, Inv, Local, Working, At, Visiting, Of,
       Requests, IsFriendship
  <2>2. CASE rows # {}
    BY <1>1, <1>2, <1>4, <1>7, <2>2 DEF Turns, Inv, Local, Working, At, Visiting, Of,
       Requests, IsFriendship
  <2> QED BY <2>1, <2>2
<1>9. Reading(t)'
  BY <1>1 DEF Turns, Inv, Local, Reading, DeleteRequests, At, InTransaction
<1> QED BY <1>3, <1>4, <1>6, <1>8, <1>9, AloneKeeps DEF Local

\* Where the INSERTs begin, and they have not to find anything left over.
LEMMA InsertBegins ==
  ASSUME Inv, NEW t \in Task, task[t].at \in {"deleteFriends", "visitFriends"},
         Turns(t, IF task[t].snap = {} THEN "commit" ELSE "insert", task[t].snap),
         table' = table, missed' = missed, added' = added, held' = held,
         deleted'[t] \subseteq Of(Caller(t), table), deleted[t] \subseteq deleted'[t],
         Leftover(t)' \subseteq task[t].snap
  PROVE  Local(t)'
<1>1. added[t] = {} /\ held[t] = {}
  BY DEF Inv, Local, Written
<1>2. Caller(t)' = Caller(t) /\ View(t)' \subseteq View(t)
  BY DEF Turns, Caller, View
<1>3. Written(t)'
  BY <1>1, <1>2 DEF Turns, Inv, Local, Written, Of, InTransaction, UniqueKeys, SameKey, IsFriendship
<1>4. Working(t)'
  <2>1. CASE task[t].snap = {}
    BY <1>1, <1>2, <2>1 DEF Turns, Inv, Local, Working, At, Visiting, Of
  <2>2. CASE task[t].snap # {}
    BY <1>1, <1>2, <2>2 DEF Turns, Inv, Local, Working, At, Visiting, Of
  <2> QED BY <2>1, <2>2
<1>5. Reading(t)'
  BY DEF Turns, Inv, Local, Reading, InTransaction
<1> QED BY <1>3, <1>4, <1>5 DEF Local

LEMMA DeleteFriendsKeeps ==
  ASSUME Inv, TypeOK', NEW t \in Task, DeleteFriends(t)
  PROVE  Inv'
<1> DEFINE rows == Of(Caller(t), Friends(table))
<1>1. IF rows # {} THEN Turns(t, "visitFriends", rows)
      ELSE Turns(t, IF task[t].snap = {} THEN "commit" ELSE "insert", task[t].snap)
  BY DeleteFriendsTurns DEF Inv
<1>2. /\ table' = table /\ missed' = missed
      /\ deleted' = deleted /\ added' = added /\ held' = held
  BY DEF DeleteFriends, written
<1>3. Alone(t)
  BY <1>1, <1>2 DEF Alone, Turns
<1>4. /\ Caller(t)' = Caller(t) /\ Wrote(t)' = Wrote(t)
      /\ View(t)' = View(t) /\ Leftover(t)' = Leftover(t)
  BY <1>1, <1>2 DEF Turns, Caller, Wrote, View, Leftover, Of
<1>5. added[t] = {} /\ task[t].at = "deleteFriends"
  BY DEF Inv, Local, Written, DeleteFriends, At
<1>6. Friends(Leftover(t)) \subseteq rows /\ Requests(Leftover(t)) = {}
  BY <1>5 DEF Friends, Requests, Leftover, Of, View, Inv, Local, Working, At
<1>7. Local(t)'
  <2>1. CASE rows # {}
    <3>1. Written(t)'
      BY <1>1, <1>2, <1>4, <1>5, <2>1 DEF Turns, Inv, Local, Written, Of,
         InTransaction, UniqueKeys, SameKey, IsFriendship
    <3>2. Working(t)'
      BY <1>1, <1>2, <1>4, <1>6, <2>1 DEF Turns, Inv, Local, Working, At, Visiting, Of,
         Requests, Friends, IsFriendship
    <3>3. Reading(t)'
      BY <1>1, <1>5, <2>1 DEF Turns, Inv, Local, Reading, InTransaction
    <3> QED BY <3>1, <3>2, <3>3 DEF Local
  <2>2. CASE rows = {}
    <3>1. Leftover(t) \subseteq Requests(Leftover(t)) \cup Friends(Leftover(t))
      BY DEF Requests, Friends
    <3>2. Leftover(t)' \subseteq task[t].snap
      BY <1>4, <1>6, <2>2, <3>1
    <3>3. deleted[t] \subseteq Of(Caller(t), table)
      BY DEF Inv, Local, Written
    <3> QED BY <1>1, <1>2, <1>5, <2>2, <3>2, <3>3, InsertBegins
  <2> QED BY <2>1, <2>2
<1> QED BY <1>3, <1>4, <1>7, AloneKeeps

LEMMA DeleteRowKeeps ==
  ASSUME Inv, TypeOK', NEW t \in Task, DeleteRow(t)
  PROVE  Inv'
<1> DEFINE row == task[t].next
           left == task[t].todo \ {row}
<1>1. IF left # {} THEN Turns(t, task[t].at, left)
      ELSE IF At(t, "visitRequests") THEN Turns(t, "deleteFriends", {})
      ELSE Turns(t, IF task[t].snap = {} THEN "commit" ELSE "insert", task[t].snap)
  BY DeleteRowTurns DEF Inv
<1>2. /\ table' = table /\ missed' = missed /\ added' = added /\ held' = held
      /\ deleted'[t] = deleted[t] \cup (task[t].todo \cap {row})
      /\ \A u \in Task \ {t} : deleted'[u] = deleted[u]
  BY DEF DeleteRow, Inv, TypeOK
<1>3. Alone(t)
  BY <1>1, <1>2 DEF Alone, Turns
<1>4. /\ added[t] = {} /\ held[t] = {} /\ Visiting(t)
      /\ task[t].at \in {"visitRequests", "visitFriends"}
  BY DEF Inv, Local, Written, DeleteRow, At, Visiting
<1>5. task[t].todo \subseteq Of(Caller(t), table) /\ deleted[t] \subseteq Of(Caller(t), table)
  BY <1>4 DEF Inv, Local, Working, Written
<1>6. /\ Caller(t)' = Caller(t)
      /\ View(t)' = View(t) \ (task[t].todo \cap {row})
      /\ Leftover(t)' = Leftover(t) \ (task[t].todo \cap {row})
  BY <1>1, <1>2, <1>4 DEF Turns, Caller, View, Leftover, Of
<1>7. \A r \in Wrote(t)' :
        r \in Wrote(t) \/ \A u \in Task \ {t} : \A s \in Wrote(u) : ~ SameKey(r, s)
  <2> SUFFICES ASSUME row \in task[t].todo, NEW u \in Task \ {t}, NEW s \in Wrote(u),
                      SameKey(row, s)
               PROVE  FALSE
    BY <1>2 DEF Wrote
  <2>1. row \in table /\ row \notin Wrote(u)
    BY <1>4, <1>5 DEF DeleteRow, Free, Blocks, Of
  <2>2. row \in View(u)
    BY <2>1 DEF Wrote, View
  <2>3. s \in View(u) \/ (s \in deleted[u] /\ s \in table)
    BY DEF Inv, Local, Written, Wrote, View, Of
  <2>4. UniqueKeys(View(u)) /\ UniqueKeys(table)
    BY DEF Inv, Local, Written
  <2>5. row = s
    BY <2>1, <2>2, <2>3, <2>4 DEF UniqueKeys
  <2> QED BY <2>1, <2>5
<1>8. Local(t)'
  <2>1. /\ deleted'[t] \subseteq Of(Caller(t), table)
        /\ deleted[t] \subseteq deleted'[t]
    BY <1>2, <1>5
  <2>2. UniqueKeys(View(t))'
    BY <1>6 DEF Inv, Local, Written, UniqueKeys, SameKey, IsFriendship
  <2>3. CASE left # {}
    <3>1. Turns(t, task[t].at, left)
      BY <1>1, <2>3
    <3>2. Written(t)'
      BY <1>2, <1>4, <1>6, <2>1, <2>2, <3>1 DEF Turns, Written, Of, InTransaction
    <3>3. Working(t)'
      <4>1. /\ task'[t].at = task[t].at /\ task'[t].todo = left
            /\ task'[t].snap = task[t].snap
        BY <3>1 DEF Turns
      <4>2. left \subseteq Of(Caller(t), table)
        BY <1>5
      <4>3. /\ Requests(Leftover(t))' = Requests(Leftover(t)) \ (task[t].todo \cap {row})
            /\ Friends(Leftover(t))' = Friends(Leftover(t)) \ (task[t].todo \cap {row})
        BY <1>6 DEF Requests, Friends, IsFriendship
      <4>4. Working(t)
        BY DEF Inv, Local
      <4>5. /\ task'[t].snap \subseteq Of(Caller(t)', task'[t].snap)
            /\ task'[t].todo \subseteq Of(Caller(t)', table')
        BY <1>2, <1>6, <4>1, <4>2, <4>4 DEF Working
      <4>6. At(t, "visitRequests") => Requests(Leftover(t))' \subseteq task'[t].todo
        BY <4>1, <4>3, <4>4 DEF Working
      <4>7. At(t, "visitFriends") =>
              Requests(Leftover(t))' = {} /\ Friends(Leftover(t))' \subseteq task'[t].todo
        BY <4>1, <4>3, <4>4 DEF Working
      <4> QED BY <1>4, <4>1, <4>5, <4>6, <4>7 DEF Working, At, Visiting
    <3>4. Reading(t)'
      BY <1>4, <3>1 DEF Turns, Inv, Local, Reading, InTransaction
    <3> QED BY <3>2, <3>3, <3>4 DEF Local
  <2>4. CASE left = {} /\ At(t, "visitRequests")
    <3>1. Turns(t, "deleteFriends", {})
      BY <1>1, <2>4
    <3>2. Written(t)'
      BY <1>2, <1>4, <1>6, <2>1, <2>2, <3>1 DEF Turns, Written, Of, InTransaction
    <3>3. Requests(Leftover(t))' = {}
      BY <1>4, <1>6, <2>4 DEF Inv, Local, Working, Requests, IsFriendship
    <3>4. Working(t)'
      BY <1>6, <3>1, <3>3 DEF Turns, Inv, Local, Working, At, Visiting, Of
    <3>5. Reading(t)'
      BY <1>4, <3>1 DEF Turns, Inv, Local, Reading, InTransaction
    <3> QED BY <3>2, <3>4, <3>5 DEF Local
  <2>5. CASE left = {} /\ ~ At(t, "visitRequests")
    <3>1. At(t, "visitFriends") /\ task[t].at = "visitFriends"
      BY <1>4, <2>5 DEF At
    <3>2. Requests(Leftover(t)) = {} /\ Friends(Leftover(t)) \subseteq task[t].todo
      BY <3>1 DEF Inv, Local, Working
    <3>3. Leftover(t) \subseteq Requests(Leftover(t)) \cup Friends(Leftover(t))
      BY DEF Requests, Friends
    <3>4. Leftover(t)' = {}
      BY <1>6, <2>5, <3>2, <3>3
    <3> QED BY <1>1, <1>2, <2>1, <2>5, <3>1, <3>4, InsertBegins
  <2> QED BY <2>3, <2>4, <2>5
<1> QED BY <1>3, <1>7, <1>8, AloneKeeps

LEMMA InsertRowKeeps ==
  ASSUME Inv, TypeOK', NEW t \in Task, InsertRow(t)
  PROVE  Inv'
<1> DEFINE row == task[t].next
           left == task[t].todo \ {row}
<1>1. Turns(t, IF left = {} THEN "commit" ELSE "insert", left)
  <2>1. left \in SUBSET Row /\ ~ At(t, "idle") /\ VisitAnswer(t, left)
    BY LocalsType DEF Inv, InsertRow, At
  <2> HIDE DEF left
  <2> QED BY <2>1, VisitAnswerType DEF Inv
<1>2. /\ table' = table /\ missed' = missed /\ deleted' = deleted
      /\ added'[t] = IF row \in View(t) THEN added[t] ELSE added[t] \cup {row}
      /\ held'[t] = IF row \in View(t) THEN held[t] \cup {row} ELSE held[t]
      /\ \A u \in Task \ {t} : added'[u] = added[u] /\ held'[u] = held[u]
  BY DEF InsertRow, Inv, TypeOK
<1>3. Alone(t)
  BY <1>1, <1>2 DEF Alone, Turns
<1>4. task[t].at = "insert" /\ row \in task[t].todo /\ row \in task[t].snap
  BY DEF InsertRow, At, Inv, TypeOK, Locals, Local, Working
<1>5. /\ Caller(t)' = Caller(t)
      /\ View(t)' = View(t) \cup {row}
      /\ Leftover(t)' \subseteq Leftover(t) \cup {row}
  BY <1>1, <1>2 DEF Turns, Caller, View, Leftover, Of
<1>6. \A r \in Wrote(t)' :
        r \in Wrote(t) \/ \A u \in Task \ {t} : \A s \in Wrote(u) : ~ SameKey(r, s)
  <2>1. \A u \in Task \ {t} : \A s \in Wrote(u) : ~ SameKey(row, s)
    BY <1>4 DEF InsertRow, Free, Blocks, At, SameKey
  <2> QED BY <1>2, <2>1 DEF Wrote
<1>7. Written(t)'
  <2>1. UniqueKeys(View(t))'
    <3>1. \A s \in View(t) : SameKey(s, row) => s = row
      BY DEF InsertRow, Rivals
    <3> QED BY <1>5, <3>1 DEF Inv, Local, Written, UniqueKeys, SameKey, IsFriendship
  <2> QED BY <1>1, <1>2, <1>4, <1>5, <2>1 DEF Turns, Inv, Local, Written, Of, InTransaction
<1>8. Working(t)'
  <2>1. CASE left = {}
    BY <1>1, <1>2, <1>4, <1>5, <2>1 DEF Turns, Inv, Local, Working, At, Visiting, Of
  <2>2. CASE left # {}
    BY <1>1, <1>2, <1>4, <1>5, <2>2 DEF Turns, Inv, Local, Working, At, Visiting, Of
  <2> QED BY <2>1, <2>2
<1>9. Reading(t)'
  BY <1>1, <1>4 DEF Turns, Inv, Local, Reading, InTransaction
<1> QED BY <1>3, <1>6, <1>7, <1>8, <1>9, AloneKeeps DEF Local

LEMMA ReadFacts ==
  ASSUME TypeOK, NEW t \in Task, NEW label, NEW rows, Read(t, label, rows)
  PROVE  /\ table' = table /\ missed' = missed
         /\ deleted' = deleted /\ added' = added /\ held' = held
         /\ \A u \in Task \ {t} : task'[u] = task[u]
         /\ task'[t].who = task[t].who /\ task'[t].snap = task[t].snap
         /\ task'[t].at = label /\ task'[t].shown = task[t].shown \cup rows
<1>1. task[t] \in Locals
  BY DEF TypeOK
<1> QED BY <1>1 DEF Read, written, TypeOK, Locals

LEMMA ReadKeeps ==
  ASSUME Inv, TypeOK', NEW t \in Task,
         ReadFriends(t) \/ ReadIncoming(t) \/ ReadOutgoing(t)
  PROVE  Inv'
<1>1. /\ table' = table /\ missed' = missed
      /\ deleted' = deleted /\ added' = added /\ held' = held
      /\ \A u \in Task \ {t} : task'[u] = task[u]
      /\ task'[t].who = task[t].who /\ task'[t].snap = task[t].snap
  BY ReadFacts DEF ReadFriends, ReadIncoming, ReadOutgoing, Inv
<1>2. /\ task[t].at \in {"readFriends", "readIncoming", "readOutgoing"}
      /\ task'[t].at \in {"readIncoming", "readOutgoing", "answer"}
  BY ReadFacts DEF ReadFriends, ReadIncoming, ReadOutgoing, At, Inv
<1>3. Alone(t)
  BY <1>1 DEF Alone
<1>4. /\ Caller(t)' = Caller(t) /\ Wrote(t)' = Wrote(t) /\ View(t)' = View(t)
  BY <1>1 DEF Caller, Wrote, View
<1>5. Written(t)'
  <2>1. Wrote(t) = {} /\ added[t] = {} /\ held[t] = {} /\ deleted[t] = {}
    BY <1>2 DEF Inv, Local, Written, InTransaction, Wrote
  <2>2. UniqueKeys(View(t))'
    BY <1>4 DEF Inv, Local, Written, UniqueKeys, SameKey, IsFriendship
  <2> QED BY <1>1, <1>4, <2>1, <2>2 DEF Written
<1>6. Working(t)'
  <2>1. task[t].snap \subseteq Of(Caller(t), task[t].snap)
    BY DEF Inv, Local, Working
  <2> QED BY <1>1, <1>2, <1>4, <2>1 DEF Working, At, Visiting, Of
<1>7. Reading(t)'
  <2> SUFFICES ASSUME NEW q \in Pair \ missed[t], Caller(t) \in q
               PROVE  /\ OfPair(q, table)' = OfPair(q, task[t].snap)'
                      /\ OfPair(q, task'[t].shown) = Collected(t, OfPair(q, task[t].snap))'
    BY <1>1, <1>2, <1>4 DEF Reading, InTransaction, OfPair, Collected, Friends, Incoming, Requests, IsFriendship
  <2>1. /\ OfPair(q, table) = OfPair(q, task[t].snap)
        /\ OfPair(q, task[t].shown) = Collected(t, OfPair(q, task[t].snap))
    BY <1>2 DEF Inv, Local, Reading, InTransaction
  <2>2. OfPair(q, table)' = OfPair(q, task[t].snap)'
    BY <1>1, <2>1 DEF OfPair
  <2>3. CASE ReadFriends(t)
    <3>1. task'[t].shown = task[t].shown \cup Of(Caller(t), Friends(table))
      BY <2>3, ReadFacts DEF ReadFriends, Inv
    <3>2. task[t].at = "readFriends" /\ task'[t].at = "readIncoming"
      BY <2>3, ReadFacts DEF ReadFriends, At, Inv
    <3>3. OfPair(q, Of(Caller(t), Friends(table))) = Friends(OfPair(q, table))
      BY DEF OfPair, Of, Friends
    <3>4. Collected(t, OfPair(q, task[t].snap))' = Friends(OfPair(q, task[t].snap))
      BY <1>1, <3>2 DEF Collected, At, InTransaction, OfPair, Friends, IsFriendship
    <3>5. task[t].shown = {}
      BY <3>2 DEF Inv, Local, Reading
    <3> QED BY <2>1, <2>2, <3>1, <3>3, <3>4, <3>5
  <2>4. CASE ReadIncoming(t)
    <3>1. task'[t].shown = task[t].shown \cup Incoming(Caller(t), Of(Caller(t), table))
      BY <2>4, ReadFacts DEF ReadIncoming, Inv
    <3>2. task[t].at = "readIncoming" /\ task'[t].at = "readOutgoing"
      BY <2>4, ReadFacts DEF ReadIncoming, At, Inv
    <3>3. OfPair(q, Incoming(Caller(t), Of(Caller(t), table))) = Incoming(Caller(t), OfPair(q, table))
      BY DEF OfPair, Of, Incoming, Requests
    <3>4. Collected(t, OfPair(q, task[t].snap))'
            = Friends(OfPair(q, task[t].snap)) \cup Incoming(Caller(t), OfPair(q, task[t].snap))
      BY <1>1, <1>4, <3>2 DEF Collected, At, InTransaction, OfPair, Friends, Incoming, Requests, IsFriendship
    <3>5. OfPair(q, task[t].shown) = Friends(OfPair(q, task[t].snap))
      BY <2>1, <3>2 DEF Collected, At, InTransaction
    <3>6. OfPair(q, task'[t].shown)
            = OfPair(q, task[t].shown) \cup OfPair(q, Incoming(Caller(t), Of(Caller(t), table)))
      BY <3>1 DEF OfPair
    <3> QED BY <2>1, <2>2, <3>3, <3>4, <3>5, <3>6
  <2>5. CASE ReadOutgoing(t)
    <3>1. task'[t].shown = task[t].shown \cup Outgoing(Caller(t), table)
      BY <2>5, ReadFacts DEF ReadOutgoing, Inv
    <3>2. task[t].at = "readOutgoing" /\ task'[t].at = "answer"
      BY <2>5, ReadFacts DEF ReadOutgoing, At, Inv
    <3>3. OfPair(q, Outgoing(Caller(t), table)) = Outgoing(Caller(t), OfPair(q, table))
      BY DEF OfPair, Outgoing, Requests
    <3>4. Collected(t, OfPair(q, task[t].snap))' = OfPair(q, task[t].snap)
      BY <1>1, <3>2 DEF Collected, At, InTransaction, OfPair
    <3>5. OfPair(q, task[t].shown)
            = Friends(OfPair(q, task[t].snap)) \cup Incoming(Caller(t), OfPair(q, task[t].snap))
      BY <2>1, <3>2 DEF Collected, At, InTransaction
    <3>6. OfPair(q, task'[t].shown)
            = OfPair(q, task[t].shown) \cup OfPair(q, Outgoing(Caller(t), table))
      BY <3>1 DEF OfPair
    <3>7. \A rows : rows = Friends(rows) \cup Incoming(Caller(t), rows) \cup Outgoing(Caller(t), rows)
      BY DEF Friends, Incoming, Outgoing, Requests
    <3> QED BY <2>1, <2>2, <3>3, <3>4, <3>5, <3>6, <3>7
  <2> QED BY <2>3, <2>4, <2>5
<1> QED BY <1>3, <1>4, <1>5, <1>6, <1>7, AloneKeeps DEF Local

LEMMA CommitFacts ==
  ASSUME TypeOK, NEW t \in Task, Commit(t)
  PROVE  /\ task[t].at = "commit" /\ table' = View(t)
         /\ deleted'[t] = {} /\ added'[t] = {} /\ held'[t] = {}
         /\ IF task[t].answers
              THEN /\ task'[t].at = "readFriends" /\ task'[t].who = task[t].who
                   /\ task'[t].snap = task[t].snap /\ task'[t].shown = task[t].shown
                   /\ missed'[t] = missed[t]
              ELSE task'[t] = Idle
         /\ \A u \in Task \ {t} :
              /\ task'[u].at = task[u].at /\ task'[u].who = task[u].who
              /\ task'[u].snap = task[u].snap /\ task'[u].shown = task[u].shown
              /\ task'[u].todo = IF Visiting(u) THEN task[u].todo \ deleted[t] ELSE task[u].todo
              /\ deleted'[u] = deleted[u] /\ added'[u] = added[u] /\ held'[u] = held[u]
              /\ missed[u] \subseteq missed'[u]
              /\ task[u].at # "idle" =>
                   \A r \in deleted[t] \cup added[t] : r.pair \in missed'[u]
<1>1. task[t] \in Locals /\ \A u \in Task : task[u] \in Locals
  BY DEF TypeOK
<1>2. /\ task[t].at = "commit" /\ table' = View(t)
      /\ deleted'[t] = {} /\ added'[t] = {} /\ held'[t] = {}
  BY DEF Commit, At, Release, TypeOK
<1>3. IF task[t].answers
        THEN /\ task'[t].at = "readFriends" /\ task'[t].who = task[t].who
             /\ task'[t].snap = task[t].snap /\ task'[t].shown = task[t].shown
             /\ missed'[t] = missed[t]
        ELSE task'[t] = Idle
  BY <1>1 DEF Commit, Locals
<1>4. ASSUME NEW u \in Task \ {t}
      PROVE  /\ task'[u].at = task[u].at /\ task'[u].who = task[u].who
             /\ task'[u].snap = task[u].snap /\ task'[u].shown = task[u].shown
             /\ task'[u].todo = IF Visiting(u) THEN task[u].todo \ deleted[t] ELSE task[u].todo
  <2>1. task'[u] = IF Visiting(u) THEN [task[u] EXCEPT !.todo = @ \ deleted[t]] ELSE task[u]
    BY DEF Commit
  <2> QED BY <1>1, <2>1 DEF Locals
<1>5. ASSUME NEW u \in Task \ {t}
      PROVE  /\ deleted'[u] = deleted[u] /\ added'[u] = added[u] /\ held'[u] = held[u]
             /\ missed[u] \subseteq missed'[u]
             /\ task[u].at # "idle" =>
                  \A r \in deleted[t] \cup added[t] : r.pair \in missed'[u]
  BY DEF Commit, Release, At, TypeOK
<1> QED BY <1>2, <1>3, <1>4, <1>5

\* The task that commits goes on to read exactly what its answer had.
LEMMA CommitterKeeps ==
  ASSUME Inv, TypeOK', NEW t \in Task, Commit(t)
  PROVE  Local(t)'
<1>1. /\ task[t].at = "commit" /\ table' = View(t) /\ UniqueKeys(View(t))
      /\ Written(t) /\ Working(t) /\ Reading(t)
  BY CommitFacts DEF Inv, Local, Written
<1>2. Wrote(t)' = {} /\ View(t)' = table' /\ deleted'[t] = {} /\ added'[t] = {} /\ held'[t] = {}
  BY CommitFacts DEF Inv, Wrote, View
<1>3. Written(t)'
  BY <1>1, <1>2 DEF Written, UniqueKeys, SameKey, IsFriendship
<1>4. CASE ~ task[t].answers
  <2>1. task'[t] = Idle
    BY <1>4, CommitFacts DEF Inv
  <2> QED BY <1>3, <2>1 DEF Local, Working, Reading, Idle, Visiting, At, InTransaction
<1>5. CASE task[t].answers
  <2>1. /\ task'[t].at = "readFriends" /\ task'[t].who = task[t].who
        /\ task'[t].snap = task[t].snap /\ task'[t].shown = task[t].shown
        /\ missed'[t] = missed[t]
    BY <1>5, CommitFacts DEF Inv
  <2>2. Working(t)'
    BY <1>1, <2>1 DEF Working, Visiting, At, Caller, Of
  <2>3. task[t].shown = {}
    BY <1>1 DEF Reading, InTransaction
  <2>4. ASSUME NEW q \in Pair \ missed[t], Caller(t) \in q
        PROVE  OfPair(q, View(t)) = OfPair(q, task[t].snap)
    <3>1. task[t].snap \subseteq View(t)
      BY <1>1 DEF Working, Written, View, At
    <3>2. Leftover(t) \subseteq task[t].snap
      BY <1>1 DEF Working, At
    <3> QED BY <2>4, <3>1, <3>2 DEF OfPair, Leftover, Of
  <2>5. Reading(t)'
    BY <1>1, <2>1, <2>3, <2>4 DEF Reading, InTransaction, OfPair, Collected, Caller
  <2> QED BY <1>3, <2>2, <2>5 DEF Local
<1> QED BY <1>4, <1>5

LEMMA WaitersKeep ==
  ASSUME Inv, TypeOK', NEW t \in Task, Commit(t), NEW u \in Task \ {t}
  PROVE  Local(u)' /\ Wrote(u)' = Wrote(u)
<1>1. /\ table' = (table \ deleted[t]) \cup added[t] /\ UniqueKeys(View(t))
      /\ deleted[t] \subseteq table
  BY CommitFacts DEF Inv, Local, Written, View, Of
<1>2. /\ task'[u].at = task[u].at /\ task'[u].who = task[u].who
      /\ task'[u].snap = task[u].snap /\ task'[u].shown = task[u].shown
      /\ task'[u].todo = IF Visiting(u) THEN task[u].todo \ deleted[t] ELSE task[u].todo
      /\ deleted'[u] = deleted[u] /\ added'[u] = added[u] /\ held'[u] = held[u]
      /\ missed[u] \subseteq missed'[u]
      /\ task[u].at # "idle" => \A r \in deleted[t] \cup added[t] : r.pair \in missed'[u]
  BY CommitFacts DEF Inv
<1>3. Caller(u)' = Caller(u) /\ Wrote(u)' = Wrote(u)
  BY <1>2 DEF Caller, Wrote
<1>4. Written(u) /\ Working(u) /\ Reading(u)
  BY DEF Inv, Local
<1>5. \A r \in Wrote(u) : r \notin Wrote(t) /\ \A s \in Wrote(t) : ~ SameKey(r, s) /\ ~ SameKey(s, r)
  BY DEF Inv, Exclusive, SameKey
<1>6. View(u)' = (View(t) \ deleted[u]) \cup added[u]
  BY <1>1, <1>2 DEF View
<1>7. Written(u)'
  <2>1. deleted[u] \subseteq Of(Caller(u), table)'
    BY <1>1, <1>3, <1>4, <1>5 DEF Written, Wrote, Of
  <2>2. held[u] \subseteq View(u)'
    BY <1>4, <1>5, <1>6 DEF Written, Wrote, View
  <2>3. UniqueKeys(View(u)')
    <3> SUFFICES ASSUME NEW r \in View(u)', NEW s \in View(u)', SameKey(r, s)
                 PROVE  r = s
      BY DEF UniqueKeys
    <3>1. CASE r \in View(t) /\ s \in View(t)
      BY <1>1, <3>1 DEF UniqueKeys
    <3>2. \A x \in View(u)' : x \in View(u) \/ (x \in Wrote(t) /\ x \in View(t))
      <4>1. \A x \in (View(t) \ deleted[u]) \cup added[u] :
              x \in View(u) \/ (x \in Wrote(t) /\ x \in View(t))
        BY DEF View, Wrote
      <4> QED BY <1>6, <4>1
    <3>3. \A x \in View(u)' : x \in View(t) \/ x \in Wrote(u)
      BY <1>6 DEF Wrote
    <3>4. CASE r \notin View(t) \/ s \notin View(t)
      <4>1. r \in View(u) /\ s \in View(u)
        BY <1>5, <3>2, <3>3, <3>4
      <4> QED BY <1>4, <4>1 DEF Written, UniqueKeys
    <3> QED BY <3>1, <3>4
  <2>4. UniqueKeys(View(u))'
    BY <2>3 DEF UniqueKeys, SameKey, IsFriendship
  <2> QED BY <1>2, <1>3, <1>4, <2>1, <2>2, <2>4 DEF Written
<1>8. task[u].at # "idle" => Leftover(u)' \subseteq Leftover(u) \ deleted[t]
  BY <1>2, <1>3, <1>6 DEF Leftover, Of, View
<1>9. Working(u)'
  <2>1. CASE task[u].at = "idle"
    BY <1>2, <1>3, <1>4, <2>1 DEF Working, Visiting, At, Of
  <2>2. CASE task[u].at # "idle"
    <3>1. task'[u].snap \subseteq Of(Caller(u)', task'[u].snap)
      BY <1>2, <1>3, <1>4 DEF Working
    <3>2. Visiting(u) => task'[u].todo \subseteq Of(Caller(u)', table')
      BY <1>1, <1>2, <1>3, <1>4 DEF Working, Of
    <3>3. /\ Requests(Leftover(u)') \subseteq Requests(Leftover(u)) \ deleted[t]
          /\ Friends(Leftover(u)') \subseteq Friends(Leftover(u)) \ deleted[t]
      BY <1>8, <2>2 DEF Requests, Friends
    <3>4. /\ Requests(Leftover(u))' = Requests(Leftover(u)')
          /\ Friends(Leftover(u))' = Friends(Leftover(u)')
      BY DEF Requests, Friends, IsFriendship
    <3>5. /\ At(u, "visitRequests") => Requests(Leftover(u))' \subseteq task'[u].todo
          /\ At(u, "visitFriends") => Friends(Leftover(u))' \subseteq task'[u].todo
      BY <1>2, <1>4, <3>3, <3>4 DEF Working, Visiting
    <3>6. At(u, "deleteFriends") \/ At(u, "visitFriends") => Requests(Leftover(u))' = {}
      BY <1>4, <3>3, <3>4 DEF Working
    <3>7. At(u, "insert") \/ At(u, "commit") => Leftover(u)' \subseteq task'[u].snap
      BY <1>2, <1>4, <1>8, <2>2 DEF Working
    <3>8. At(u, "insert") => /\ task'[u].todo \subseteq task'[u].snap
                             /\ task'[u].snap \subseteq added'[u] \cup held'[u] \cup task'[u].todo
      BY <1>2, <1>4 DEF Working, Visiting, At
    <3>9. At(u, "commit") => task'[u].snap \subseteq added'[u] \cup held'[u]
      BY <1>2, <1>4 DEF Working
    <3>10. /\ \A label : At(u, label)' <=> At(u, label)
           /\ Visiting(u)' <=> Visiting(u)
      BY <1>2 DEF At, Visiting
    <3> QED BY <3>1, <3>2, <3>5, <3>6, <3>7, <3>8, <3>9, <3>10 DEF Working
  <2> QED BY <2>1, <2>2
<1>10. Reading(u)'
  <2>1. ASSUME NEW q \in Pair \ missed'[u], task[u].at # "idle"
        PROVE  OfPair(q, table') = OfPair(q, table)
    BY <1>1, <1>2, <2>1 DEF OfPair
  <2>2. CASE task[u].at \in InTransaction \cup {"idle", "readFriends"}
    <3>1. task[u].at \in InTransaction \cup {"readFriends"} => task[u].shown = {}
      BY <1>4 DEF Reading
    <3>2. task[u].at \notin InTransaction \cup {"idle"} =>
            \A q \in Pair \ missed'[u] : Caller(u) \in q => OfPair(q, table') = OfPair(q, task[u].snap)
      BY <1>2, <1>4, <2>1 DEF Reading
    <3> QED BY <1>2, <1>3, <2>2, <3>1, <3>2 DEF Reading, Collected, At, OfPair
  <2>3. CASE task[u].at \notin InTransaction \cup {"idle", "readFriends"}
    <3>1. \A q \in Pair \ missed'[u] : Caller(u) \in q =>
            /\ OfPair(q, table') = OfPair(q, task[u].snap)
            /\ OfPair(q, task[u].shown) = Collected(u, OfPair(q, task[u].snap))
      BY <1>2, <1>4, <2>1, <2>3 DEF Reading
    <3>2. \A rows : Collected(u, rows)' = Collected(u, rows)
      BY <1>2, <1>3 DEF Collected, At, Friends, Incoming, Requests, IsFriendship, InTransaction
    <3> QED BY <1>2, <1>3, <2>3, <3>1, <3>2 DEF Reading, OfPair
  <2> QED BY <2>2, <2>3
<1> QED BY <1>3, <1>7, <1>9, <1>10 DEF Local

LEMMA CommitKeeps ==
  ASSUME Inv, TypeOK', NEW t \in Task, Commit(t)
  PROVE  Inv'
<1>1. \A u \in Task \ {t} : Local(u)' /\ Wrote(u)' = Wrote(u)
  BY WaitersKeep
<1>2. Local(t)'
  BY CommitterKeeps
<1>3. UniqueKeys(table)'
  BY CommitFacts DEF Inv, Local, Written, UniqueKeys, SameKey, IsFriendship
<1>4. Wrote(t)' = {}
  BY CommitFacts DEF Inv, Wrote
<1>5. \A r, s : SameKey(r, s)' = SameKey(r, s)
  BY DEF SameKey, IsFriendship
<1>6. Exclusive'
  <2> SUFFICES ASSUME NEW x \in Task, NEW y \in Task, x # y,
                      NEW r \in Wrote(x)', NEW s \in Wrote(y)'
               PROVE  ~ SameKey(r, s)
    BY <1>5 DEF Exclusive
  <2>1. x # t /\ y # t
    BY <1>4
  <2> QED BY <1>1, <2>1 DEF Inv, Exclusive
<1> QED BY <1>1, <1>2, <1>3, <1>6 DEF Inv

LEMMA HandleKeeps ==
  ASSUME Inv, TypeOK', NEW t \in Task, Handle(t)
  PROVE  Inv'
<1>1. PICK p \in Client :
        \/ Snapshot(t, p) \/ SynchronizeFriends(t, p)
        \/ \E q \in Pair : AddRequest(t, p, q) \/ AcceptRequest(t, p, q) \/ RemoveFriend(t, p, q)
  BY DEF Handle
<1>2. p \in Profile /\ At(t, "idle") /\ official' \subseteq Row
  BY <1>1, FriendsAssumption
     DEF Snapshot, SynchronizeFriends, AddRequest, AcceptRequest, RemoveFriend, TypeOK
<1>3. \/ \E answers \in BOOLEAN : Begin(t, p, answers)
      \/ UNCHANGED <<table, task, written, missed>>
  BY <1>1 DEF Snapshot, SynchronizeFriends, AddRequest, AcceptRequest, RemoveFriend
<1>4. CASE \E answers \in BOOLEAN : Begin(t, p, answers)
  BY <1>2, <1>4, BeginKeeps
<1>5. CASE UNCHANGED <<table, task, written, missed>>
  BY <1>2, <1>5, StutterKeeps
<1> QED BY <1>3, <1>4, <1>5

THEOREM InvHolds == Spec => []Inv
<1>1. Init => Inv
  <2> SUFFICES ASSUME Init PROVE Inv
    OBVIOUS
  <2>1. TypeOK
    BY IdleLocals DEF Init, TypeOK
  <2>2. \A t \in Task : Wrote(t) = {} /\ View(t) = {}
    BY DEF Init, Wrote, View
  <2>3. \A t \in Task : Local(t)
    BY <2>2 DEF Init, Local, Written, Working, Reading, Idle, Visiting, At, UniqueKeys,
       InTransaction, Of
  <2> QED BY <2>1, <2>2, <2>3 DEF Init, Inv, UniqueKeys, Exclusive
<1>2. Inv /\ [Next]_vars => Inv'
  <2> SUFFICES ASSUME Inv, [Next]_vars PROVE Inv'
    OBVIOUS
  <2>1. TypeOK'
    BY TypeStep DEF Inv
  <2>2. CASE Elsewhere
    BY <2>1, <2>2, StutterKeeps DEF Elsewhere
  <2>3. ASSUME NEW t \in Task, Handle(t) PROVE Inv'
    BY <2>1, <2>3, HandleKeeps
  <2>4. ASSUME NEW t \in Task, Proceed(t) PROVE Inv'
    BY <2>1, <2>4, DeleteRequestsKeeps, DeleteFriendsKeeps, CommitKeeps, ReadKeeps, EndKeeps
       DEF Proceed, Answer
  <2>5. ASSUME NEW t \in Task, Obtain(t) PROVE Inv'
    BY <2>1, <2>5, DeleteRowKeeps, InsertRowKeeps, EndKeeps DEF Obtain, Violation
  <2>6. ASSUME NEW t \in Task, Abort(t) \/ Deadlock(t) PROVE Inv'
    BY <2>6, EndKeeps DEF Abort, Deadlock
  <2>7. CASE UNCHANGED vars
    BY <2>1, <2>7, StutterKeeps DEF vars
  <2> QED BY <2>2, <2>3, <2>4, <2>5, <2>6, <2>7 DEF Next
<1> QED BY <1>1, <1>2, PTL DEF Spec
-----------------------------------------------------------------------------
(* What follows from it.                                                   *)

\* At any time at most one request between any two profiles is stored.
THEOREM NeverTwoRequests == Spec => []RequestsUnique
<1>1. Inv => RequestsUnique
  BY DEF Inv, UniqueKeys, SameKey, RequestsUnique, Requests, IsFriendship
<1> QED BY <1>1, InvHolds, PTL

\* A synchronisation that is ready to commit replaces the relationships of its
\* caller by the official ones, up to what others have committed since.
THEOREM ReplacesAll == Spec => []Replaced
<1>1. Inv => Replaced
  <2> SUFFICES ASSUME Inv, NEW t \in Task, At(t, "commit")
               PROVE  /\ task[t].snap \subseteq View(t)
                      /\ \A r \in Of(Caller(t), View(t)) :
                            r \in task[t].snap \/ r.pair \in missed[t]
    BY DEF Replaced
  <2>1. task[t].snap \subseteq added[t] \cup held[t] /\ held[t] \subseteq View(t)
    BY DEF Inv, Local, Working, Written
  <2>2. added[t] \subseteq View(t)
    BY DEF View
  <2>3. Leftover(t) \subseteq task[t].snap
    BY DEF Inv, Local, Working
  <2> QED BY <2>1, <2>2, <2>3 DEF Leftover
<1> QED BY <1>1, InvHolds, PTL

\* The answer of a refresh is the official one for every pair that no other
\* request has changed meanwhile, although three SELECTs collect it.
THEOREM AnswersSoundly == Spec => []AnswerSound
<1>1. Inv => AnswerSound
  BY DEF Inv, Local, Reading, Collected, AnswerSound, At, InTransaction
<1> QED BY <1>1, InvHolds, PTL

\* No relationship disappears for as long as its replacement takes.
THEOREM NeverGaps == Spec => NoGap
<1>1. Inv /\ [Next]_vars =>
        [\A r \in table \ table' :
           \E t \in Task : At(t, "commit") /\ Caller(t) \in r.pair /\ r \notin task[t].snap]_vars
  <2> SUFFICES ASSUME Inv, Next, NEW r \in table \ table'
               PROVE  \E t \in Task :
                        At(t, "commit") /\ Caller(t) \in r.pair /\ r \notin task[t].snap
    OBVIOUS
  <2>1. PICK t \in Task : Commit(t)
    <3>1. ~ Elsewhere
      BY DEF Elsewhere
    <3>2. ASSUME NEW t \in Task, Handle(t) PROVE FALSE
      BY <3>2 DEF Handle, Snapshot, SynchronizeFriends, AddRequest, AcceptRequest, RemoveFriend, Begin
    <3>3. ASSUME NEW t \in Task, Obtain(t) \/ Abort(t) \/ Deadlock(t) PROVE FALSE
      BY <3>3 DEF Obtain, DeleteRow, InsertRow, Violation, Abort, Deadlock, End
    <3>4. ASSUME NEW t \in Task, Proceed(t) PROVE Commit(t)
      BY <3>4 DEF Proceed, DeleteRequests, DeleteFriends, ReadFriends, ReadIncoming,
         ReadOutgoing, Read, Answer, End
    <3> QED BY <3>1, <3>2, <3>3, <3>4 DEF Next
  <2>2. At(t, "commit") /\ r \in deleted[t] /\ r \notin View(t)
    BY <2>1 DEF Commit, View
  <2>3. Caller(t) \in r.pair
    BY <2>2 DEF Inv, Local, Written, Of
  <2>4. r \notin task[t].snap
    BY <2>2 DEF Inv, Local, Working, Written, View
  <2> QED BY <2>2, <2>3, <2>4
<1> QED BY <1>1, InvHolds, PTL DEF Spec, NoGap
-----------------------------------------------------------------------------
(* A synchronisation goes one way: to its end.                             *)

\* Whoever has a row to wait for is in its transaction, and one that ended,
\* by a commit, a failed statement or a dropped request, has none.
THEOREM NobodyHoldsUpAfterwards == Spec => []WaitsForTheOpen
<1>1. Inv => WaitsForTheOpen
  BY DEF Inv, Local, Written, WaitsForTheOpen, Blocks
<1> QED BY <1>1, InvHolds, PTL

(* Where a step that chooses the next row leaves the task.                 *)
LEMMA VisitLeaves ==
  ASSUME TypeOK, NEW t \in Task, NEW label, NEW rows, NEW first, first \subseteq rows,
         Visit(t, label, rows, first)
  PROVE  /\ task'[t].at = label /\ task'[t].todo = rows
         /\ first # {} => Ahead(task'[t]) = rows
         /\ \A u \in Task \ {t} : task'[u] = task[u]
<1>1. PICK r \in IF first = {} THEN {NoRow} ELSE first :
        task' = [task EXCEPT ![t] =
                   [task[t] EXCEPT !.at = label, !.todo = rows, !.next = r]]
  BY DEF Visit
<1>2. first # {} => r \in rows
  OBVIOUS
<1>3. task[t] \in Locals /\ task \in [Task -> Locals]
  BY DEF TypeOK
<1>4. /\ task'[t].at = label /\ task'[t].todo = rows /\ task'[t].next = r
      /\ \A u \in Task \ {t} : task'[u] = task[u]
  BY <1>1, <1>3 DEF Locals
<1> QED BY <1>2, <1>4 DEF Ahead

LEMMA VisitAnswerLeaves ==
  ASSUME TypeOK, NEW t \in Task, NEW rows \in SUBSET Row, VisitAnswer(t, rows)
  PROVE  /\ task'[t].at = IF rows = {} THEN "commit" ELSE "insert"
         /\ task'[t].todo = rows
         /\ rows # {} => Ahead(task'[t]) = rows
         /\ \A u \in Task \ {t} : task'[u] = task[u]
<1> DEFINE first == Foremost(Caller(t), rows)
<1>1. first \subseteq rows /\ (rows # {} => first # {})
  BY Selections
<1>2. Visit(t, IF rows = {} THEN "commit" ELSE "insert", rows, first)
  BY DEF VisitAnswer
<1> HIDE DEF first
<1> QED BY <1>1, <1>2, VisitLeaves

(* One row less, in the part of the synchronisation at hand.               *)
LEMMA RowLess ==
  ASSUME NEW l, NEW m, m.at = l.at, m.todo = l.todo \ {l.next},
         Ahead(m) = m.todo
  PROVE  Nearer(l, m)
<1>1. l.next \in Ahead(l) /\ l.next \notin Ahead(m)
  BY DEF Ahead
<1>2. m.todo \subseteq l.todo /\ Ahead(m) \subseteq Ahead(l)
  BY DEF Ahead
<1> QED BY <1>1, <1>2 DEF Nearer

LEMMA DeleteRequestsNears ==
  ASSUME TypeOK, NEW t \in Task, DeleteRequests(t)
  PROVE  Nearer(task[t], task'[t]) /\ \A u \in Task \ {t} : task'[u] = task[u]
<1> DEFINE rows == Of(Caller(t), Requests(table))
<1>1. Visit(t, IF rows = {} THEN "deleteFriends" ELSE "visitRequests", rows, rows)
  BY DEF DeleteRequests
<1> HIDE DEF rows
<1>2. /\ task'[t].at \in {"deleteFriends", "visitRequests"}
      /\ \A u \in Task \ {t} : task'[u] = task[u]
  BY <1>1, VisitLeaves
<1>3. task[t].at = "deleteRequests"
  BY DEF DeleteRequests, At
<1> QED BY <1>2, <1>3 DEF Nearer, Stretch, Label

LEMMA DeleteFriendsNears ==
  ASSUME TypeOK, NEW t \in Task, DeleteFriends(t)
  PROVE  Nearer(task[t], task'[t]) /\ \A u \in Task \ {t} : task'[u] = task[u]
<1> DEFINE rows == Of(Caller(t), Friends(table))
<1>1. IF rows = {} THEN VisitAnswer(t, task[t].snap) ELSE Visit(t, "visitFriends", rows, rows)
  BY DEF DeleteFriends
<1> HIDE DEF rows
<1>2. /\ task'[t].at \in {"visitFriends", "commit", "insert"}
      /\ \A u \in Task \ {t} : task'[u] = task[u]
  <2>1. CASE rows = {}
    BY <1>1, <2>1, LocalsType, VisitAnswerLeaves
  <2>2. CASE rows # {}
    BY <1>1, <2>2, VisitLeaves
  <2> QED BY <2>1, <2>2
<1>3. task[t].at = "deleteFriends"
  BY DEF DeleteFriends, At
<1> QED BY <1>2, <1>3 DEF Nearer, Stretch, Label

LEMMA DeleteRowNears ==
  ASSUME TypeOK, NEW t \in Task, DeleteRow(t)
  PROVE  Nearer(task[t], task'[t]) /\ \A u \in Task \ {t} : task'[u] = task[u]
<1> DEFINE left == task[t].todo \ {task[t].next}
<1>1. IF left # {} THEN Visit(t, task[t].at, left, left)
      ELSE IF At(t, "visitRequests") THEN Visit(t, "deleteFriends", {}, {})
      ELSE VisitAnswer(t, task[t].snap)
  BY DEF DeleteRow
<1>2. task[t].at \in {"visitRequests", "visitFriends"}
  BY DEF DeleteRow, Visiting, At
<1>3. CASE left # {}
  <2>1. /\ task'[t].at = task[t].at /\ task'[t].todo = left
        /\ Ahead(task'[t]) = left
        /\ \A u \in Task \ {t} : task'[u] = task[u]
    BY <1>1, <1>3, VisitLeaves
  <2> QED BY <2>1, RowLess
<1> HIDE DEF left
<1>4. CASE left = {} /\ At(t, "visitRequests")
  <2>1. task'[t].at = "deleteFriends" /\ \A u \in Task \ {t} : task'[u] = task[u]
    BY <1>1, <1>4, VisitLeaves
  <2> QED BY <1>4, <2>1 DEF Nearer, Stretch, Label, At
<1>5. CASE left = {} /\ ~ At(t, "visitRequests")
  <2>1. /\ task'[t].at \in {"commit", "insert"}
        /\ \A u \in Task \ {t} : task'[u] = task[u]
    BY <1>1, <1>5, LocalsType, VisitAnswerLeaves
  <2>2. task[t].at = "visitFriends"
    BY <1>2, <1>5 DEF At
  <2> QED BY <2>1, <2>2 DEF Nearer, Stretch, Label
<1> QED BY <1>3, <1>4, <1>5

LEMMA InsertRowNears ==
  ASSUME TypeOK, NEW t \in Task, InsertRow(t)
  PROVE  Nearer(task[t], task'[t]) /\ \A u \in Task \ {t} : task'[u] = task[u]
<1> DEFINE left == task[t].todo \ {task[t].next}
<1>1. left \in SUBSET Row /\ VisitAnswer(t, left) /\ task[t].at = "insert"
  BY LocalsType DEF InsertRow, At
<1>2. /\ task'[t].at = IF left = {} THEN "commit" ELSE "insert"
      /\ task'[t].todo = left
      /\ left # {} => Ahead(task'[t]) = left
      /\ \A u \in Task \ {t} : task'[u] = task[u]
  BY <1>1, VisitAnswerLeaves
<1>3. CASE left = {}
  BY <1>1, <1>2, <1>3 DEF Nearer, Stretch, Label
<1>4. CASE left # {}
  BY <1>1, <1>2, <1>4, RowLess
<1> QED BY <1>2, <1>3, <1>4

LEMMA EndNears ==
  ASSUME TypeOK, NEW t \in Task, ~ At(t, "idle"), End(t)
  PROVE  Nearer(task[t], task'[t]) /\ \A u \in Task \ {t} : task'[u] = task[u]
<1>1. task'[t].at = "idle" /\ \A u \in Task \ {t} : task'[u] = task[u]
  BY DEF End, TypeOK, Idle
<1>2. task[t].at \in Label /\ task[t].at # "idle"
  BY LocalsType DEF At
<1>3. Stretch["idle"] = 0 /\ \A l \in Label \ {"idle"} : Stretch[l] > 0
  BY DEF Stretch, Label
<1> QED BY <1>1, <1>2, <1>3 DEF Nearer

LEMMA ReadNears ==
  ASSUME TypeOK, NEW t \in Task, ReadFriends(t) \/ ReadIncoming(t) \/ ReadOutgoing(t)
  PROVE  Nearer(task[t], task'[t]) /\ \A u \in Task \ {t} : task'[u] = task[u]
<1>1. \A label, rows : Read(t, label, rows) =>
        task'[t].at = label /\ \A u \in Task \ {t} : task'[u] = task[u]
  BY DEF Read, TypeOK, Locals
<1>2. CASE ReadFriends(t)
  BY <1>1, <1>2 DEF ReadFriends, At, Nearer, Stretch, Label
<1>3. CASE ReadIncoming(t)
  BY <1>1, <1>3 DEF ReadIncoming, At, Nearer, Stretch, Label
<1>4. CASE ReadOutgoing(t)
  BY <1>1, <1>4 DEF ReadOutgoing, At, Nearer, Stretch, Label
<1> QED BY <1>2, <1>3, <1>4

(* A commit takes rows from those who wait to delete them.                 *)
LEMMA CommitNears ==
  ASSUME TypeOK, NEW t \in Task, Commit(t), NEW u \in Task, task'[u] # task[u]
  PROVE  Nearer(task[u], task'[u])
<1>1. CASE u = t
  <2>1. task'[t].at \in {"readFriends", "idle"}
    BY DEF Commit, TypeOK, Locals, Idle
  <2> QED BY <1>1, <2>1 DEF Commit, At, Nearer, Stretch, Label
<1>2. CASE u # t
  <2>1. task'[u] = [task[u] EXCEPT !.todo = @ \ deleted[t]]
    BY <1>2 DEF Commit
  <2>2. task[u] \in Locals
    BY DEF TypeOK
  <2>3. /\ task'[u].at = task[u].at /\ task'[u].next = task[u].next
        /\ task'[u].todo = task[u].todo \ deleted[t]
    BY <2>1, <2>2 DEF Locals
  <2>4. task'[u].todo # task[u].todo
    BY <2>1, <2>2, <2>3 DEF Locals
  <2> QED BY <2>3, <2>4 DEF Nearer, Ahead
<1> QED BY <1>1, <1>2

\* Every change of a request in progress, its own steps and the commits of
\* others, leaves it with less to do: nothing in replace_with_official_snapshot
\* or in the reading of the answer is tried again.
THEOREM SyncShrinksHolds == Spec => SyncShrinks
<1>1. TypeOK /\ [Next]_vars =>
        [\A t \in Task : ~ At(t, "idle") /\ task'[t] # task[t] => Nearer(task[t], task'[t])]_vars
  <2> SUFFICES ASSUME TypeOK, Next, NEW u \in Task, ~ At(u, "idle"), task'[u] # task[u]
               PROVE  Nearer(task[u], task'[u])
    OBVIOUS
  <2>1. CASE Elsewhere
    BY <2>1 DEF Elsewhere
  <2>2. ASSUME NEW t \in Task, Handle(t) PROVE FALSE
    <3>1. At(t, "idle")
      BY <2>2 DEF Handle, Snapshot, SynchronizeFriends, AddRequest, AcceptRequest, RemoveFriend
    <3>2. \A x \in Task \ {t} : task'[x] = task[x]
      BY <2>2 DEF Handle, Snapshot, SynchronizeFriends, AddRequest, AcceptRequest,
         RemoveFriend, Begin, TypeOK
    <3> QED BY <3>1, <3>2
  <2>3. ASSUME NEW t \in Task, Proceed(t) PROVE Nearer(task[u], task'[u])
    <3>1. CASE DeleteRequests(t)
      BY <3>1, DeleteRequestsNears
    <3>2. CASE DeleteFriends(t)
      BY <3>2, DeleteFriendsNears
    <3>3. CASE Commit(t)
      BY <3>3, CommitNears
    <3>4. CASE ReadFriends(t) \/ ReadIncoming(t) \/ ReadOutgoing(t)
      BY <3>4, ReadNears
    <3>5. CASE Answer(t)
      BY <3>5, EndNears DEF Answer, At
    <3> QED BY <2>3, <3>1, <3>2, <3>3, <3>4, <3>5 DEF Proceed
  <2>4. ASSUME NEW t \in Task, Obtain(t) PROVE Nearer(task[u], task'[u])
    <3>1. CASE DeleteRow(t)
      BY <3>1, DeleteRowNears
    <3>2. CASE InsertRow(t)
      BY <3>2, InsertRowNears
    <3>3. CASE Violation(t)
      BY <3>3, EndNears DEF Violation, At
    <3> QED BY <2>4, <3>1, <3>2, <3>3 DEF Obtain
  <2>5. ASSUME NEW t \in Task, Abort(t) \/ Deadlock(t) PROVE Nearer(task[u], task'[u])
    <3>1. At(t, "idle") => task'[t].at = "idle" /\ \A x \in Task \ {t} : task'[x] = task[x]
      BY <2>5 DEF Abort, Deadlock, End, TypeOK, Idle
    <3> QED BY <2>5, <3>1, EndNears DEF Abort, Deadlock
  <2> QED BY <2>1, <2>2, <2>3, <2>4, <2>5 DEF Next
<1> QED BY <1>1, TypeCorrect, PTL DEF Spec, SyncShrinks

(* The work of a synchronisation is finite, however many profiles there    *)
(* are: so it can shrink only so often.                                    *)
FiniteTask(l) == IsFiniteSet(l.snap) /\ IsFiniteSet(l.todo)

Finite ==
  /\ IsFiniteSet(official) /\ IsFiniteSet(table)
  /\ \A t \in Task : IsFiniteSet(added[t]) /\ FiniteTask(task[t])

FiniteWork == \A t \in Task : IsFiniteSet(Ahead(task[t]))

LEMMA SmallSets ==
  /\ IsFiniteSet({})
  /\ \A x : IsFiniteSet({x})
  /\ \A S, T : IsFiniteSet(S) /\ IsFiniteSet(T) => IsFiniteSet(S \cup T)
  /\ \A S, T : IsFiniteSet(S) /\ T \subseteq S => IsFiniteSet(T)
  BY FS_EmptySet, FS_Singleton, FS_Union, FS_Subset

(* A step that chooses among finitely many rows.                           *)
LEMMA VisitFinite ==
  ASSUME TypeOK, Finite, NEW t \in Task, NEW label, NEW rows, NEW first,
         IsFiniteSet(rows), Visit(t, label, rows, first)
  PROVE  \A u \in Task : FiniteTask(task'[u])
<1>1. PICK r \in IF first = {} THEN {NoRow} ELSE first :
        task' = [task EXCEPT ![t] =
                   [task[t] EXCEPT !.at = label, !.todo = rows, !.next = r]]
  BY DEF Visit
<1>2. task[t] \in Locals /\ task \in [Task -> Locals]
  BY DEF TypeOK
<1>3. /\ task'[t].snap = task[t].snap /\ task'[t].todo = rows
      /\ \A u \in Task \ {t} : task'[u] = task[u]
  BY <1>1, <1>2 DEF Locals
<1> QED BY <1>3 DEF Finite, FiniteTask

LEMMA RelateFinite ==
  ASSUME IsFiniteSet(official), NEW q, NEW r, IsFiniteSet(r), Relate(q, r)
  PROVE  IsFiniteSet(official')
  BY SmallSets DEF Relate

LEMMA BeginFinite ==
  ASSUME TypeOK, Finite, NEW t \in Task, NEW p, NEW answers,
         IsFiniteSet(official'), Begin(t, p, answers)
  PROVE  Finite'
<1>1. IsFiniteSet(Of(p, official'))
  BY SmallSets DEF Of
<1>2. /\ task'[t].snap = Of(p, official') /\ task'[t].todo = {}
      /\ \A u \in Task \ {t} : task'[u] = task[u]
  BY DEF Begin, Fetched, Idle, TypeOK
<1>3. \A u \in Task : FiniteTask(task'[u])
  BY <1>1, <1>2, SmallSets DEF FiniteTask, Finite
<1> QED BY <1>3 DEF Begin, written, Finite

LEMMA AddedToFinite ==
  ASSUME IsFiniteSet(official), NEW q, NEW p, NEW r \in AddedTo(q, p)
  PROVE  IsFiniteSet(r)
<1>1. IsFiniteSet(OfPair(q, official))
  BY SmallSets DEF OfPair
<1> QED BY <1>1, SmallSets DEF AddedTo

LEMMA HandleFinite ==
  ASSUME TypeOK, Finite, NEW t \in Task, Handle(t)
  PROVE  Finite'
<1>1. PICK p \in Client :
        \/ Snapshot(t, p) \/ SynchronizeFriends(t, p)
        \/ \E q \in Pair : AddRequest(t, p, q) \/ AcceptRequest(t, p, q) \/ RemoveFriend(t, p, q)
  BY DEF Handle
<1>2. IsFiniteSet(official')
  <2>1. CASE Snapshot(t, p) \/ SynchronizeFriends(t, p)
    BY <2>1 DEF Snapshot, SynchronizeFriends, Finite
  <2>2. ASSUME NEW q \in Pair, AddRequest(t, p, q) \/ AcceptRequest(t, p, q)
        PROVE  IsFiniteSet(official')
    <3>1. PICK r \in AddedTo(q, p) : Relate(q, r)
      BY <2>2 DEF AddRequest, AcceptRequest
    <3>2. IsFiniteSet(official)
      BY DEF Finite
    <3>3. IsFiniteSet(r)
      BY <3>2, AddedToFinite
    <3> QED BY <3>1, <3>2, <3>3, RelateFinite
  <2>3. ASSUME NEW q \in Pair, RemoveFriend(t, p, q) PROVE IsFiniteSet(official')
    BY <2>3, RelateFinite, SmallSets DEF RemoveFriend, Finite
  <2> QED BY <1>1, <2>1, <2>2, <2>3
<1>3. Begin(t, p, TRUE) \/ Begin(t, p, FALSE) \/ UNCHANGED <<table, task, written, missed>>
  BY <1>1 DEF Snapshot, SynchronizeFriends, AddRequest, AcceptRequest, RemoveFriend
<1>4. CASE UNCHANGED <<table, task, written, missed>>
  BY <1>2, <1>4 DEF written, Finite
<1> QED BY <1>2, <1>3, <1>4, BeginFinite

LEMMA EndFinite ==
  ASSUME TypeOK, Finite, NEW t \in Task, End(t)
  PROVE  Finite'
<1>1. /\ task'[t] = Idle /\ added'[t] = {}
      /\ \A u \in Task \ {t} : task'[u] = task[u] /\ added'[u] = added[u]
  BY DEF End, Release, TypeOK
<1>2. FiniteTask(Idle)
  BY SmallSets DEF FiniteTask, Idle
<1>3. \A u \in Task : IsFiniteSet(added'[u]) /\ FiniteTask(task'[u])
  BY <1>1, <1>2, SmallSets DEF Finite
<1> QED BY <1>3 DEF End, Finite

LEMMA CommitFinite ==
  ASSUME TypeOK, Finite, NEW t \in Task, Commit(t)
  PROVE  Finite'
<1>1. IsFiniteSet(table')
  BY SmallSets DEF Commit, View, Finite
<1>2. \A u \in Task : IsFiniteSet(added'[u])
  BY SmallSets DEF Commit, Release, TypeOK, Finite
<1>3. ASSUME NEW u \in Task PROVE FiniteTask(task'[u])
  <2>1. task[u] \in Locals
    BY DEF TypeOK
  <2>2. task'[u] = Idle \/ (task'[u].snap = task[u].snap /\ task'[u].todo \subseteq task[u].todo)
    BY <2>1 DEF Commit, Locals
  <2> QED BY <2>2, SmallSets DEF FiniteTask, Idle, Finite
<1> QED BY <1>1, <1>2, <1>3 DEF Commit, Finite

LEMMA ReadFinite ==
  ASSUME TypeOK, Finite, NEW t \in Task, NEW label, NEW rows, Read(t, label, rows)
  PROVE  Finite'
<1>1. task[t] \in Locals
  BY DEF TypeOK
<1>2. /\ task'[t].snap = task[t].snap /\ task'[t].todo = task[t].todo
      /\ \A u \in Task \ {t} : task'[u] = task[u]
  BY <1>1 DEF Read, Locals, TypeOK
<1>3. \A u \in Task : FiniteTask(task'[u])
  BY <1>2 DEF FiniteTask, Finite
<1> QED BY <1>3 DEF Read, written, Finite

LEMMA StatementFinite ==
  ASSUME TypeOK, Finite, NEW t \in Task,
         DeleteRequests(t) \/ DeleteFriends(t) \/ DeleteRow(t) \/ InsertRow(t)
  PROVE  Finite'
<1> DEFINE left == task[t].todo \ {task[t].next}
<1>1. /\ IsFiniteSet(Of(Caller(t), Requests(table))) /\ IsFiniteSet(Of(Caller(t), Friends(table)))
      /\ IsFiniteSet(task[t].snap) /\ IsFiniteSet(left) /\ IsFiniteSet({})
  BY SmallSets DEF Of, Requests, Friends, Finite, FiniteTask
<1>2. PICK label, rows, first : IsFiniteSet(rows) /\ Visit(t, label, rows, first)
  <2>1. CASE DeleteRequests(t)
    BY <1>1, <2>1, Zenon DEF DeleteRequests
  <2>2. CASE DeleteFriends(t)
    BY <1>1, <2>2, Zenon DEF DeleteFriends, VisitAnswer
  <2>3. CASE DeleteRow(t)
    BY <1>1, <2>3, Zenon DEF DeleteRow, VisitAnswer
  <2>4. CASE InsertRow(t)
    BY <1>1, <2>4, Zenon DEF InsertRow, VisitAnswer
  <2> QED BY <2>1, <2>2, <2>3, <2>4
<1>3. \A u \in Task : FiniteTask(task'[u])
  BY <1>2, VisitFinite
<1>4. UNCHANGED <<official, table>>
  BY DEF DeleteRequests, DeleteFriends, DeleteRow, InsertRow
<1>5. \A u \in Task : IsFiniteSet(added'[u])
  <2>1. added' = added \/ added' = [added EXCEPT ![t] = @ \cup {task[t].next}]
    BY DEF DeleteRequests, DeleteFriends, DeleteRow, InsertRow, written
  <2>2. \A u \in Task : IsFiniteSet(added[u]) /\ IsFiniteSet(added[u] \cup {task[t].next})
    BY SmallSets DEF Finite
  <2>3. \A u \in Task : added'[u] \in {added[u], added[u] \cup {task[t].next}}
    BY <2>1 DEF TypeOK
  <2> QED BY <2>2, <2>3
<1> QED BY <1>3, <1>4, <1>5 DEF Finite

\* A synchronisation has finitely many rows ahead of it at any time, of which
\* SyncShrinks takes its steps: neither others that commit nor a full list of
\* friends can keep it at work for ever.
THEOREM WorkIsFinite == Spec => []FiniteWork
<1>1. Init => Finite
  BY SmallSets DEF Init, Finite, FiniteTask, Idle
<1>2. TypeOK /\ Finite /\ [Next]_vars => Finite'
  <2> SUFFICES ASSUME TypeOK, Finite, [Next]_vars PROVE Finite'
    OBVIOUS
  <2>1. CASE Elsewhere
    <3>1. PICK q \in Abroad : \E r \in {{}} \cup {{s} : s \in OfPair(q, Row)} : Relate(q, r)
      BY <2>1 DEF Elsewhere
    <3>2. IsFiniteSet(official')
      BY <3>1, RelateFinite, SmallSets DEF Finite
    <3> QED BY <2>1, <3>2 DEF Elsewhere, written, Finite
  <2>2. ASSUME NEW t \in Task, Handle(t) PROVE Finite'
    BY <2>2, HandleFinite
  <2>3. ASSUME NEW t \in Task, Proceed(t) PROVE Finite'
    BY <2>3, StatementFinite, CommitFinite, ReadFinite, EndFinite
       DEF Proceed, ReadFriends, ReadIncoming, ReadOutgoing, Answer
  <2>4. ASSUME NEW t \in Task, Obtain(t) PROVE Finite'
    BY <2>4, StatementFinite, EndFinite DEF Obtain, Violation
  <2>5. ASSUME NEW t \in Task, Abort(t) \/ Deadlock(t) PROVE Finite'
    BY <2>5, EndFinite DEF Abort, Deadlock
  <2>6. CASE UNCHANGED vars
    BY <2>6 DEF vars, written, Finite
  <2> QED BY <2>1, <2>2, <2>3, <2>4, <2>5, <2>6 DEF Next
<1>3. Finite => FiniteWork
  BY SmallSets DEF Finite, FiniteTask, FiniteWork, Ahead
<1> QED BY <1>1, <1>2, <1>3, TypeCorrect, PTL DEF Spec
=============================================================================
