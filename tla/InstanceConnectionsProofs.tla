--------------------- MODULE InstanceConnectionsProofs ---------------------
(***************************************************************************)
(* Proofs about InstanceConnections for every set of instances, profiles   *)
(* and connections, and every limit.                                       *)
(***************************************************************************)
EXTENDS InstanceConnections, FiniteSetTheorems, TLAPS

Label == {"nothing", "upgrade", "wait", "text", "leave"}

LEMMA NextCases ==
  ASSUME Next
  PROVE  \/ \E p \in Presence : \/ Renew(p) \/ Expire(p) \/ ExpireRenewed(p)
                                \/ CloseScript(p) \/ CloseConnection(p) \/ CloseDropped(p)
         \/ \E p \in Presence, due \in SUBSET Presence : Create(p, due)
         \/ \E c \in Conn : Connect(c) \/ Register(c) \/ Refused(c) \/ GiveUp(c)
         \/ \E c \in Conn : Text(c) \/ Respond(c) \/ Heartbeat(c) \/ Break(c)
         \/ \E c \in Conn : Unregister(c)
BY DEF Next

\* What create comes to for born, token and mapped.
LEMMA CreateCases ==
  ASSUME NEW p, NEW due, Create(p, due)
  PROVE  /\ p \notin born
         /\ \/ UNCHANGED <<born, token, mapped>>
            \/ /\ born' = born \cup {p} /\ mapped' = mapped \cup {p}
               /\ token' = [token EXCEPT ![p] = 1]
BY DEF Create
-----------------------------------------------------------------------------
(* Types.                                                                  *)

LEMMA InitType == Init => TypeOK
BY ConnectionsAssumption DEF Init, Registry!Init, TypeOK

LEMMA InstanceStepType ==
  ASSUME TypeOK, NEW p \in Presence,
         \/ \E due \in SUBSET Presence : Create(p, due)
         \/ Renew(p) \/ Expire(p) \/ ExpireRenewed(p) \/ CloseScript(p) \/ CloseDropped(p)
  PROVE  TypeOK'
<1>1. token' \in [Presence -> 0..MaxTokens]
  <2>1. CASE Renew(p)
    <3>1. token[p] \in 1..(MaxTokens - 1) /\ token' = [token EXCEPT ![p] = token[p] + 1]
      BY <2>1 DEF Renew
    <3>2. token[p] + 1 \in 0..MaxTokens
      BY <3>1, ConnectionsAssumption
    <3> QED BY <3>1, <3>2 DEF TypeOK
  <2>2. ASSUME NEW due \in SUBSET Presence, Create(p, due)
        PROVE  token' \in [Presence -> 0..MaxTokens]
    <3>1. token' = token \/ token' = [token EXCEPT ![p] = 1]
      BY <2>2 DEF Create
    <3> QED BY <3>1, ConnectionsAssumption DEF TypeOK
  <2>3. CASE Expire(p) \/ ExpireRenewed(p) \/ CloseScript(p) \/ CloseDropped(p)
    BY <2>3, ConnectionsAssumption
    DEF Expire, ExpireRenewed, CloseScript, CloseDropped, instances, TypeOK
  <2> QED BY <2>1, <2>2, <2>3
<1>2. UNCHANGED <<owner, stage, doing, seen, late>>
  BY DEF Create, Renew, Expire, ExpireRenewed, CloseScript, CloseDropped, closing
<1>3. born' \subseteq Presence /\ mapped' \subseteq Presence
  <2>1. ASSUME NEW due \in SUBSET Presence, Create(p, due)
        PROVE  born' \subseteq Presence /\ mapped' \subseteq Presence
    BY <2>1, CreateCases DEF TypeOK
  <2>2. CASE \/ Renew(p) \/ Expire(p) \/ ExpireRenewed(p) \/ CloseScript(p)
             \/ CloseDropped(p)
    BY <2>2 DEF Renew, Expire, ExpireRenewed, CloseScript, CloseDropped, instances, TypeOK
  <2> QED BY <2>1, <2>2
<1>4. closer' \in [Presence -> {"none", "script", "closed", "dropped"}]
  BY DEF Create, Renew, Expire, ExpireRenewed, CloseScript, CloseDropped, closing, TypeOK
<1>5. slot' \subseteq Presence /\ ousted' \subseteq Presence
  BY DEF Create, Renew, Expire, ExpireRenewed, CloseScript, CloseDropped, instances, TypeOK
<1> QED BY <1>1, <1>2, <1>3, <1>4, <1>5 DEF TypeOK

LEMMA CloseConnectionType ==
  ASSUME TypeOK, NEW p \in Presence, CloseConnection(p)
  PROVE  TypeOK'
<1>1. /\ owner' = [q \in Presence |-> IF q = p THEN NoConn ELSE owner[q]]
      /\ closer' = [closer EXCEPT ![p] = "closed"]
      /\ late' \subseteq Conn
      /\ UNCHANGED <<stage, doing, seen, born, token, mapped, slot, ousted>>
  BY DEF CloseConnection, Registry!Revoke, instances, TypeOK
<1> QED BY <1>1 DEF TypeOK

\* A step of a connection's task leaves the instances and the closers alone,
\* and keeps the task's place in line with the stage of its connection.
LEMMA TaskStepType ==
  ASSUME TypeOK, NEW c \in Conn,
         Text(c) \/ Respond(c) \/ Heartbeat(c) \/ Break(c)
  PROVE  TypeOK'
<1>1. UNCHANGED <<owner, stage, seen, instances, closer, late>>
  BY DEF Text, Respond, Heartbeat, Break, closing
<1>2. PICK label \in {"wait", "text", "leave"} : doing' = [doing EXCEPT ![c] = label]
  BY DEF Text, Respond, Heartbeat, Break, Goto
<1>3. doing[c] \in {"wait", "text"}
  BY DEF Text, Respond, Heartbeat, Break, At
<1> QED BY <1>1, <1>2, <1>3 DEF TypeOK, instances

LEMMA AdmissionType ==
  ASSUME TypeOK, NEW c \in Conn,
         Connect(c) \/ Register(c) \/ Refused(c) \/ GiveUp(c) \/ Unregister(c)
  PROVE  TypeOK'
<1> PresenceOf[c] \in Presence
  BY ConnectionsAssumption
<1>1. CASE Connect(c)
  <2>1. /\ stage[c] = "waiting"
        /\ seen' = [seen EXCEPT ![c] = token[PresenceOf[c]]]
        /\ doing' = [doing EXCEPT ![c] = "upgrade"]
        /\ UNCHANGED <<owner, stage, instances, closer, late>>
    BY <1>1 DEF Connect, Goto, closing
  <2>2. token[PresenceOf[c]] \in 0..MaxTokens
    BY DEF TypeOK, instances
  <2> QED BY <2>1, <2>2 DEF TypeOK, instances
<1>2. CASE Register(c)
  <2>1. /\ owner' = [owner EXCEPT ![PresenceOf[c]] = c]
        /\ stage' = [stage EXCEPT ![c] = "serving"]
        /\ doing' = [doing EXCEPT ![c] = "wait"]
        /\ UNCHANGED <<seen, instances, closer, late>>
    BY <1>2 DEF Register, Registry!Take, Goto, closing
  <2> QED BY <2>1 DEF TypeOK, instances
<1>3. CASE Refused(c) \/ GiveUp(c)
  <2>1. /\ stage[c] = "waiting"
        /\ stage' = [stage EXCEPT ![c] = "over"]
        /\ doing' = [doing EXCEPT ![c] = "nothing"]
        /\ UNCHANGED <<owner, seen, instances, closer, late>>
    BY <1>3 DEF Refused, GiveUp, Registry!Refuse, Goto, closing
  <2> QED BY <2>1 DEF TypeOK, instances
<1>4. CASE Unregister(c)
  <2>1. /\ stage' = [stage EXCEPT ![c] = "over"]
        /\ doing' = [doing EXCEPT ![c] = "nothing"]
        /\ owner' = [owner EXCEPT ![PresenceOf[c]] =
                       IF owner[PresenceOf[c]] = c THEN NoConn ELSE owner[PresenceOf[c]]]
        /\ UNCHANGED <<seen, instances, closer, late>>
    BY <1>4 DEF Unregister, Registry!Finish, Goto, closing
  <2>2. \A p \in Presence : owner'[p] = owner[p] \/ owner'[p] = NoConn
    BY <2>1 DEF TypeOK, instances
  <2>3. \A p \in Presence : owner'[p] # c
    <3> SUFFICES ASSUME NEW p \in Presence, owner'[p] = c PROVE FALSE
      OBVIOUS
    <3>1. c # NoConn
      BY ConnectionsAssumption
    <3>2. owner[p] = c
      BY <3>1, <2>2
    <3>3. PresenceOf[c] = p
      BY <3>1, <3>2 DEF TypeOK, instances
    <3> QED BY <2>1, <3>1, <3>2, <3>3 DEF TypeOK, instances
  <2>4. owner' \in [Presence -> Conn \cup {NoConn}]
    BY <2>1, <2>2 DEF TypeOK, instances
  <2>5. \A p \in Presence : owner'[p] # NoConn =>
          PresenceOf[owner'[p]] = p /\ stage'[owner'[p]] = "serving"
    <3> SUFFICES ASSUME NEW p \in Presence, owner'[p] # NoConn
                 PROVE  PresenceOf[owner'[p]] = p /\ stage'[owner'[p]] = "serving"
      OBVIOUS
    <3>1. owner'[p] = owner[p] /\ owner[p] # c /\ owner[p] \in Conn
      BY <2>2, <2>3 DEF TypeOK, instances
    <3> QED BY <2>1, <3>1 DEF TypeOK, instances
  <2>6. \A d \in Conn : stage'[d] = "serving" <=> doing'[d] \in {"wait", "text", "leave"}
    BY <2>1 DEF TypeOK, instances
  <2> QED BY <2>1, <2>4, <2>5, <2>6 DEF TypeOK, instances
<1> QED BY <1>1, <1>2, <1>3, <1>4

LEMMA NextType == TypeOK /\ [Next]_vars => TypeOK'
<1> SUFFICES ASSUME TypeOK, [Next]_vars PROVE TypeOK'
  OBVIOUS
<1>1. CASE UNCHANGED vars
  BY <1>1 DEF vars, instances, closing, TypeOK
<1>2. CASE Next
  BY <1>2, NextCases, InstanceStepType, CloseConnectionType, TaskStepType, AdmissionType
<1> QED BY <1>1, <1>2

(* The registry's entries lead to connections that serve the instance they *)
(* authenticated as, whose tasks are in their loops or on the way out.     *)
THEOREM TypeCorrect == Spec => []TypeOK
<1> QED BY InitType, NextType, PTL DEF Spec
-----------------------------------------------------------------------------
(* A closed instance is served by nobody who came later.                   *)

\* An instance has a token only if it was created, and one whose closing has
\* begun has none, nor will it have one: it is not created again.
Final ==
  \A p \in Presence : /\ token[p] # 0 => p \in born
                      /\ closer[p] # "none" => p \in born /\ token[p] = 0

\* What is yet to be upgraded for an instance that was closed is late, too.
ClosedAdmitsLate ==
  \A p \in Presence, c \in Conn :
    closer[p] = "closed" /\ PresenceOf[c] = p /\ doing[c] = "upgrade" => c \in late

\* Who is being upgraded was authenticated.
Authenticated == \A c \in Conn : doing[c] = "upgrade" => seen[c] # 0

ServeInv == TypeOK /\ Final /\ ClosedAdmitsLate /\ ClosedServesLate /\ Authenticated

LEMMA InstanceStepServe ==
  ASSUME ServeInv, NEW p \in Presence,
         \/ \E due \in SUBSET Presence : Create(p, due)
         \/ Renew(p) \/ Expire(p) \/ ExpireRenewed(p) \/ CloseScript(p) \/ CloseDropped(p)
  PROVE  ServeInv'
<1>1. TypeOK'
  BY InstanceStepType DEF ServeInv
<1>2. UNCHANGED <<owner, stage, doing, seen, late>>
  BY DEF Create, Renew, Expire, ExpireRenewed, CloseScript, CloseDropped, closing
<1>3. /\ \A q \in Presence : q # p =>
            token'[q] = token[q] /\ closer'[q] = closer[q] /\ (q \in born' <=> q \in born)
      /\ born \subseteq born'
      /\ closer'[p] # "closed" \/ closer'[p] = closer[p]
  <2> DEFINE others == \A q \in Presence : q # p =>
               token'[q] = token[q] /\ closer'[q] = closer[q] /\ (q \in born' <=> q \in born)
             safe == others /\ born \subseteq born'
                     /\ (closer'[p] # "closed" \/ closer'[p] = closer[p])
  <2>1. ASSUME NEW due \in SUBSET Presence, Create(p, due) PROVE safe
    <3>1. UNCHANGED closer
      BY <2>1 DEF Create, closing
    <3> QED BY <2>1, <3>1, CreateCases DEF ServeInv, TypeOK
  <2>2. CASE \/ Renew(p) \/ Expire(p) \/ ExpireRenewed(p) \/ CloseScript(p)
             \/ CloseDropped(p)
    BY <2>2 DEF Renew, Expire, ExpireRenewed, CloseScript, CloseDropped, instances,
                closing, ServeInv, TypeOK
  <2> QED BY <2>1, <2>2
<1>4. Final'
  <2>1. /\ token'[p] # 0 => p \in born'
        /\ closer'[p] # "none" => p \in born' /\ token'[p] = 0
    <3>1. CASE \E due \in SUBSET Presence : Create(p, due)
      BY <3>1 DEF Create, closing, ServeInv, Final, TypeOK
    <3>2. CASE Renew(p)
      BY <3>2 DEF Renew, closing, ServeInv, Final, TypeOK
    <3>3. CASE Expire(p)
      BY <3>3 DEF Expire, closing, ServeInv, Final, TypeOK
    <3>4. CASE CloseScript(p)
      BY <3>4 DEF CloseScript, ServeInv, Final, TypeOK
    <3>5. CASE CloseDropped(p)
      BY <3>5 DEF CloseDropped, instances, ServeInv, Final, TypeOK
    <3>6. CASE ExpireRenewed(p)
      BY <3>6 DEF ExpireRenewed, closing, ServeInv, Final, TypeOK
    <3> QED BY <3>1, <3>2, <3>3, <3>4, <3>5, <3>6
  <2> QED BY <1>3, <2>1 DEF ServeInv, Final
<1>5. \A q \in Presence : closer'[q] = "closed" => closer[q] = "closed"
  BY <1>3
<1> QED
  BY <1>1, <1>2, <1>4, <1>5
  DEF ServeInv, ClosedAdmitsLate, ClosedServesLate, Authenticated

LEMMA CloseConnectionServe ==
  ASSUME ServeInv, NEW p \in Presence, CloseConnection(p)
  PROVE  ServeInv'
<1>1. /\ owner' = [q \in Presence |-> IF q = p THEN NoConn ELSE owner[q]]
      /\ closer[p] = "script" /\ closer' = [closer EXCEPT ![p] = "closed"]
      /\ late' = late \cup {c \in Conn : PresenceOf[c] = p /\ doing[c] = "upgrade"}
      /\ UNCHANGED <<stage, doing, seen, born, token>>
  BY DEF CloseConnection, Registry!Revoke, At, instances
<1>2. TypeOK'
  BY CloseConnectionType DEF ServeInv
<1>3. Final'
  BY <1>1 DEF ServeInv, Final, TypeOK
<1>4. ClosedAdmitsLate'
  BY <1>1 DEF ServeInv, ClosedAdmitsLate, TypeOK
<1>5. ClosedServesLate'
  BY <1>1 DEF ServeInv, ClosedServesLate, TypeOK
<1>6. Authenticated'
  BY <1>1 DEF ServeInv, Authenticated
<1> QED BY <1>2, <1>3, <1>4, <1>5, <1>6 DEF ServeInv

LEMMA ConnStepServe ==
  ASSUME ServeInv, NEW c \in Conn,
         \/ Connect(c) \/ Register(c) \/ Refused(c) \/ GiveUp(c)
         \/ Text(c) \/ Respond(c) \/ Heartbeat(c) \/ Break(c) \/ Unregister(c)
  PROVE  ServeInv'
<1> PresenceOf[c] \in Presence
  BY ConnectionsAssumption
<1>1. TypeOK'
  BY TaskStepType, AdmissionType DEF ServeInv
<1>2. UNCHANGED <<born, token, closer, late>>
  BY DEF Connect, Register, Refused, GiveUp, Text, Respond, Heartbeat, Break, Unregister,
         instances, closing
<1>3. Final'
  BY <1>2 DEF ServeInv, Final
<1>4. CASE Connect(c)
  <2>1. /\ token[PresenceOf[c]] # 0
        /\ doing' = [doing EXCEPT ![c] = "upgrade"]
        /\ seen' = [seen EXCEPT ![c] = token[PresenceOf[c]]]
        /\ UNCHANGED owner
    BY <1>4 DEF Connect, Goto
  <2>2. closer[PresenceOf[c]] = "none"
    BY <2>1 DEF ServeInv, Final
  <2>3. ClosedAdmitsLate'
    BY <1>2, <2>1, <2>2 DEF ServeInv, ClosedAdmitsLate, TypeOK
  <2>4. Authenticated'
    BY <2>1 DEF ServeInv, Authenticated, TypeOK
  <2> QED BY <1>1, <1>2, <1>3, <2>1, <2>3, <2>4 DEF ServeInv, ClosedServesLate
<1>5. CASE ~ Connect(c)
  <2>1. UNCHANGED seen
    BY <1>5 DEF Register, Refused, GiveUp, Text, Respond, Heartbeat, Break, Unregister
  <2>2. PICK label \in Label \ {"upgrade"} : doing' = [doing EXCEPT ![c] = label]
    BY <1>5 DEF Register, Refused, GiveUp, Text, Respond, Heartbeat, Break, Unregister,
                Goto, Label
  <2>3. \A d \in Conn : doing'[d] = "upgrade" => doing[d] = "upgrade"
    BY <2>2 DEF ServeInv, TypeOK
  <2>4. \A p \in Presence :
          \/ owner'[p] = owner[p]
          \/ owner'[p] = NoConn
          \/ owner'[p] = c /\ p = PresenceOf[c] /\ doing[c] = "upgrade"
    <3>1. CASE Register(c)
      BY <3>1 DEF Register, Registry!Take, At, ServeInv, TypeOK
    <3>2. CASE Unregister(c)
      BY <3>2 DEF Unregister, Registry!Finish, ServeInv, TypeOK
    <3>3. CASE \/ Refused(c) \/ GiveUp(c)
               \/ Text(c) \/ Respond(c) \/ Heartbeat(c) \/ Break(c)
      BY <3>3 DEF Refused, GiveUp, Registry!Refuse, Text, Respond, Heartbeat, Break
    <3> QED BY <1>5, <3>1, <3>2, <3>3
  <2>5. ClosedServesLate'
    <3> SUFFICES ASSUME NEW p \in Presence, closer'[p] = "closed", owner'[p] # NoConn
                 PROVE  owner'[p] \in late'
      BY DEF ClosedServesLate
    <3>1. closer[p] = "closed" /\ late' = late
      BY <1>2
    <3>2. CASE owner'[p] = owner[p]
      BY <3>1, <3>2 DEF ServeInv, ClosedServesLate
    <3>3. CASE owner'[p] = c /\ p = PresenceOf[c] /\ doing[c] = "upgrade"
      BY <3>1, <3>3 DEF ServeInv, ClosedAdmitsLate
    <3> QED BY <2>4, <3>2, <3>3
  <2>6. ClosedAdmitsLate'
    BY <1>2, <2>3 DEF ServeInv, ClosedAdmitsLate
  <2>7. Authenticated'
    BY <2>1, <2>3 DEF ServeInv, Authenticated
  <2> QED BY <1>1, <1>3, <2>5, <2>6, <2>7 DEF ServeInv
<1> QED BY <1>4, <1>5

LEMMA ServeInvHolds == Spec => []ServeInv
<1>1. Init => ServeInv
  BY InitType
  DEF Init, Registry!Init, ServeInv, Final, ClosedAdmitsLate, ClosedServesLate, Authenticated
<1>2. ServeInv /\ [Next]_vars => ServeInv'
  <2> SUFFICES ASSUME ServeInv, [Next]_vars PROVE ServeInv'
    OBVIOUS
  <2>1. CASE UNCHANGED vars
    BY <2>1
    DEF vars, instances, closing, ServeInv, TypeOK, Final, ClosedAdmitsLate,
        ClosedServesLate, Authenticated
  <2>2. CASE Next
    BY <2>2, NextCases, InstanceStepServe, CloseConnectionServe, ConnStepServe
  <2> QED BY <2>1, <2>2
<1> QED BY <1>1, <1>2, PTL DEF Spec

(* Who serves an instance whose closing was answered was being upgraded    *)
(* when the registry was asked to close it.                                *)
THEOREM NobodySlipsIn == Spec => []ClosedServesLate
<1>1. ServeInv => ClosedServesLate
  BY DEF ServeInv
<1> QED BY <1>1, ServeInvHolds, PTL
-----------------------------------------------------------------------------
(* Those within the limit on instances never fill the registry.            *)

\* An instance that lives has its slot, or was ousted from it.
Slotted == \A p \in Presence : token[p] # 0 => p \in slot \cup ousted

\* The slots that count, and their limit.
Counted(f) == Members(f) \ ousted

SlotLimit == \A f \in Profile : Cardinality(Counted(f)) <= MaxInstances

LEMMA CountedFinite ==
  ASSUME TypeOK, NEW f
  PROVE  IsFiniteSet(Counted(f)) /\ Cardinality(Counted(f)) \in Nat
<1>1. Counted(f) \subseteq Presence
  BY DEF Counted, Members, TypeOK
<1> QED BY <1>1, FS_Subset, FS_CardinalityType, ConnectionsAssumption

\* What a step does to the slots, but for create: an instance may lose its slot,
\* and takes it only for its token.
LEMMA SlotSteps ==
  ASSUME TypeOK, Slotted, [Next]_vars,
         ~ \E p \in Presence, due \in SUBSET Presence : Create(p, due)
  PROVE  Slotted' /\ \A f : Counted(f)' \subseteq Counted(f)
<1>1. ASSUME UNCHANGED <<token, slot, ousted>>
      PROVE  Slotted' /\ \A f : Counted(f)' \subseteq Counted(f)
  BY <1>1 DEF Slotted, Counted, Members
<1>2. ASSUME NEW p \in Presence, Renew(p)
      PROVE  Slotted' /\ \A f : Counted(f)' \subseteq Counted(f)
  <2>1. /\ slot' = slot \cup {p} /\ UNCHANGED ousted /\ token[p] # 0
        /\ \A q \in Presence : q # p => token'[q] = token[q]
    BY <1>2 DEF Renew, TypeOK
  <2> QED BY <2>1 DEF Slotted, Counted, Members
<1>3. ASSUME NEW p \in Presence, Expire(p) \/ ExpireRenewed(p) \/ CloseScript(p)
      PROVE  Slotted' /\ \A f : Counted(f)' \subseteq Counted(f)
  <2>1. /\ slot' \subseteq slot /\ slot \ {p} \subseteq slot'
        /\ ousted \subseteq ousted'
        /\ p \in ousted' \/ token'[p] = 0
        /\ \A q \in Presence : q # p => token'[q] = token[q]
    <3>1. CASE Expire(p)
      BY <3>1 DEF Expire, TypeOK
    <3>2. CASE ExpireRenewed(p)
      BY <3>2 DEF ExpireRenewed, TypeOK
    <3>3. CASE CloseScript(p)
      BY <3>3 DEF CloseScript, TypeOK
    <3> QED BY <1>3, <3>1, <3>2, <3>3
  <2> QED BY <2>1 DEF Slotted, Counted, Members
<1>4. ASSUME NEW p \in Presence, CloseConnection(p) \/ CloseDropped(p)
      PROVE  UNCHANGED <<token, slot, ousted>>
  BY <1>4 DEF CloseConnection, CloseDropped, instances
<1>5. ASSUME NEW c \in Conn,
             \/ Connect(c) \/ Register(c) \/ Refused(c) \/ GiveUp(c)
             \/ Text(c) \/ Respond(c) \/ Heartbeat(c) \/ Break(c) \/ Unregister(c)
      PROVE  UNCHANGED <<token, slot, ousted>>
  BY <1>5 DEF Connect, Register, Refused, GiveUp, Text, Respond, Heartbeat, Break,
              Unregister, instances
<1>6. CASE UNCHANGED vars
  BY <1>1, <1>6 DEF vars, instances
<1> QED BY <1>1, <1>2, <1>3, <1>4, <1>5, <1>6, NextCases

\* create keeps what counts and lives, and adds one only where there is room.
LEMMA CreateSlots ==
  ASSUME TypeOK, Slotted, SlotLimit, NEW p \in Presence, NEW due, Create(p, due)
  PROVE  Slotted' /\ SlotLimit'
<1> DEFINE f == ProfileOf[p]
           kept == Members(f) \ (Dead \cup due)
           full == Cardinality(kept) >= MaxInstances
<1>1. /\ f \in Profile /\ kept \subseteq Members(f) /\ kept \subseteq Presence
      /\ IsFiniteSet(kept) /\ Cardinality(kept) \in Nat
  <2>1. f \in Profile /\ kept \subseteq Members(f) /\ kept \subseteq Presence
    BY ConnectionsAssumption DEF Members, TypeOK
  <2> QED BY <2>1, FS_Subset, FS_CardinalityType, ConnectionsAssumption
<1>2. /\ ousted' = ousted \cup (due \ Dead)
      /\ slot' = (slot \ (Members(f) \ kept)) \cup IF full THEN {} ELSE {p}
      /\ IF full THEN UNCHANGED token ELSE token' = [token EXCEPT ![p] = 1]
  BY DEF Create
<1>3. \A q \in Presence : token'[q] = token[q] \/ (~ full /\ q = p)
  BY <1>2 DEF TypeOK
<1>4. Slotted'
  <2> SUFFICES ASSUME NEW q \in Presence, token'[q] # 0
               PROVE  q \in slot' \cup ousted'
    BY DEF Slotted
  <2>1. CASE ~ full /\ q = p
    BY <1>2, <2>1
  <2>2. CASE token'[q] = token[q]
    <3>1. q \in slot \cup ousted /\ q \notin Dead
      BY <2>2 DEF Slotted, Dead
    <3> QED BY <1>2, <3>1
  <2> QED BY <1>3, <2>1, <2>2
<1>5. ASSUME NEW g \in Profile
      PROVE  Cardinality(Counted(g)') <= MaxInstances
  <2>1. CASE full \/ g # f
    <3>1. Counted(g)' \subseteq Counted(g)
      BY <1>1, <1>2, <2>1 DEF Counted, Members
    <3>2. /\ Cardinality(Counted(g)') <= Cardinality(Counted(g))
          /\ Cardinality(Counted(g)') \in Nat
      BY <3>1, CountedFinite, FS_Subset, FS_CardinalityType
    <3> QED BY <3>2, CountedFinite, ConnectionsAssumption DEF SlotLimit
  <2>2. CASE ~ full /\ g = f
    <3>1. Counted(g)' \subseteq kept \cup {p}
      BY <1>1, <1>2, <2>2 DEF Counted, Members
    <3>2. /\ IsFiniteSet(kept \cup {p})
          /\ Cardinality(kept \cup {p}) \in {Cardinality(kept), Cardinality(kept) + 1}
      <4> HIDE DEF kept
      <4> QED BY <1>1, FS_AddElement, Zenon
    <3>3. /\ Cardinality(Counted(g)') <= Cardinality(kept \cup {p})
          /\ Cardinality(Counted(g)') \in Nat
          /\ Cardinality(kept \cup {p}) \in Nat
      BY <3>1, <3>2, FS_Subset, FS_CardinalityType
    <3> QED BY <1>1, <2>2, <3>2, <3>3, ConnectionsAssumption
  <2> QED BY <2>1, <2>2
<1> QED BY <1>4, <1>5 DEF SlotLimit

SlotInv == Slotted /\ SlotLimit

LEMMA SlotInvHolds == Spec => []SlotInv
<1>1. Init => SlotInv
  <2> SUFFICES ASSUME Init PROVE SlotInv
    OBVIOUS
  <2>1. Slotted
    BY DEF Init, Slotted
  <2>2. ASSUME NEW f \in Profile PROVE Cardinality(Counted(f)) <= MaxInstances
    <3>1. Counted(f) = {}
      BY DEF Init, Counted, Members
    <3> QED BY <3>1, FS_EmptySet, ConnectionsAssumption
  <2> QED BY <2>1, <2>2 DEF SlotInv, SlotLimit
<1>2. TypeOK /\ SlotInv /\ [Next]_vars => SlotInv'
  <2> SUFFICES ASSUME TypeOK, Slotted, SlotLimit, [Next]_vars PROVE SlotInv'
    BY DEF SlotInv
  <2>1. ASSUME NEW p \in Presence, NEW due \in SUBSET Presence, Create(p, due) PROVE SlotInv'
    BY <2>1, CreateSlots DEF SlotInv
  <2>2. CASE ~ \E p \in Presence, due \in SUBSET Presence : Create(p, due)
    <3>1. Slotted' /\ \A f : Counted(f)' \subseteq Counted(f)
      BY <2>2, SlotSteps
    <3>2. ASSUME NEW f \in Profile PROVE Cardinality(Counted(f)') <= MaxInstances
      <4>1. /\ Cardinality(Counted(f)') <= Cardinality(Counted(f))
            /\ Cardinality(Counted(f)') \in Nat
        BY <3>1, CountedFinite, FS_Subset, FS_CardinalityType
      <4> QED BY <4>1, CountedFinite, ConnectionsAssumption DEF SlotLimit
    <3> QED BY <3>1, <3>2 DEF SlotInv, SlotLimit
  <2> QED BY <2>1, <2>2
<1> QED BY <1>1, <1>2, TypeCorrect, PTL DEF Spec

\* Were every owned instance of the profile alive and within the limit, the one
\* that asks would be one more that is, and the limit exceeded.
LEMMA RefusalFindsGone ==
  ASSUME TypeOK, Authenticated, Slotted, SlotLimit, NEW c \in Conn, Refused(c), ~ Stale(c)
  PROVE  \/ PresenceOf[c] \in ousted
         \/ \E p \in Presence : /\ owner[p] # NoConn /\ p \in Dead \cup ousted
                                /\ ProfileOf[p] = ProfileOf[PresenceOf[c]]
<1> DEFINE own == PresenceOf[c]
           f == ProfileOf[own]
           owned == Registry!Owned(f)
<1> SUFFICES ASSUME own \notin ousted,
                    \A p \in Presence :
                      owner[p] # NoConn /\ ProfileOf[p] = f => p \notin Dead \cup ousted
             PROVE  FALSE
  OBVIOUS
<1>1. own \in Presence /\ f \in Profile
  BY ConnectionsAssumption
<1>2. /\ owner[own] = NoConn /\ Cardinality(owned) >= MaxPerProfile
      /\ doing[c] = "upgrade"
  BY DEF Refused, Exceeds, At
<1>3. token[own] # 0
  BY <1>2 DEF Stale, Authenticated
<1>4. owned \subseteq Counted(f) \ {own}
  BY <1>2 DEF Registry!Owned, Counted, Members, Slotted, Dead
<1>5. own \in Counted(f)
  BY <1>1, <1>3 DEF Counted, Members, Slotted
<1>6. IsFiniteSet(Counted(f)) /\ Cardinality(Counted(f)) \in Nat
  BY CountedFinite
<1>7. /\ IsFiniteSet(Counted(f) \ {own})
      /\ Cardinality(Counted(f) \ {own}) = Cardinality(Counted(f)) - 1
  BY <1>5, <1>6, FS_RemoveElement
<1>8. /\ Cardinality(owned) <= Cardinality(Counted(f) \ {own})
      /\ Cardinality(owned) \in Nat
  BY <1>4, <1>7, FS_Subset, FS_CardinalityType
<1>9. Cardinality(Counted(f)) <= MaxInstances
  BY <1>1 DEF SlotLimit
<1> HIDE DEF own, f, owned
<1> QED BY <1>2, <1>6, <1>7, <1>8, <1>9, ConnectionsAssumption

(* An instance that lives is turned away only for an instance of its       *)
(* profile that is gone and still has a connection, or when one of them    *)
(* lost its slot while it lived and so went past the limit on instances.   *)
THEOREM LivingNeverFill == Spec => RefusedForGone
<1>1. TypeOK /\ Authenticated /\ SlotInv /\ [Next]_vars =>
        [\A c \in Conn : Refused(c) /\ ~ Stale(c) =>
           \/ PresenceOf[c] \in ousted
           \/ \E p \in Presence : /\ owner[p] # NoConn /\ p \in Dead \cup ousted
                                  /\ ProfileOf[p] = ProfileOf[PresenceOf[c]]]_vars
  BY RefusalFindsGone DEF SlotInv
<1>2. ServeInv => TypeOK /\ Authenticated
  BY DEF ServeInv
<1> QED BY <1>1, <1>2, ServeInvHolds, SlotInvHolds, PTL DEF Spec, RefusedForGone
-----------------------------------------------------------------------------
(* A token that is no longer the one never is again.                       *)

\* A token was seen when it was the current one, before those that came since.
Seen ==
  /\ \A c \in Conn : seen[c] # 0 =>
       /\ PresenceOf[c] \in born
       /\ token[PresenceOf[c]] # 0 => seen[c] <= token[PresenceOf[c]]
  /\ \A c \in Conn : stage[c] = "waiting" /\ doing[c] = "nothing" => seen[c] = 0

\* What happens to the tokens while the connections stand still.
TokenSteps ==
  /\ UNCHANGED <<stage, doing, seen>> /\ born \subseteq born'
  /\ \A p \in Presence : p \in born =>
       token'[p] = 0 \/ token'[p] = token[p] \/ (token[p] # 0 /\ token'[p] = token[p] + 1)

\* What happens to a connection while the tokens stand still.
ConnSteps ==
  /\ UNCHANGED <<born, token>>
  /\ \A c \in Conn :
       \/ /\ seen'[c] = seen[c]
          /\ stage'[c] = "waiting" /\ doing'[c] = "nothing"
               => stage[c] = "waiting" /\ doing[c] = "nothing"
       \/ /\ seen[c] = 0 /\ seen'[c] = token[PresenceOf[c]] /\ seen'[c] # 0
          /\ doing'[c] # "nothing"

LEMMA StepKinds ==
  ASSUME TypeOK, Seen, [Next]_vars
  PROVE  TokenSteps \/ ConnSteps
<1>1. ASSUME NEW p \in Presence,
             \/ \E due \in SUBSET Presence : Create(p, due)
             \/ Renew(p) \/ Expire(p) \/ ExpireRenewed(p) \/ CloseScript(p)
      PROVE  TokenSteps
  <2>1. UNCHANGED <<stage, doing, seen>> /\ born \subseteq born'
    BY <1>1 DEF Create, Renew, Expire, ExpireRenewed, CloseScript
  <2>2. \A q \in Presence : q \in born =>
          token'[q] = 0 \/ token'[q] = token[q] \/ (token[q] # 0 /\ token'[q] = token[q] + 1)
    <3>1. ASSUME NEW due \in SUBSET Presence, Create(p, due), NEW q \in born
          PROVE  q \in Presence => token'[q] = token[q]
      BY <3>1, CreateCases DEF TypeOK
    <3>2. CASE Renew(p) \/ Expire(p) \/ ExpireRenewed(p) \/ CloseScript(p)
      BY <3>2 DEF Renew, Expire, ExpireRenewed, CloseScript, TypeOK
    <3> QED BY <1>1, <3>1, <3>2
  <2> QED BY <2>1, <2>2 DEF TokenSteps
<1>2. ASSUME NEW p \in Presence, CloseDropped(p) PROVE ConnSteps
  BY <1>2 DEF CloseDropped, instances, ConnSteps
<1>3. ASSUME NEW p \in Presence, CloseConnection(p) PROVE ConnSteps
  BY <1>3 DEF CloseConnection, Registry!Revoke, instances, ConnSteps
<1>4. ASSUME NEW c \in Conn, Connect(c) PROVE ConnSteps
  <2>1. /\ stage[c] = "waiting" /\ doing[c] = "nothing" /\ token[PresenceOf[c]] # 0
        /\ seen' = [seen EXCEPT ![c] = token[PresenceOf[c]]]
        /\ doing' = [doing EXCEPT ![c] = "upgrade"]
        /\ UNCHANGED <<stage, born, token>>
    BY <1>4 DEF Connect, At, Goto, instances
  <2>2. seen[c] = 0
    BY <2>1 DEF Seen
  <2> QED BY <2>1, <2>2 DEF ConnSteps, TypeOK
<1>5. ASSUME NEW c \in Conn, Register(c) PROVE ConnSteps
  BY <1>5 DEF Register, Registry!Take, Goto, instances, ConnSteps, TypeOK
<1>6. ASSUME NEW c \in Conn, Refused(c) \/ GiveUp(c) PROVE ConnSteps
  BY <1>6 DEF Refused, GiveUp, Registry!Refuse, Goto, instances, ConnSteps, TypeOK
<1>7. ASSUME NEW c \in Conn, Unregister(c) PROVE ConnSteps
  BY <1>7 DEF Unregister, Registry!Finish, Goto, instances, ConnSteps, TypeOK
<1>8. ASSUME NEW c \in Conn, Text(c) \/ Respond(c) \/ Heartbeat(c) \/ Break(c)
      PROVE  ConnSteps
  BY <1>8 DEF Text, Respond, Heartbeat, Break, Goto, instances, ConnSteps, TypeOK
<1>9. CASE UNCHANGED vars
  BY <1>9 DEF vars, instances, ConnSteps
<1> QED BY <1>1, <1>2, <1>3, <1>4, <1>5, <1>6, <1>7, <1>8, <1>9, NextCases

(* Once the token of a connection was renewed, has expired or was closed,  *)
(* no later renewal makes it the current one again, so that every later    *)
(* check of it fails.                                                      *)
THEOREM StaleStays == Spec => StaleForGood
<1> USE ConnectionsAssumption
<1>1. Init => Seen
  BY DEF Init, Seen
<1>2. TypeOK /\ Final /\ Seen /\ [Next]_vars => Seen'
  <2> SUFFICES ASSUME TypeOK, Final, Seen, TokenSteps \/ ConnSteps PROVE Seen'
    BY StepKinds
  <2>1. CASE TokenSteps
    BY <2>1 DEF TokenSteps, Seen, TypeOK
  <2>2. CASE ConnSteps
    <3>1. ASSUME NEW c \in Conn, seen'[c] # 0
          PROVE  /\ PresenceOf[c] \in born
                 /\ token[PresenceOf[c]] # 0 => seen'[c] <= token[PresenceOf[c]]
      BY <2>2, <3>1 DEF ConnSteps, Seen, Final, TypeOK
    <3>2. ASSUME NEW c \in Conn, stage'[c] = "waiting", doing'[c] = "nothing"
          PROVE  seen'[c] = 0
      BY <2>2, <3>2 DEF ConnSteps, Seen
    <3> QED BY <2>2, <3>1, <3>2 DEF ConnSteps, Seen
  <2> QED BY <2>1, <2>2
<1>3. TypeOK /\ Seen /\ [Next]_vars =>
        [\A c \in Conn : seen[c] # 0 /\ Stale(c) => Stale(c)']_vars
  <2> SUFFICES ASSUME TypeOK, Seen, TokenSteps \/ ConnSteps,
                      NEW c \in Conn, seen[c] # 0, Stale(c)
               PROVE  Stale(c)'
    BY StepKinds
  <2>1. CASE TokenSteps
    BY <2>1 DEF TokenSteps, Seen, Stale, TypeOK
  <2>2. CASE ConnSteps
    BY <2>2 DEF ConnSteps, Stale
  <2> QED BY <2>1, <2>2
<1>4. ServeInv => TypeOK /\ Final
  BY DEF ServeInv
<1> QED BY <1>1, <1>2, <1>3, <1>4, ServeInvHolds, PTL DEF Spec, StaleForGood
=============================================================================
