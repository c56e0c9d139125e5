------------------------------ MODULE TokenLife ------------------------------
(***************************************************************************)
(* What the runtime tokens promise: a Presence has one token at a time,    *)
(* which is replaced in one step or taken away, and neither a token nor a  *)
(* Presence that had its time ever comes back.  The keys, scripts and      *)
(* requests of RuntimeInstances.tla are shown to implement this.           *)
(***************************************************************************)
EXTENDS TLAPS

CONSTANTS
  Presence,   (* public ids of the runtime instances                       *)
  Token,      (* what authenticates them                                   *)
  NoToken     (* nothing does                                              *)

VARIABLES
  current,    (* the token of a Presence                                   *)
  ids,        (* the Presences that may still be issued a token            *)
  tokens      (* the tokens that may still be issued                       *)

vars == <<current, ids, tokens>>

Init ==
  /\ current = [p \in Presence |-> NoToken]
  /\ ids = Presence
  /\ tokens = Token

\* What is not issued may be given up at any time.
Withdraw == ids' \subseteq ids /\ tokens' \subseteq tokens

\* An instance begins.
Issue(p, h) ==
  /\ p \in ids /\ h \in tokens
  /\ current' = [current EXCEPT ![p] = h]
  /\ p \notin ids' /\ h \notin tokens'
  /\ Withdraw

\* A token takes the place of another.
Renew(p, h) ==
  /\ current[p] # NoToken /\ h \in tokens
  /\ current' = [current EXCEPT ![p] = h]
  /\ h \notin tokens'
  /\ Withdraw

\* Instances end: closed, expired or rolled back.
End(S) ==
  /\ current' = [p \in Presence |-> IF p \in S THEN NoToken ELSE current[p]]
  /\ Withdraw

Next ==
  \/ \E p \in Presence, h \in Token : Issue(p, h) \/ Renew(p, h)
  \/ \E S \in SUBSET Presence : End(S)

Spec == Init /\ [][Next]_vars
-----------------------------------------------------------------------------
(* What follows from it, and so holds of whatever implements it.           *)

TypeOK ==
  /\ current \in [Presence -> Token \cup {NoToken}]
  /\ ids \subseteq Presence
  /\ tokens \subseteq Token

(* Safety: a token authenticates one Presence, and what is yet to be       *)
(* issued authenticates nobody.                                            *)
Injective ==
  /\ \A p, q \in Presence : current[p] = current[q] /\ current[p] # NoToken => p = q
  /\ \A p \in Presence : current[p] \notin tokens
  /\ \A p \in ids : current[p] = NoToken

Spent(h) == h \notin tokens /\ \A p \in Presence : current[p] # h
Over(p) == p \notin ids /\ current[p] = NoToken

(* Action property: neither a token nor a Presence that had its time ever  *)
(* comes back.                                                             *)
NeverAgain ==
  [][/\ \A h \in Token : Spent(h) => Spent(h)'
     /\ \A p \in Presence : Over(p) => Over(p)']_vars

LEMMA LifeInvariant == NoToken \notin Token => (Spec => [](TypeOK /\ Injective))
<1> SUFFICES ASSUME NoToken \notin Token PROVE Spec => [](TypeOK /\ Injective)
  OBVIOUS
<1>1. Init => TypeOK /\ Injective
  BY DEF Init, TypeOK, Injective
<1>2. TypeOK /\ Injective /\ [Next]_vars => TypeOK' /\ Injective'
  <2> SUFFICES ASSUME TypeOK, Injective, [Next]_vars PROVE TypeOK' /\ Injective'
    OBVIOUS
  <2>1. ASSUME NEW p \in Presence, NEW h \in Token, Issue(p, h)
        PROVE  TypeOK' /\ Injective'
    BY <2>1 DEF Issue, Withdraw, TypeOK, Injective
  <2>2. ASSUME NEW p \in Presence, NEW h \in Token, Renew(p, h)
        PROVE  TypeOK' /\ Injective'
    BY <2>2 DEF Renew, Withdraw, TypeOK, Injective
  <2>3. ASSUME NEW S \in SUBSET Presence, End(S) PROVE TypeOK' /\ Injective'
    BY <2>3 DEF End, Withdraw, TypeOK, Injective
  <2>4. CASE UNCHANGED vars
    BY <2>4 DEF vars, TypeOK, Injective
  <2> QED BY <2>1, <2>2, <2>3, <2>4 DEF Next
<1> QED BY <1>1, <1>2, PTL DEF Spec

(* A token that was replaced or taken away never authenticates anybody     *)
(* again, and a Presence that has ended is never issued another.           *)
THEOREM NeverAgainHolds == NoToken \notin Token => (Spec => NeverAgain)
<1> SUFFICES ASSUME NoToken \notin Token PROVE Spec => NeverAgain
  OBVIOUS
<1>1. TypeOK /\ [Next]_vars =>
        [/\ \A h \in Token : Spent(h) => Spent(h)'
         /\ \A p \in Presence : Over(p) => Over(p)']_vars
  <2> SUFFICES ASSUME TypeOK, Next
               PROVE  /\ \A h \in Token : Spent(h) => Spent(h)'
                      /\ \A p \in Presence : Over(p) => Over(p)'
    OBVIOUS
  <2>1. ASSUME NEW q \in Presence, NEW g \in Token, Issue(q, g) \/ Renew(q, g)
        PROVE  /\ \A h \in Token : Spent(h) => Spent(h)'
               /\ \A p \in Presence : Over(p) => Over(p)'
    <3>1. /\ g \in tokens /\ g \notin tokens' /\ tokens' \subseteq tokens
          /\ ids' \subseteq ids /\ (q \in ids \/ current[q] # NoToken)
          /\ current'[q] = g /\ \A p \in Presence : p # q => current'[p] = current[p]
      BY <2>1 DEF Issue, Renew, Withdraw, TypeOK
    <3> QED BY <3>1 DEF Spent, Over
  <2>2. ASSUME NEW S \in SUBSET Presence, End(S)
        PROVE  /\ \A h \in Token : Spent(h) => Spent(h)'
               /\ \A p \in Presence : Over(p) => Over(p)'
    BY <2>2 DEF End, Withdraw, Spent, Over
  <2> QED BY <2>1, <2>2 DEF Next
<1> QED BY <1>1, LifeInvariant, PTL DEF Spec, NeverAgain
=============================================================================
