-------------------------- MODULE SignalingSession --------------------------
(***************************************************************************)
(* The state machine of one signaling session (SignalingSession and its    *)
(* register_* methods) and the checks continue_session makes before it     *)
(* calls them.  A session is a value: handlers read it from Redis, register *)
(* a message in their copy, and write the copy back.                       *)
(***************************************************************************)
EXTENDS Naturals

CONSTANTS
  Presence,     (* public ids of the runtime instances                     *)
  MaxIce        (* MAX_ICE_CANDIDATES_PER_SIDE                             *)

ASSUME SessionAssumption == MaxIce \in Nat

Kind == {"JOIN_REQUEST", "JOIN_ACCEPTED", "JOIN_REJECTED", "INVITE_DECLINED",
         "OFFER", "ANSWER", "ICE_CANDIDATE"}

\* A peer is a Presence: the profile of a Presence never changes.
Record == [initiator : Presence, target : Presence,
           joinAccepted : BOOLEAN, offerSent : BOOLEAN, answerSent : BOOLEAN,
           initiatorIce : Nat, targetIce : Nat, expiresAt : Nat]

NewSession(i, t, expires) ==
  [initiator |-> i, target |-> t,
   joinAccepted |-> FALSE, offerSent |-> FALSE, answerSent |-> FALSE,
   initiatorIce |-> 0, targetIce |-> 0, expiresAt |-> expires]

\* Faulty variant: the acceptance is looked at first.
PhaseBackwards(r) ==
  IF r.joinAccepted THEN "Accepted"
  ELSE IF r.offerSent THEN "OfferSent"
  ELSE IF r.answerSent THEN "AnswerSent"
  ELSE "PendingJoin"

Phase(r) ==
  IF r.answerSent THEN "AnswerSent"
  ELSE IF r.offerSent THEN "OfferSent"
  ELSE IF r.joinAccepted THEN "Accepted"
  ELSE "PendingJoin"

Peers(r) == {r.initiator, r.target}

\* The initiator is looked at first, for a peer that joins itself too.
Recipient(r, sender) == IF sender = r.initiator THEN r.target ELSE r.initiator

\* Who may send what: the role checks of continue_session.
\* Faulty variant: whoever is a peer may accept.
RoleAllowsAcceptance(r, kind, sender) ==
  /\ kind \in {"JOIN_REJECTED", "ANSWER"} => sender = r.target
  /\ kind \in {"INVITE_DECLINED", "OFFER"} => sender = r.initiator

RoleAllows(r, kind, sender) ==
  /\ kind \in {"JOIN_ACCEPTED", "JOIN_REJECTED", "ANSWER"} => sender = r.target
  /\ kind \in {"INVITE_DECLINED", "OFFER"} => sender = r.initiator

\* Faulty variant: the other side's candidates are counted.
IceCountOther(r, sender) ==
  IF sender = r.initiator THEN r.targetIce ELSE r.initiatorIce

IceCount(r, sender) ==
  IF sender = r.initiator THEN r.initiatorIce ELSE r.targetIce

\* When a register_* method answers Ok.
PhaseAllows(r, kind, sender) ==
  \/ kind = "JOIN_ACCEPTED" /\ Phase(r) = "PendingJoin"
  \/ kind = "JOIN_REJECTED" /\ Phase(r) = "PendingJoin"
  \/ kind = "INVITE_DECLINED" /\ Phase(r) \in {"PendingJoin", "Accepted"}
  \/ kind = "OFFER" /\ Phase(r) = "Accepted"
  \/ kind = "ANSWER" /\ Phase(r) = "OfferSent"
  \/ kind = "ICE_CANDIDATE" /\ r.offerSent /\ IceCount(r, sender) < MaxIce

\* What a register_* method changes.
Register(r, kind, sender) ==
  IF kind = "JOIN_ACCEPTED" THEN [r EXCEPT !.joinAccepted = TRUE]
  ELSE IF kind = "OFFER" THEN [r EXCEPT !.offerSent = TRUE]
  ELSE IF kind = "ANSWER" THEN [r EXCEPT !.answerSent = TRUE]
  ELSE IF sender = r.initiator THEN [r EXCEPT !.initiatorIce = @ + 1]
  ELSE [r EXCEPT !.targetIce = @ + 1]

\* The messages after which the session is deleted instead of written back.
Closing == {"JOIN_REJECTED", "INVITE_DECLINED"}

\* The messages for which the host's Presence is looked at again.
NeedsHost == {"JOIN_ACCEPTED", "OFFER"}

\* A session that came about by registered messages only.
WellFormed(r) ==
  /\ r.answerSent => r.offerSent
  /\ r.offerSent => r.joinAccepted
  /\ r.initiatorIce > 0 \/ r.targetIce > 0 => r.offerSent
  /\ r.initiatorIce <= MaxIce /\ r.targetIce <= MaxIce
=============================================================================
