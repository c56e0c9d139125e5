------------------------ MODULE MCConnectionRegistry ------------------------
(***************************************************************************)
(* Two Presences of one profile: two connections compete for the first     *)
(* Presence, a third one serves the second.                                *)
(***************************************************************************)
EXTENDS ConnectionRegistry, TLC

CONSTANTS alice, p1, p2, c1, c2, c3

MCProfileOf == [p \in {p1, p2} |-> alice]
MCPresenceOf == (c1 :> p1) @@ (c2 :> p1) @@ (c3 :> p2)
=============================================================================
