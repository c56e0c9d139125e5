----------------------- MODULE MCInstanceConnections -----------------------
(***************************************************************************)
(* Two instances of one profile, of which one may live at a time; two      *)
(* connections of the first and one of the second.                         *)
(***************************************************************************)
EXTENDS InstanceConnections, TLC

CONSTANTS alice, p1, p2, c1, c2, c3

MCProfileOf == [p \in {p1, p2} |-> alice]
MCPresenceOf == (c1 :> p1) @@ (c2 :> p1) @@ (c3 :> p2)
=============================================================================
