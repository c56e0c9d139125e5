-------------------------- MODULE MCSignalingRelay --------------------------
(***************************************************************************)
(* A small cast for the signaling relay: a guest and a host with one       *)
(* connection each.                                                        *)
(***************************************************************************)
EXTENDS SignalingRelay, TLC

CONSTANTS guest, host, g1, h1, s1

PairPresenceOf == (g1 :> guest) @@ (h1 :> host)
=============================================================================
