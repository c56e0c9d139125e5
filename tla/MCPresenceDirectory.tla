------------------------ MODULE MCPresenceDirectory ------------------------
(* Small instances of PresenceDirectory.                                   *)
EXTENDS PresenceDirectory, TLC

Symmetric == Permutations(Presence) \cup Permutations(Request)
=============================================================================
