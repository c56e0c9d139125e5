------------------------- MODULE MCRuntimeInstances -------------------------
(***************************************************************************)
(* RuntimeInstances for TLC: two ticks make a second, and every time to    *)
(* live is a small number of them.                                         *)
(***************************************************************************)
EXTENDS RuntimeInstances, TLC

Symmetry == Permutations(Presence) \cup Permutations(Token) \cup Permutations(Request)
=============================================================================
