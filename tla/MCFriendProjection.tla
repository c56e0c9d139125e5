------------------------- MODULE MCFriendProjection -------------------------
(* Small instances of FriendProjection.                                    *)
EXTENDS FriendProjection

CONSTANTS p1, p2, p3

OnePair == {{p1, p2}}
TwoPairs == {{p1, p2}, {p1, p3}}
=============================================================================
