---------------------------- MODULE MCNetServer ----------------------------
(* Constants for checking NetServer: two sockets, so that the sender can    *)
(* take the one an accepted connection needs, and a ring of three slots,    *)
(* less than the listener asks for and no more than there are connections.  *)
(* No action tells sockets or connections apart, so both are symmetric.     *)
EXTENDS NetServer, TLC

CONSTANTS s1, s2, c1, c2, c3

MCSockIds == {s1, s2}
MCConns == {c1, c2, c3}
MCRequests == {5}
MCSymmetry == Permutations(MCSockIds) \union Permutations(MCConns)
=============================================================================
