-------------------------------- MODULE MCTags --------------------------------
(* Instances of Tags for TLC.                                               *)
EXTENDS Tags

CONSTANTS c1, r1, r2, u1, u2, n1, n2

OneConn == {c1}
TwoRequests == {r1, r2}
TwoUsers == {u1, u2}
TwoNames == {n1, n2}
=============================================================================
