---------------------------- MODULE MCTimekeeper ----------------------------
(* Instances of Timekeeper for TLC.                                         *)
EXTENDS Timekeeper, TLC

CONSTANTS alice, bob, nil, r1, r2

TwoUsers == {alice, bob}
TwoRequests == {r1, r2}
OneStart == {1}
TwoStarts == {1, 2}

\* Users and requests are interchangeable in every definition.
Symmetry == Permutations(TwoUsers) \cup Permutations(TwoRequests)
=============================================================================
