---------------------------- MODULE MCFocusTimer ----------------------------
(* Instances of FocusTimer for TLC.                                         *)
EXTENDS FocusTimer

BackAndForth == {-2, -1, 2, 3}
=============================================================================
