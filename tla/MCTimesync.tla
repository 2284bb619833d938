------------------------------ MODULE MCTimesync ------------------------------
(* Instances of Timesync for TLC.                                           *)
EXTENDS Timesync

UpToFive == 1..5
=============================================================================
