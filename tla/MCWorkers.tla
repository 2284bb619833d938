------------------------------- MODULE MCWorkers -------------------------------
(* Instances of Workers for TLC.                                            *)
EXTENDS Workers

CONSTANTS w1, w2, w3, a, b, c, d

ThreeThreads == {w1, w2, w3}
FourConns == {a, b, c, d}
=============================================================================
