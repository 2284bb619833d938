----------------------------- MODULE MCLifecycle -----------------------------
(* Instances of Lifecycle for TLC.                                          *)
EXTENDS Lifecycle

CONSTANTS timekeeper, user, t1, t2, u1

TwoServices == {timekeeper, user}
ThreeInstances == {t1, t2, u1}
Containers == [i \in ThreeInstances |-> IF i = u1 THEN user ELSE timekeeper]
BothExporters == {"tracer", "logger"}
=============================================================================
