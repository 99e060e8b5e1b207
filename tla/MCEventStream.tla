---------------------------- MODULE MCEventStream ----------------------------
(* Instances of EventStream for TLC. *)
EXTENDS EventStream

CONSTANTS e1, e2, e3, p1, p2

MCEvents == {e1, e2, e3}
MCProducers == {p1, p2}
=============================================================================
