------------------------------ MODULE MCTimer ------------------------------
(* Instances of Timer for TLC. *)
EXTENDS Timer

CONSTANTS main, c1, c2

MCCallers == {main, c1, c2}
=============================================================================
