------------------------------ MODULE MCDBQueue ------------------------------
(* Instances of DBQueue for TLC. *)
EXTENDS DBQueue, TLC

CONSTANTS p1, p2, p3

MCTwo   == {p1, p2}
MCThree == {p1, p2, p3}
=============================================================================
