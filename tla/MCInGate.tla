------------------------------ MODULE MCInGate ------------------------------
(* Two senders and buffers of one or two slots. *)
EXTENDS InGate

CONSTANTS s1, s2

MCSenders == {s1, s2}
=============================================================================
