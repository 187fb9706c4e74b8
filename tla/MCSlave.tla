------------------------------ MODULE MCSlave ------------------------------
(* Small masters for the slave. *)
EXTENDS Slave

CONSTANTS a, b

One == {a}
Two == {a, b}
=============================================================================
