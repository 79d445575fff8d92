--------------------------- MODULE MCInstructions ---------------------------
(***************************************************************************)
(* Long words of a few bits.                                               *)
(***************************************************************************)
EXTENDS Instructions

MCWeight == [i \in 0 .. Width |-> 2 ^ i]
=============================================================================
