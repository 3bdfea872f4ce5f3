--------------------------- MODULE MCExampleSockets ---------------------------
(* ExampleSockets for TLC. *)
EXTENDS ExampleSockets
CONSTANTS p1, p2, a1, cb1
=============================================================================
