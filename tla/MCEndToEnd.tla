------------------------------ MODULE MCEndToEnd ------------------------------
(* EndToEnd for TLC: 17 bytes in writes of 5 that are cut to 3, and a       *)
(* receiver whose buffer holds one datagram.                               *)
EXTENDS EndToEnd
CONSTANTS a1, cb1, cb2
MCPackets == Chunks
=============================================================================
