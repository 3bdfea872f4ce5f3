--------------------------- MODULE MCSocketOptions ---------------------------
(* SocketOptions for TLC. *)
EXTENDS SocketOptions
CONSTANTS t0, t1, g1, g2
=============================================================================
