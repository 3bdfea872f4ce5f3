---------------------------- MODULE MCHelixSocket ----------------------------
(* HelixSocket for TLC: small sets and the bounds are given by the          *)
(* configurations.                                                         *)
EXTENDS HelixSocket, TLC

CONSTANTS p1, p2, a1, cb1, cb2

(* Payloads and callbacks are interchangeable in every property here. *)
SymPackets == Permutations(Packets)
Sym == SymPackets \cup Permutations(Cbs)
=============================================================================
