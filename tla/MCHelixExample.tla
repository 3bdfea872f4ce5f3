---------------------------- MODULE MCHelixExample ----------------------------
(* HelixExample for TLC.  handleRead is the callback at both ends. *)
EXTENDS HelixExample
CONSTANTS p1, p2, client, server, cb1
=============================================================================
