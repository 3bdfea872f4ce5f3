----------------------------- MODULE MCHelixStack -----------------------------
(* HelixStack for TLC.  Two protocols make adding HELIX twice possible. *)
EXTENDS HelixStack
CONSTANTS h1, h2, s1, s2
=============================================================================
