--------------------------- MODULE MCLargeTransfer ---------------------------
(* LargeTransfer for TLC: 7 bytes in writes of at most 3, cut to 2 by UDP,  *)
(* so that writes begin at every offset and the last one is short.         *)
EXTENDS LargeTransfer
CONSTANTS a1, cb1
MCPackets == Chunks
=============================================================================
