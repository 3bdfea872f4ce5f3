--------------------------- MODULE HelixRsInterface ---------------------------
(***************************************************************************)
(* HelixRsInterface and the Rust functions behind it.  The wrapper calls   *)
(* the Rust function of the same name for each call on the socket.  The    *)
(* library is a stub: every helix_rs function logs a line and keeps no     *)
(* state, so what is worth keeping is which calls it has heard.  The       *)
(* wrapper's result codes are always 0 and its callers drop them.          *)
(***************************************************************************)
EXTENDS Sequences

CONSTANTS
  NullPacket,    \* a null Ptr<Packet>
  EmptyBuffer    \* a default FFISharedBuffer: no bytes

VARIABLES
  rsTold,        \* history: the last call Rust heard of those that open or close
                 \* a socket, which are Bind, Send and Close; "none" before
  rsSends        \* history: each Send of the wrapper, the packet it was given and
                 \* the buffer it gave Rust; Rust never gets the packet

rsVars == <<rsTold, rsSends>>

RsInit == rsTold = "none" /\ rsSends = << >>
-----------------------------------------------------------------------------
ConvertPacketToFFIBuff(p) == EmptyBuffer
ConvertFFIBuffToPacket(b) == NullPacket
helix_rs_recv(b) == b

(* Mutant: the packet Rust handed back is the result. *)
RecvDecoded(p) ==
  ConvertFFIBuffToPacket(helix_rs_recv(ConvertPacketToFFIBuff(p)))

(* The decoded packet is computed and dropped: the caller gets p back. *)
Recv(p) ==
  LET decoded == ConvertFFIBuffToPacket(helix_rs_recv(ConvertPacketToFFIBuff(p)))
  IN  p

helix_rs_bind == rsTold' = "Bind"
helix_rs_close == rsTold' = "Close"
helix_rs_send(buf) == rsTold' = "Send"

(* These two log as well, but say nothing of whether the socket is open. *)
helix_rs_connect == UNCHANGED rsTold
helix_rs_listen == UNCHANGED rsTold

(* Send ignores its packet and gives Rust a default buffer. *)
Send(p) ==
  /\ helix_rs_send(EmptyBuffer)
  /\ rsSends' = Append(rsSends, [pkt |-> p, buf |-> EmptyBuffer])

Bind == helix_rs_bind /\ UNCHANGED rsSends
Connect == helix_rs_connect /\ UNCHANGED rsSends
Listen == helix_rs_listen /\ UNCHANGED rsSends
Close == helix_rs_close /\ UNCHANGED rsSends
=============================================================================
