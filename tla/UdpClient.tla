------------------------------ MODULE UdpClient ------------------------------
(***************************************************************************)
(* The application's side of a socket, common to DirectSocket (on UDP) and *)
(* HelixSocket (on HELIX).  The simulator has one thread, so control is a  *)
(* stack of activations, newest first: a Send that UDP has not completed,  *)
(* or application code run by a callback.  With an empty stack the         *)
(* application runs from an event of its own, or the next event comes.     *)
(***************************************************************************)
EXTENDS UdpSocket

CONSTANT Cbs     \* the application's callbacks

ASSUME CbAssumption == NoCb \notin Cbs

VARIABLES
  frames,        \* activations, newest first
  ret,           \* what the last call that returned gave the application
  received       \* history: the packets the application was given by Recv

clientVars == <<frames, ret, received>>

(* asked is the address the application gave (NoAddr for Send, which takes *)
(* none) and dst the one UDP is told to send to.                           *)
SendFrame(asked, p, dst) ==
  [kind |-> "send", asked |-> asked, pkt |-> p, dst |-> dst]
(* sock is the socket the callback is given: the one it was set on ("own") *)
(* or the UDP socket beneath it ("inner").                                 *)
RecvUpcall(cb, sock) == [kind |-> "recvUpcall", cb |-> cb, sock |-> sock]
SendUpcall(cb, sock) == [kind |-> "sendUpcall", cb |-> cb, sock |-> sock]

SendFrames ==
  [kind : {"send"}, asked : Addrs \cup {NoAddr}, pkt : Packets,
   dst : Addrs \cup {NoAddr}]
Upcalls ==
  [kind : {"recvUpcall", "sendUpcall"}, cb : Cbs, sock : {"own", "inner"}]

AppRunning == frames # << >> => Head(frames).kind \in {"recvUpcall", "sendUpcall"}
Sending == frames # << >> /\ Head(frames).kind = "send"

ClientInit == frames = << >> /\ ret = "none" /\ received = << >>

(* A call that returns r to the application and does nothing else to it. *)
Returns(r) == ret' = r /\ UNCHANGED <<frames, received>>

(* Recv and RecvFrom hand p (possibly null) to the application. *)
Receives(p) ==
  /\ ret' = p
  /\ received' = IF p = NullPacket THEN received ELSE Append(received, p)
  /\ UNCHANGED frames

(* A callback of the application returns; from a sendUpcall the Send that   *)
(* caused it then returns its byte count.                                  *)
UpcallReturns ==
  /\ frames # << >> /\ AppRunning
  /\ frames' = Tail(frames)
  /\ ret' = IF Head(frames).kind = "sendUpcall" THEN "ok" ELSE ret
  /\ UNCHANGED received
=============================================================================
