----------------------------- MODULE DirectSocket -----------------------------
(***************************************************************************)
(* What helix-socket-impl.h (lines 130-142) promises of a HELIX socket:    *)
(* "it will be as if the same callback was passed directly to UDP".  Here  *)
(* the application really is on UDP: its callbacks are UDP's own, UDP      *)
(* skips a null one, and what Recv returns is what UDP queued.             *)
(***************************************************************************)
EXTENDS UdpClient

directVars == <<udpVars, clientVars>>

Init == UdpInit /\ ClientInit

(* Every call that returns at once. *)
Call ==
  /\ AppRunning
  /\ \E r \in Results :
       /\ \/ \E e \in {"any", "addr"} : UdpBind(e, r)
          \/ \E a \in Addrs : UdpConnect(a, r)
          \/ UdpListen(r)
          \/ UdpClose(r)
          \/ r = "ok" /\ (UdpShutdownSend \/ UdpShutdownRecv)
       /\ Returns(r)

Query ==
  /\ AppRunning
  /\ \E a \in {UdpRxAvailable, UdpSockName, UdpPeerName} : Returns(a)
  /\ UNCHANGED udpVars

SetCallback ==
  /\ AppRunning
  /\ \E cb \in Cbs \cup {NoCb} : UdpSetRecvCallback(cb) \/ UdpSetSendCallback(cb)
  /\ UNCHANGED clientVars

(* Send goes to the peer, SendTo to the address the application gave. *)
CallSend(p) ==
  /\ AppRunning
  /\ \/ frames' = <<SendFrame(NoAddr, p, peer)>> \o frames
     \/ \E a \in Addrs : frames' = <<SendFrame(a, p, a)>> \o frames
  /\ UNCHANGED <<udpVars, ret, received>>

(* UDP completes the Send on top of the stack and may notify the sender     *)
(* before the call returns.                                                *)
CompleteSend ==
  /\ Sending
  /\ \E r \in Results :
       /\ UdpSend(Head(frames).pkt, Head(frames).dst, r)
       /\ \/ frames' = Tail(frames) /\ ret' = r
          \/ /\ r = "ok" /\ sendCb # NoCb
             /\ frames' = <<SendUpcall(sendCb, "own")>> \o Tail(frames)
             /\ UNCHANGED ret
  /\ UNCHANGED received

(* A datagram arrives; UDP queues it and notifies the receiver, if any. *)
Deliver(p) ==
  /\ frames = << >>
  /\ UdpAccept(p)
  /\ frames' = IF recvCb = NoCb THEN << >> ELSE <<RecvUpcall(recvCb, "own")>>
  /\ UNCHANGED <<ret, received>>

Recv(p) == AppRunning /\ UdpRecv(p) /\ Receives(p)

ReturnUpcall == UpcallReturns /\ UNCHANGED udpVars

Next ==
  \/ Call \/ Query \/ SetCallback \/ CompleteSend \/ ReturnUpcall
  \/ \E p \in Packets : CallSend(p) \/ Deliver(p)
  \/ \E p \in Packets \cup {NullPacket} : Recv(p)

Spec == Init /\ [][Next]_directVars
=============================================================================
