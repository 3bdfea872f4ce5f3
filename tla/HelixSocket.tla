----------------------------- MODULE HelixSocket -----------------------------
(***************************************************************************)
(* HelixSocketImpl: a socket that forwards every call to a UDP socket of   *)
(* its own after telling the Rust library of it, and that puts itself      *)
(* between UDP and the application's callbacks.                            *)
(*                                                                         *)
(* Rust's functions log and return, so nothing can happen between Rust and *)
(* UDP hearing of a call, and both are one step; but UDP may call the      *)
(* application back before it returns from Send, so Send is two.           *)
(***************************************************************************)
EXTENDS UdpClient

CONSTANTS
  EmptyBuffer,   \* the default FFISharedBuffer
  Disciplined,   \* TRUE: the application behaves as both examples do
  MaxSends,      \* bound: Send and SendTo calls
  MaxAccepts     \* bound: datagrams UDP accepts

ASSUME HelixAssumption ==
  /\ {"HandleRecv", "HandleSend"} \cap (Cbs \cup {NoCb}) = {}
  /\ EmptyBuffer \notin Packets
  /\ Disciplined \in BOOLEAN
  /\ MaxSends \in Nat /\ MaxAccepts \in Nat

VARIABLES
  handleRecv,    \* m_handle_recv
  handleSend,    \* m_handle_send
  rsTold, rsSends,   \* what the Rust library was told
  closed         \* the application has called Close

Rs == INSTANCE HelixRsInterface

implVars == <<handleRecv, handleSend, rsTold, rsSends, closed>>
handles == <<handleRecv, handleSend>>
vars == <<udpVars, clientVars, implVars>>

(* m_handle_recv(this) and m_handle_send(this, n) do not test the handle:   *)
(* invoking a null Callback ends the simulation in a crash.                *)
NullCall == [kind |-> "nullCall"]
Frames == SendFrames \cup Upcalls \cup {NullCall}

TypeOK ==
  /\ UdpTypeOK
  /\ recvCb \in {NoCb, "HandleRecv"} /\ sendCb \in {NoCb, "HandleSend"}
  /\ handleRecv \in Cbs \cup {NoCb} /\ handleSend \in Cbs \cup {NoCb}
  /\ frames \in Seq(Frames)
  /\ ret \in {"none"} \cup Results \cup Packets \cup {NullPacket} \cup Answers
  /\ received \in Seq(Packets)
  /\ rsTold \in {"none", "Bind", "Send", "Close"}
  /\ rsSends \in Seq([pkt : Packets, buf : {EmptyBuffer}])
  /\ closed \in BOOLEAN

Init ==
  /\ UdpInit /\ ClientInit /\ Rs!RsInit
  /\ handleRecv = NoCb /\ handleSend = NoCb /\ closed = FALSE

(* Both examples null their callbacks only after Close, and neither binds   *)
(* or sends on a socket it has closed.                                     *)
MayDropCallback == Disciplined => closed
MayOpen == Disciplined => ~closed
-----------------------------------------------------------------------------
(* Mutants: UDP is given the application's callback itself, or nothing. *)
TieBare(cb) == UdpSetRecvCallback(cb)
TieNot(cb) == UNCHANGED udpVars

(* The two halves of SetRecvCallback. *)
Tie(cb) == UdpSetRecvCallback("HandleRecv")
Keep(cb) == handleRecv' = cb

SetRecvCallback(cb) ==
  /\ AppRunning
  /\ cb = NoCb => MayDropCallback
  /\ Keep(cb)
  /\ Tie(cb)
  /\ UNCHANGED <<clientVars, handleSend, rsTold, rsSends, closed>>

SetSendCallback(cb) ==
  /\ AppRunning
  /\ cb = NoCb => MayDropCallback
  /\ handleSend' = cb
  /\ UdpSetSendCallback("HandleSend")
  /\ UNCHANGED <<clientVars, handleRecv, rsTold, rsSends, closed>>

(* Mutant: the application is given m_udp_socket instead of this. *)
HandleRecvInner ==
  IF handleRecv = NoCb THEN NullCall ELSE RecvUpcall(handleRecv, "inner")

HandleRecv ==
  IF handleRecv = NoCb THEN NullCall ELSE RecvUpcall(handleRecv, "own")
HandleSend ==
  IF handleSend = NoCb THEN NullCall ELSE SendUpcall(handleSend, "own")

(* The socket stays without an end point; Rust is told Bind all the same.   *)
BindToNetDevice ==
  /\ AppRunning
  /\ Rs!Bind
  /\ UNCHANGED <<udpVars, clientVars, handles, closed>>

(* Bind() and Bind6() take a port only, Bind(address) possibly an address. *)
Bind(e, r) ==
  /\ AppRunning /\ MayOpen
  /\ Rs!Bind
  /\ UdpBind(e, r)
  /\ Returns(r)
  /\ UNCHANGED <<handles, closed>>

Connect(a, r) ==
  /\ AppRunning
  /\ Rs!Connect
  /\ UdpConnect(a, r)
  /\ Returns(r)
  /\ UNCHANGED <<handles, closed>>

Listen(r) ==
  /\ AppRunning
  /\ Rs!Listen
  /\ UdpListen(r)
  /\ Returns(r)
  /\ UNCHANGED <<handles, closed>>

(* Mutants: Rust is not told; UDP is called by Rust as well as here (the    *)
(* TODO at lines 225 and 240 done by half).                                *)
EnterUntold(asked, p, dst) ==
  /\ frames' = <<SendFrame(asked, p, dst)>> \o frames
  /\ UNCHANGED <<rsTold, rsSends>>
EnterTwice(asked, p, dst) ==
  /\ Rs!Send(p)
  /\ frames' = <<SendFrame(asked, p, dst), SendFrame(asked, p, dst)>> \o frames

(* Send and SendTo up to the point where UDP takes the packet over. *)
Enter(asked, p, dst) ==
  /\ Rs!Send(p)
  /\ frames' = <<SendFrame(asked, p, dst)>> \o frames

Send(p) ==
  /\ AppRunning /\ MayOpen /\ Len(sendCalls) < MaxSends
  /\ Enter(NoAddr, p, peer)
  /\ UNCHANGED <<udpVars, ret, received, handles, closed>>

SendTo(p, a) ==
  /\ AppRunning /\ MayOpen /\ Len(sendCalls) < MaxSends
  /\ Enter(a, p, a)
  /\ UNCHANGED <<udpVars, ret, received, handles, closed>>

(* UDP completes the call.  It may notify the sender, which runs HandleSend *)
(* before the application's Send returns.                                  *)
UdpCompletes ==
  /\ Sending
  /\ \E r \in Results :
       /\ UdpSend(Head(frames).pkt, Head(frames).dst, r)
       /\ \/ frames' = Tail(frames) /\ ret' = r
          \/ /\ r = "ok" /\ sendCb # NoCb
             /\ frames' = <<HandleSend>> \o Tail(frames)
             /\ UNCHANGED ret
  /\ UNCHANGED <<received, implVars>>

(* A datagram arrives from the network; UDP queues it and runs HandleRecv   *)
(* if SetRecvCallback was ever called.                                     *)
UdpDelivers(p) ==
  /\ frames = << >> /\ Len(accepted) < MaxAccepts
  /\ UdpAccept(p)
  /\ frames' = IF recvCb = NoCb THEN << >> ELSE <<HandleRecv>>
  /\ UNCHANGED <<ret, received, implVars>>

(* Recv and RecvFrom: UDP's packet, passed through the Rust interface. *)
Recv(p) ==
  /\ AppRunning
  /\ UdpRecv(p)
  /\ Receives(Rs!Recv(p))
  /\ UNCHANGED implVars

(* Mutant: Close stops at the Rust library. *)
CloseAboveOnly(r) == r = "ok" /\ UNCHANGED udpVars

CloseBelow(r) == UdpClose(r)

Close(r) ==
  /\ AppRunning
  /\ Rs!Close
  /\ CloseBelow(r)
  /\ Returns(r)
  /\ closed' = TRUE
  /\ UNCHANGED handles

ShutdownSend == AppRunning /\ UdpShutdownSend /\ Returns("ok") /\ UNCHANGED implVars
ShutdownRecv == AppRunning /\ UdpShutdownRecv /\ Returns("ok") /\ UNCHANGED implVars

GetRxAvailable == UdpRxAvailable
GetSockName == UdpSockName
GetPeerName == UdpPeerName

Query ==
  /\ AppRunning
  /\ Returns(GetRxAvailable) \/ Returns(GetSockName) \/ Returns(GetPeerName)
  /\ UNCHANGED <<udpVars, implVars>>

ReturnUpcall == UpcallReturns /\ UNCHANGED <<udpVars, implVars>>

Next ==
  \/ \E cb \in Cbs \cup {NoCb} : SetRecvCallback(cb) \/ SetSendCallback(cb)
  \/ \E r \in Results :
       \/ \E e \in {"any", "addr"} : Bind(e, r)
       \/ \E a \in Addrs : Connect(a, r)
       \/ Listen(r)
       \/ Close(r)
  \/ BindToNetDevice
  \/ \E p \in Packets :
       \/ Send(p)
       \/ \E a \in Addrs : SendTo(p, a)
       \/ UdpDelivers(p)
  \/ \E p \in Packets \cup {NullPacket} : Recv(p)
  \/ ShutdownSend \/ ShutdownRecv \/ UdpCompletes \/ Query \/ ReturnUpcall

Spec == Init /\ [][Next]_vars
-----------------------------------------------------------------------------
(* An upcall never goes through a null handle (HandleRecv and HandleSend    *)
(* do not test it), for an application that drops its callbacks only after *)
(* Close and opens nothing afterwards.                                     *)
NoNullUpcall == frames # << >> => Head(frames).kind # "nullCall"

(* Rust hears of each Send UDP is given, once and in the same order, also   *)
(* when HandleSend lets the application send from inside a Send; the only   *)
(* one it may be ahead by is the Send now running.  (pkt is the packet of   *)
(* the wrapper's call; Rust itself gets no packet, see RustGetsThePacket.) *)
TapOrder ==
  /\ Len(rsSends) = Len(sendCalls) + (IF Sending THEN 1 ELSE 0)
  /\ \A i \in 1..Len(sendCalls) : rsSends[i].pkt = sendCalls[i].pkt
  /\ Sending => rsSends[Len(rsSends)].pkt = Head(frames).pkt

(* Passing Recv through the Rust interface loses, repeats and reorders      *)
(* nothing: what UDP accepted is what the application got, then what is    *)
(* still queued.                                                           *)
InOrder == accepted = received \o rxQueue

(* Rust can tell from what it hears when the socket is deaf: after a Close  *)
(* UDP accepts nothing, even if UDP's own Close failed, until Rust has      *)
(* heard a Bind or a Send again.  This holds for every application, also   *)
(* one that sends on a closed socket, which UDP then binds by itself, or    *)
(* that closes the socket from inside a Send.                              *)
OpenAsTold == Deliverable => rsTold \in {"Bind", "Send"}

(* To the application the HELIX socket is the UDP socket: callbacks,        *)
(* results, packets and the order of all of them (helix-socket-impl.h      *)
(* lines 130-142).  UDP's callbacks map to the ones HandleRecv and         *)
(* HandleSend call.                                                        *)
Direct == INSTANCE DirectSocket WITH
  recvCb <- IF recvCb = NoCb THEN NoCb ELSE handleRecv,
  sendCb <- IF sendCb = NoCb THEN NoCb ELSE handleSend

(* Every behaviour of the HELIX socket is one of the UDP socket. *)
ActsLikeUdp == Direct!Spec

(* "Buffer version of packet" (helix-rs-interface.h lines 93-97): the buffer *)
(* Rust gets for a packet carries the packet.                              *)
RustGetsThePacket == \A i \in DOMAIN rsSends : rsSends[i].buf # EmptyBuffer
=============================================================================
