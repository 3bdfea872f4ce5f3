------------------------------ MODULE UdpSocket ------------------------------
(***************************************************************************)
(* The ns-3 UDP socket as the HELIX sources use it.  It is a library of    *)
(* the simulator, not part of the repository: HelixSocketImpl holds one in *)
(* m_udp_socket and forwards to it.  The module gives the state of one     *)
(* UDP socket and one operator per call; r is the result handed back to    *)
(* the caller.  DirectSocket (an application on UDP) and HelixSocket (an   *)
(* application on HELIX on UDP) both build their actions from it.          *)
(*                                                                         *)
(* Source addresses, sizes, flags, TTL and TOS of a packet are abstracted: *)
(* a packet is a value of Packets.                                         *)
(***************************************************************************)
EXTENDS Naturals, Sequences

CONSTANTS
  Packets,     \* payloads
  Addrs,       \* addresses a socket can be connected to, or send to
  NoAddr,      \* m_connected = false
  NullPacket,  \* a null Ptr<Packet>
  NoCb,        \* a null Callback
  RcvBuf       \* datagrams the receive buffer holds

ASSUME UdpAssumption ==
  /\ NoAddr \notin Addrs
  /\ NullPacket \notin Packets
  /\ RcvBuf \in Nat \ {0}

VARIABLES
  endpoint,    \* "none", "any" (a local port only) or "addr" (a local address too)
  peer,        \* where Send goes, or NoAddr
  shutSend,    \* m_shutdownSend
  shutRecv,    \* m_shutdownRecv
  rxQueue,     \* datagrams accepted and not yet taken by Recv
  recvCb,      \* callback UDP invokes when a datagram arrives
  sendCb,      \* callback UDP invokes when it sends
  sendCalls,   \* history: every Send/SendTo call UDP completed, with its result
  accepted     \* history: every datagram put in rxQueue

udpVars == <<endpoint, peer, shutSend, shutRecv, rxQueue, recvCb, sendCb,
             sendCalls, accepted>>

Results == {"ok", "error"}     \* 0 or a byte count, and -1 with an errno
SendCall == [pkt : Packets, dst : Addrs \cup {NoAddr}, ret : Results]

Answers == {"none", "any", "addr", "error", "empty", "data"} \cup Addrs

UdpTypeOK ==
  /\ endpoint \in {"none", "any", "addr"}
  /\ peer \in Addrs \cup {NoAddr}
  /\ shutSend \in BOOLEAN
  /\ shutRecv \in BOOLEAN
  /\ rxQueue \in Seq(Packets)
  /\ Len(rxQueue) <= RcvBuf
  /\ sendCalls \in Seq(SendCall)
  /\ accepted \in Seq(Packets)

UdpInit ==
  /\ endpoint = "none" /\ peer = NoAddr
  /\ shutSend = FALSE /\ shutRecv = FALSE
  /\ rxQueue = << >> /\ accepted = << >> /\ sendCalls = << >>
  /\ recvCb = NoCb /\ sendCb = NoCb

(* The Sends that succeeded, each by its number among the calls. *)
SentOk == {i \in DOMAIN sendCalls : sendCalls[i].ret = "ok"}

(* A datagram for this socket reaches it: there is an end point and        *)
(* reception was not shut down.                                            *)
Deliverable == endpoint # "none" /\ ~shutRecv
-----------------------------------------------------------------------------
(* What the queries answer: whether there is something to receive, the local *)
(* address, and the peer (which a socket without one cannot give).         *)
UdpRxAvailable == IF rxQueue = << >> THEN "empty" ELSE "data"
UdpSockName == endpoint
UdpPeerName == IF peer = NoAddr THEN "error" ELSE peer

(* A new end point; allocating one opens both directions again. *)
UdpAllocate(e) ==
  /\ endpoint' = e
  /\ shutSend' = FALSE /\ shutRecv' = FALSE

(* The three Bind calls, on a socket that has no end point (an application *)
(* binds once); the allocator may refuse, as when the port is in use.      *)
UdpBind(e, r) ==
  /\ endpoint = "none"
  /\ \/ r = "ok" /\ UdpAllocate(e)
     \/ r = "error" /\ UNCHANGED <<endpoint, shutSend, shutRecv>>
  /\ UNCHANGED <<peer, rxQueue, recvCb, sendCb, sendCalls, accepted>>

(* Connect only records the peer; it is refused for an address UDP cannot use. *)
UdpConnect(a, r) ==
  /\ \/ r = "ok" /\ peer' = a
     \/ r = "error" /\ UNCHANGED peer
  /\ UNCHANGED <<endpoint, shutSend, shutRecv, rxQueue, recvCb, sendCb,
                 sendCalls, accepted>>

(* UDP does not support Listen. *)
UdpListen(r) == r = "error" /\ UNCHANGED udpVars

UdpShutdownSend ==
  /\ shutSend' = TRUE
  /\ UNCHANGED <<endpoint, peer, shutRecv, rxQueue, recvCb, sendCb,
                 sendCalls, accepted>>

UdpShutdownRecv ==
  /\ shutRecv' = TRUE
  /\ UNCHANGED <<endpoint, peer, shutSend, rxQueue, recvCb, sendCb,
                 sendCalls, accepted>>

(* Close of a socket shut down both ways fails and frees nothing.  Queued  *)
(* datagrams and the peer survive Close.                                   *)
UdpClose(r) ==
  /\ \/ /\ r = "error" /\ shutSend /\ shutRecv
        /\ UNCHANGED <<endpoint, shutSend, shutRecv>>
     \/ /\ r = "ok" /\ ~(shutSend /\ shutRecv)
        /\ endpoint' = "none" /\ shutSend' = TRUE /\ shutRecv' = TRUE
  /\ UNCHANGED <<peer, rxQueue, recvCb, sendCb, sendCalls, accepted>>

UdpSetRecvCallback(cb) ==
  /\ recvCb' = cb
  /\ UNCHANGED <<endpoint, peer, shutSend, shutRecv, rxQueue, sendCb,
                 sendCalls, accepted>>

UdpSetSendCallback(cb) ==
  /\ sendCb' = cb
  /\ UNCHANGED <<endpoint, peer, shutSend, shutRecv, rxQueue, recvCb,
                 sendCalls, accepted>>

(* The send path up to the notification of the sender.  A socket without   *)
(* an end point gets one first.  The call fails on an unconnected socket,  *)
(* after ShutdownSend, and when no port or route is found.                 *)
UdpSend(p, dst, r) ==
  /\ \/ r = "error" /\ UNCHANGED <<endpoint, shutSend, shutRecv>>
     \/ /\ dst # NoAddr
        /\ endpoint = "none"
        /\ UdpAllocate("any")
     \/ /\ dst # NoAddr
        /\ r = "ok" /\ endpoint # "none" /\ ~shutSend
        /\ UNCHANGED <<endpoint, shutSend, shutRecv>>
  /\ sendCalls' = Append(sendCalls, [pkt |-> p, dst |-> dst, ret |-> r])
  /\ UNCHANGED <<peer, rxQueue, recvCb, sendCb, accepted>>

(* A datagram arrives and the receive buffer has room for it. *)
UdpAccept(p) ==
  /\ Deliverable
  /\ Len(rxQueue) < RcvBuf
  /\ rxQueue' = Append(rxQueue, p)
  /\ accepted' = Append(accepted, p)
  /\ UNCHANGED <<endpoint, peer, shutSend, shutRecv, recvCb, sendCb, sendCalls>>

(* Recv and RecvFrom: the oldest datagram, or a null packet. *)
UdpRecv(p) ==
  /\ IF rxQueue = << >>
       THEN p = NullPacket /\ UNCHANGED rxQueue
       ELSE p = Head(rxQueue) /\ rxQueue' = Tail(rxQueue)
  /\ UNCHANGED <<endpoint, peer, shutSend, shutRecv, recvCb, sendCb,
                 sendCalls, accepted>>
=============================================================================
