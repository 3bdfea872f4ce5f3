------------------------------- MODULE Remote -------------------------------
(***************************************************************************)
(* The far end of both examples: a second node with a HELIX socket of its  *)
(* own, and the network that takes it what the first one sends.  Neither   *)
(* example sends anything back.                                            *)
(*                                                                         *)
(* One simulator runs both nodes, so an event of one is over before an     *)
(* event of the other begins.  The network is external: a datagram UDP     *)
(* sent is under way for a while, keeps its place in line, and is lost or   *)
(* reaches the far node, whose UDP may refuse it.                          *)
(***************************************************************************)
EXTENDS HelixSocket
LOCAL INSTANCE SequencesExt

CONSTANTS
  RemoteOther,   \* the address the far socket connects to, if it does
  RemoteCb       \* its handleRead

ASSUME RemoteAssumption == RemoteOther \in Addrs /\ RemoteCb \in Cbs

VARIABLES
  rEndpoint, rPeer, rShutSend, rShutRecv, rRxQueue, rRecvCb, rSendCb,
  rSendCalls, rAccepted, rFrames, rRet, rReceived, rHandleRecv, rHandleSend,
  rRsTold, rRsSends, rClosed, rRole, rScheduled, rTodo,   \* the far socket
  path,          \* datagrams under way, oldest first, each by the number of
                 \* its Send in sendCalls
  lost,          \* datagrams the network lost
  refused,       \* datagrams that found no open end point, or its buffer full
  got            \* history: datagrams the far UDP accepted, in this order

R == INSTANCE ExampleSockets WITH
  Other <- RemoteOther, ReadCb <- RemoteCb,
  endpoint <- rEndpoint, peer <- rPeer, shutSend <- rShutSend, shutRecv <- rShutRecv,
  rxQueue <- rRxQueue, recvCb <- rRecvCb, sendCb <- rSendCb,
  sendCalls <- rSendCalls, accepted <- rAccepted,
  frames <- rFrames, ret <- rRet, received <- rReceived,
  handleRecv <- rHandleRecv, handleSend <- rHandleSend,
  rsTold <- rRsTold, rsSends <- rRsSends, closed <- rClosed,
  role <- rRole, scheduled <- rScheduled, todo <- rTodo

farVars == <<rEndpoint, rPeer, rShutSend, rShutRecv, rRxQueue, rRecvCb, rSendCb,
             rSendCalls, rAccepted, rFrames, rRet, rReceived, rHandleRecv,
             rHandleSend, rRsTold, rRsSends, rClosed, rRole, rScheduled, rTodo>>
netVars == <<path, lost, refused, got>>

RemoteInit(who) ==
  /\ R!ExampleInit /\ rRole = who
  /\ path = << >> /\ lost = {} /\ refused = {} /\ got = << >>
-----------------------------------------------------------------------------
(* The datagram of a Send that UDP completed without an error sets out. *)
Departs ==
  /\ path' = IF sendCalls' # sendCalls /\ Last(sendCalls').ret = "ok"
               THEN Append(path, Len(sendCalls')) ELSE path
  /\ UNCHANGED <<lost, refused, got>>

Loses ==
  /\ \E i \in DOMAIN path :
       path' = RemoveAt(path, i) /\ lost' = lost \cup {path[i]}
  /\ UNCHANGED <<farVars, refused, got>>

(* The oldest datagram reaches the far node. *)
Reaches ==
  /\ path # << >> /\ R!BetweenEvents
  /\ path' = Tail(path)
  /\ \/ /\ R!Arrive(sendCalls[Head(path)].pkt)
        /\ got' = Append(got, Head(path))
        /\ UNCHANGED refused
     \/ /\ ~R!Deliverable \/ Len(rRxQueue) = RcvBuf
        /\ refused' = refused \cup {Head(path)}
        /\ UNCHANGED <<farVars, got>>
  /\ UNCHANGED lost
-----------------------------------------------------------------------------
Increasing(s) == \A i, j \in DOMAIN s : i < j => s[i] < s[j]

(* Whatever Send reported as sent, and nothing else, is exactly one of under *)
(* way, lost, refused and accepted; nothing overtakes.  Once the far event   *)
(* is over the far application has read what was accepted, unchanged: no    *)
(* datagram is dropped or altered inside HELIX at either end.               *)
Accounted ==
  /\ SentOk = ToSet(path) \cup lost \cup refused \cup ToSet(got)
  /\ ToSet(got \o path) \cap (lost \cup refused) = {} /\ lost \cap refused = {}
  /\ Increasing(got \o path)
  /\ R!BetweenEvents =>
       rReceived = [k \in DOMAIN got |-> sendCalls[got[k]].pkt]

(* The far receive buffer never overflows, however small: each arrival's    *)
(* event reads it empty before the next one.  A datagram is refused only   *)
(* by a socket that is not open.                                           *)
NoOverflow == [][refused' # refused => ~R!Deliverable]_<<netVars, farVars>>
=============================================================================
