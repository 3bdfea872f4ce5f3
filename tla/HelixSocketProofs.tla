-------------------------- MODULE HelixSocketProofs --------------------------
(***************************************************************************)
(* Theorems about HelixSocket, for every set of packets, addresses and     *)
(* callbacks, every buffer size and every bound.                           *)
(***************************************************************************)
EXTENDS HelixSocket, SequenceTheorems, TLAPS

USE DEF Rs!rsVars

(* The stack of activations: what pushing, popping and replacing the newest *)
(* activation does to it.                                                  *)
LEMMA StackPush ==
  ASSUME NEW S, NEW s \in Seq(S), NEW x \in S
  PROVE  /\ <<x>> \o s \in Seq(S)
         /\ <<x>> \o s # << >>
         /\ Head(<<x>> \o s) = x
         /\ Tail(<<x>> \o s) = s
         /\ Len(<<x>> \o s) = Len(s) + 1
  OBVIOUS

LEMMA StackPop ==
  ASSUME NEW S, NEW s \in Seq(S), s # << >>
  PROVE  /\ Head(s) \in S
         /\ Tail(s) \in Seq(S)
         /\ Len(Tail(s)) = Len(s) - 1
         /\ \A i \in 1..Len(Tail(s)) : Tail(s)[i] = s[i + 1]
  OBVIOUS
-----------------------------------------------------------------------------
(* Every step of the UDP socket keeps its state well typed. *)
LEMMA UdpTypes ==
  ASSUME UdpTypeOK,
         \/ \E e \in {"any", "addr"}, r \in Results : UdpBind(e, r)
         \/ \E a \in Addrs, r \in Results : UdpConnect(a, r)
         \/ \E r \in Results : UdpClose(r)
         \/ UdpShutdownSend \/ UdpShutdownRecv
         \/ \E cb : UdpSetRecvCallback(cb) \/ UdpSetSendCallback(cb)
         \/ \E p \in Packets, a \in Addrs \cup {NoAddr}, r \in Results : UdpSend(p, a, r)
         \/ \E p \in Packets : UdpAccept(p)
         \/ \E p \in Packets \cup {NullPacket} : UdpRecv(p)
         \/ UNCHANGED udpVars
  PROVE  UdpTypeOK'
  <1>1. ASSUME NEW e \in {"any", "addr"}, NEW r \in Results, UdpBind(e, r)
        PROVE  UdpTypeOK'
    BY <1>1 DEF UdpTypeOK, UdpBind, UdpAllocate
  <1>2. ASSUME NEW a \in Addrs, NEW r \in Results, UdpConnect(a, r)
        PROVE  UdpTypeOK'
    BY <1>2 DEF UdpTypeOK, UdpConnect
  <1>3. ASSUME NEW r \in Results, UdpClose(r)
        PROVE  UdpTypeOK'
    BY <1>3 DEF UdpTypeOK, UdpClose
  <1>4. CASE UdpShutdownSend \/ UdpShutdownRecv
    BY <1>4 DEF UdpTypeOK, UdpShutdownSend, UdpShutdownRecv
  <1>5. ASSUME NEW cb, UdpSetRecvCallback(cb) \/ UdpSetSendCallback(cb)
        PROVE  UdpTypeOK'
    BY <1>5 DEF UdpTypeOK, UdpSetRecvCallback, UdpSetSendCallback
  <1>6. ASSUME NEW p \in Packets, NEW a \in Addrs \cup {NoAddr}, NEW r \in Results,
               UdpSend(p, a, r)
        PROVE  UdpTypeOK'
    <2>1. [pkt |-> p, dst |-> a, ret |-> r] \in SendCall
      BY DEF SendCall
    <2>2. sendCalls' \in Seq(SendCall)
      BY <1>6, <2>1 DEF UdpTypeOK, UdpSend
    <2> QED
      BY <1>6, <2>2 DEF UdpTypeOK, UdpSend, UdpAllocate
  <1>7. ASSUME NEW p \in Packets, UdpAccept(p)
        PROVE  UdpTypeOK'
    BY <1>7, UdpAssumption DEF UdpTypeOK, UdpAccept
  <1>8. ASSUME NEW p \in Packets \cup {NullPacket}, UdpRecv(p)
        PROVE  UdpTypeOK'
    BY <1>8, UdpAssumption DEF UdpTypeOK, UdpRecv
  <1>9. CASE UNCHANGED udpVars
    BY <1>9 DEF UdpTypeOK, udpVars
  <1> QED
    BY <1>1, <1>2, <1>3, <1>4, <1>5, <1>6, <1>7, <1>8, <1>9
-----------------------------------------------------------------------------
(* The activations are well typed after each thing that happens to them. *)
LEMMA FrameTypes ==
  ASSUME TypeOK
  PROVE  /\ \A p \in Packets : SendFrame(NoAddr, p, peer) \in Frames
         /\ \A p \in Packets, a \in Addrs : SendFrame(a, p, a) \in Frames
         /\ HandleRecv \in Frames /\ HandleSend \in Frames
         /\ Sending => /\ Head(frames).pkt \in Packets
                       /\ Head(frames).dst \in Addrs \cup {NoAddr}
  <1>1. Sending => Head(frames) \in SendFrames
    <2>1. frames # << >> => Head(frames) \in Frames
      BY StackPop DEF TypeOK
    <2> QED
      BY <2>1 DEF Sending, Frames, Upcalls, NullCall
  <1>2. HandleRecv \in Frames /\ HandleSend \in Frames
    BY DEF TypeOK, HandleRecv, HandleSend, Frames, Upcalls, RecvUpcall, SendUpcall
  <1>3. \A p \in Packets, a \in Addrs \cup {NoAddr}, b \in Addrs \cup {NoAddr} :
          SendFrame(a, p, b) \in Frames
    BY DEF SendFrame, Frames, SendFrames
  <1> QED
    BY <1>1, <1>2, <1>3 DEF TypeOK, UdpTypeOK, SendFrames

(* A query changes nothing but the result the application sees. *)
LEMMA QueryStep ==
  ASSUME Query
  PROVE  /\ UNCHANGED <<udpVars, frames, received, implVars>>
         /\ UdpTypeOK => ret' \in Answers
  BY DEF Query, Returns, GetRxAvailable, GetSockName, GetPeerName, UdpRxAvailable,
         UdpSockName, UdpPeerName, Answers, UdpTypeOK

LEMMA TypeStep ==
  ASSUME TypeOK, [Next]_vars
  PROVE  TypeOK'
  <1> USE DEF Returns, clientVars, handles, implVars
  <1>1. ASSUME NEW cb \in Cbs \cup {NoCb}, SetRecvCallback(cb) \/ SetSendCallback(cb)
        PROVE  TypeOK'
    <2>1. UdpTypeOK'
      BY <1>1, UdpTypes DEF TypeOK, SetRecvCallback, Keep, Tie, SetSendCallback
    <2> QED
      BY <1>1, <2>1 DEF TypeOK, SetRecvCallback, Keep, Tie, SetSendCallback,
                        UdpSetRecvCallback, UdpSetSendCallback
  <1>2. ASSUME NEW e \in {"any", "addr"}, NEW r \in Results, Bind(e, r)
        PROVE  TypeOK'
    <2>1. UdpTypeOK'
      BY <1>2, UdpTypes DEF TypeOK, Bind
    <2> QED
      BY <1>2, <2>1 DEF TypeOK, Bind, UdpBind, Rs!Bind, Rs!helix_rs_bind
  <1>3. ASSUME NEW a \in Addrs, NEW r \in Results, Connect(a, r)
        PROVE  TypeOK'
    <2>1. UdpTypeOK'
      BY <1>3, UdpTypes DEF TypeOK, Connect
    <2> QED
      BY <1>3, <2>1 DEF TypeOK, Connect, UdpConnect, Rs!Connect,
                        Rs!helix_rs_connect
  <1>4. ASSUME NEW r \in Results, Listen(r) \/ BindToNetDevice
        PROVE  TypeOK'
    <2>1. UNCHANGED udpVars
      BY <1>4 DEF Listen, UdpListen, BindToNetDevice
    <2>2. UdpTypeOK'
      BY <2>1, UdpTypes DEF TypeOK
    <2> QED
      BY <1>4, <2>1, <2>2 DEF TypeOK, Listen, BindToNetDevice, udpVars, Rs!Bind,
                              Rs!helix_rs_bind, Rs!Listen, Rs!helix_rs_listen
  <1>5. ASSUME NEW r \in Results, Close(r)
        PROVE  TypeOK'
    <2>1. UdpTypeOK'
      BY <1>5, UdpTypes DEF TypeOK, Close, CloseBelow
    <2> QED
      BY <1>5, <2>1 DEF TypeOK, Close, CloseBelow, UdpClose, Rs!Close,
                        Rs!helix_rs_close
  <1>6. ASSUME NEW p \in Packets, Send(p) \/ \E a \in Addrs : SendTo(p, a)
        PROVE  TypeOK'
    <2>1. UdpTypeOK'
      BY <1>6, UdpTypes DEF TypeOK, Send, SendTo
    <2>2. PICK f \in Frames : frames' = <<f>> \o frames
      BY <1>6, FrameTypes DEF Send, Enter, SendTo
    <2>3. frames' \in Seq(Frames)
      BY <2>2, StackPush DEF TypeOK
    <2>4. Rs!Send(p) /\ UNCHANGED <<udpVars, ret, received, handles, closed>>
      BY <1>6 DEF Send, Enter, SendTo
    <2>5. rsSends' \in Seq([pkt : Packets, buf : {EmptyBuffer}])
      <3>1. [pkt |-> p, buf |-> EmptyBuffer] \in [pkt : Packets, buf : {EmptyBuffer}]
        OBVIOUS
      <3> QED
        BY <2>4, <3>1 DEF TypeOK, Rs!Send, Rs!helix_rs_send
    <2> QED
      BY <2>1, <2>3, <2>4, <2>5 DEF TypeOK, udpVars, Rs!Send, Rs!helix_rs_send
  <1>7. CASE UdpCompletes
    <2>1. PICK r \in Results : UdpSend(Head(frames).pkt, Head(frames).dst, r)
      BY <1>7 DEF UdpCompletes
    <2>2. UdpTypeOK'
      BY <1>7, <2>1, FrameTypes, UdpTypes DEF TypeOK, UdpCompletes
    <2>3. Tail(frames) \in Seq(Frames)
      BY <1>7, StackPop DEF TypeOK, UdpCompletes, Sending
    <2>4. frames' \in Seq(Frames)
      <3>1. <<HandleSend>> \o Tail(frames) \in Seq(Frames)
        BY <2>3, FrameTypes, StackPush
      <3> QED
        BY <1>7, <2>3, <3>1 DEF UdpCompletes
    <2>5. ret' \in {"none"} \cup Results \cup Packets \cup {NullPacket} \cup Answers
      BY <1>7 DEF TypeOK, UdpCompletes
    <2> QED
      BY <1>7, <2>1, <2>2, <2>4, <2>5 DEF TypeOK, UdpCompletes, UdpSend
  <1>8. ASSUME NEW p \in Packets, UdpDelivers(p)
        PROVE  TypeOK'
    <2>1. UdpTypeOK'
      BY <1>8, UdpTypes DEF TypeOK, UdpDelivers
    <2>2. frames' \in Seq(Frames)
      BY <1>8, FrameTypes DEF UdpDelivers
    <2> QED
      BY <1>8, <2>1, <2>2 DEF TypeOK, UdpDelivers, UdpAccept
  <1>9. ASSUME NEW p \in Packets \cup {NullPacket}, Recv(p)
        PROVE  TypeOK'
    <2>1. UdpTypeOK'
      BY <1>9, UdpTypes DEF TypeOK, Recv
    <2> QED
      BY <1>9, <2>1 DEF TypeOK, Recv, Receives, UdpRecv, Rs!Recv
  <1>10. CASE ShutdownSend \/ ShutdownRecv
    <2>1. UdpTypeOK'
      BY <1>10, UdpTypes DEF TypeOK, ShutdownSend, ShutdownRecv
    <2> QED
      BY <1>10, <2>1 DEF TypeOK, ShutdownSend, ShutdownRecv, UdpShutdownSend,
                         UdpShutdownRecv, Results
  <1>11. CASE ReturnUpcall
    <2>1. UdpTypeOK'
      BY <1>11, UdpTypes DEF TypeOK, ReturnUpcall
    <2>2. frames' \in Seq(Frames)
      BY <1>11, StackPop DEF TypeOK, ReturnUpcall, UpcallReturns
    <2> QED
      BY <1>11, <2>1, <2>2 DEF TypeOK, ReturnUpcall, UpcallReturns, udpVars, Results
  <1>12. CASE UNCHANGED vars
    <2>1. UdpTypeOK'
      BY <1>12, UdpTypes DEF TypeOK, vars
    <2> QED
      BY <1>12, <2>1 DEF TypeOK, vars, udpVars
  <1>13. CASE Query
    <2>1. UdpTypeOK'
      BY <1>13, QueryStep, UdpTypes DEF TypeOK
    <2> QED
      BY <1>13, <2>1, QueryStep DEF TypeOK, udpVars
  <1> QED
    BY <1>1, <1>2, <1>3, <1>4, <1>5, <1>6, <1>7, <1>8, <1>9, <1>10, <1>11, <1>12, <1>13
    DEF Next, Results

LEMMA InitTypes == ASSUME Init PROVE TypeOK
  <1>1. shutSend \in BOOLEAN /\ shutRecv \in BOOLEAN /\ closed \in BOOLEAN
    BY Zenon DEF Init, UdpInit
  <1>2. UdpTypeOK
    BY <1>1, UdpAssumption DEF Init, UdpInit, UdpTypeOK
  <1> QED
    BY <1>1, <1>2 DEF Init, UdpInit, ClientInit, Rs!RsInit, TypeOK

(* Every state the socket can reach is well typed: every value it stores,   *)
(* queues or hands over is one the code could have produced.               *)
THEOREM TypeCorrect == Spec => []TypeOK
  <1>1. Init => TypeOK
    BY InitTypes
  <1>2. TypeOK /\ [Next]_vars => TypeOK'
    BY TypeStep
  <1> QED
    BY <1>1, <1>2, PTL DEF Spec
-----------------------------------------------------------------------------
(* The inductive invariant behind NoNullUpcall.                             *)
(* Only the newest activation can be a Send in progress; with an           *)
(* application as disciplined as the examples, no Send is in progress on a *)
(* closed socket, a closed socket is shut down in both directions, and UDP *)
(* is tied to a handler whose handle is null only on a closed socket.      *)
AppKinds == {"recvUpcall", "sendUpcall"}
AppBelow(s) == \A i \in 2..Len(s) : s[i].kind \in AppKinds

ClosedIsShut == closed => shutSend /\ shutRecv
NoSendOnClosed == Sending => ~closed
HandlesLive ==
  /\ recvCb # NoCb /\ handleRecv = NoCb => closed
  /\ sendCb # NoCb /\ handleSend = NoCb => closed

IInv ==
  /\ TypeOK
  /\ AppBelow(frames)
  /\ Disciplined => ClosedIsShut /\ NoSendOnClosed /\ HandlesLive /\ NoNullUpcall

LEMMA BelowPush ==
  ASSUME NEW S, NEW s \in Seq(S), NEW x \in S, AppBelow(s),
         s # << >> => Head(s).kind \in AppKinds
  PROVE  AppBelow(<<x>> \o s)
  <1> SUFFICES ASSUME NEW i \in 2..Len(<<x>> \o s)
               PROVE  (<<x>> \o s)[i].kind \in AppKinds
    BY DEF AppBelow
  <1>1. i - 1 \in 1..Len(s) /\ (<<x>> \o s)[i] = s[i - 1]
    OBVIOUS
  <1>2. CASE i = 2
    BY <1>1, <1>2
  <1>3. CASE i # 2
    BY <1>1, <1>3 DEF AppBelow
  <1> QED
    BY <1>2, <1>3

LEMMA BelowPop ==
  ASSUME NEW S, NEW s \in Seq(S), s # << >>, AppBelow(s)
  PROVE  /\ AppBelow(Tail(s))
         /\ Tail(s) # << >> => Head(Tail(s)).kind \in AppKinds
  <1>1. AppBelow(Tail(s))
    BY DEF AppBelow
  <1>2. Tail(s) # << >> => 2 \in 2..Len(s) /\ Head(Tail(s)) = s[2]
    OBVIOUS
  <1> QED
    BY <1>1, <1>2 DEF AppBelow

(* What each step does to the stack. *)
LEMMA StackStep ==
  ASSUME TypeOK, AppBelow(frames), [Next]_vars
  PROVE  AppBelow(frames')
  <1>1. CASE UNCHANGED frames
    BY <1>1
  <1>2. ASSUME NEW p \in Packets, Send(p) \/ \E a \in Addrs : SendTo(p, a)
        PROVE  AppBelow(frames')
    <2>1. PICK f \in Frames : frames' = <<f>> \o frames
      BY <1>2, FrameTypes DEF Send, Enter, SendTo
    <2> QED
      BY <1>2, <2>1, BelowPush DEF TypeOK, Send, SendTo, AppRunning, AppKinds
  <1>3. CASE UdpCompletes
    <2>1. frames # << >>
      BY <1>3 DEF UdpCompletes, Sending
    <2>2. Tail(frames) \in Seq(Frames) /\ HandleSend \in Frames
      BY <2>1, StackPop, FrameTypes DEF TypeOK
    <2>3. AppBelow(Tail(frames)) /\ AppBelow(<<HandleSend>> \o Tail(frames))
      BY <2>1, <2>2, BelowPop, BelowPush DEF TypeOK
    <2> QED
      BY <1>3, <2>3 DEF UdpCompletes
  <1>4. ASSUME NEW p \in Packets, UdpDelivers(p)
        PROVE  AppBelow(frames')
    BY <1>4 DEF UdpDelivers, AppBelow
  <1>5. CASE ReturnUpcall
    BY <1>5, BelowPop DEF TypeOK, ReturnUpcall, UpcallReturns
  <1> QED
    BY <1>1, <1>2, <1>3, <1>4, <1>5, QueryStep
    DEF Next, vars, clientVars, SetRecvCallback, Keep, Tie, SetSendCallback, BindToNetDevice,
        Bind, Connect, Listen, Close, CloseBelow, Recv, ShutdownSend, ShutdownRecv, Returns,
        Receives
-----------------------------------------------------------------------------
LEMMA DisciplineStep ==
  ASSUME IInv, Disciplined, [Next]_vars
  PROVE  (ClosedIsShut /\ NoSendOnClosed /\ HandlesLive /\ NoNullUpcall)'
  <1> USE DEF ClosedIsShut, NoSendOnClosed, HandlesLive, NoNullUpcall
  <1>0. /\ TypeOK /\ AppBelow(frames)
        /\ ClosedIsShut /\ NoSendOnClosed /\ HandlesLive /\ NoNullUpcall
    BY DEF IInv
  <1>1. ASSUME NEW cb \in Cbs \cup {NoCb}, SetRecvCallback(cb) \/ SetSendCallback(cb)
        PROVE  (ClosedIsShut /\ NoSendOnClosed /\ HandlesLive /\ NoNullUpcall)'
    BY <1>0, <1>1 DEF SetRecvCallback, Keep, Tie, SetSendCallback, UdpSetRecvCallback,
                      UdpSetSendCallback, MayDropCallback, clientVars, Sending
  <1>2. CASE /\ UNCHANGED <<frames, closed, handles, recvCb, sendCb>>
             /\ ClosedIsShut'
    BY <1>0, <1>2 DEF handles, Sending
  <1>3. ASSUME NEW r \in Results,
               \/ \E e \in {"any", "addr"} : Bind(e, r)
               \/ \E a \in Addrs : Connect(a, r)
               \/ Listen(r)
               \/ BindToNetDevice
        PROVE  (ClosedIsShut /\ NoSendOnClosed /\ HandlesLive /\ NoNullUpcall)'
    <2>1. UNCHANGED <<frames, closed, handles, recvCb, sendCb>>
      BY <1>3 DEF Bind, Connect, Listen, BindToNetDevice, UdpBind, UdpConnect,
                  UdpListen, udpVars, clientVars, Returns
    <2>2. ClosedIsShut'
      BY <1>0, <1>3 DEF Bind, Connect, Listen, BindToNetDevice, UdpBind, UdpConnect,
                        UdpListen, udpVars, MayOpen
    <2> QED
      BY <1>2, <2>1, <2>2
  <1>4. ASSUME NEW r \in Results, Close(r)
        PROVE  (ClosedIsShut /\ NoSendOnClosed /\ HandlesLive /\ NoNullUpcall)'
    <2>1. /\ UNCHANGED <<frames, handles, recvCb, sendCb>>
          /\ closed' = TRUE /\ shutSend' /\ shutRecv'
      BY <1>4 DEF Close, CloseBelow, UdpClose, Returns
    <2>2. ~Sending'
      BY <1>4, <2>1 DEF Close, AppRunning, Sending
    <2> QED
      BY <1>0, <2>1, <2>2
  <1>5. ASSUME NEW p \in Packets, Send(p) \/ \E a \in Addrs : SendTo(p, a)
        PROVE  (ClosedIsShut /\ NoSendOnClosed /\ HandlesLive /\ NoNullUpcall)'
    <2>1. UNCHANGED <<udpVars, handles, closed>> /\ ~closed
      BY <1>5 DEF Send, SendTo, MayOpen
    <2>2. PICK a, b : frames' = <<SendFrame(a, p, b)>> \o frames
      BY <1>5 DEF Send, Enter, SendTo
    <2>3. Head(frames').kind = "send"
      BY <1>0, <2>2 DEF TypeOK, SendFrame
    <2> QED
      BY <1>0, <2>1, <2>3 DEF udpVars, handles
  <1>6. CASE UdpCompletes
    <2>1. frames # << >> /\ ~closed /\ UNCHANGED <<closed, handles, recvCb, sendCb>>
      BY <1>0, <1>6 DEF UdpCompletes, Sending, implVars, handles, UdpSend
    <2>2. Tail(frames) # << >> => Head(Tail(frames)).kind \in AppKinds
      BY <1>0, <2>1, BelowPop DEF TypeOK
    <2>3. frames' # << >> => Head(frames').kind \in AppKinds
      <3>1. CASE frames' = Tail(frames)
        BY <2>2, <3>1
      <3>2. CASE frames' = <<HandleSend>> \o Tail(frames) /\ sendCb # NoCb
        <4>1. HandleSend.kind = "sendUpcall"
          BY <1>0, <2>1, <3>2 DEF HandleSend, SendUpcall
        <4> QED
          BY <1>0, <2>1, <3>2, <4>1, StackPop, StackPush, FrameTypes DEF TypeOK, AppKinds
      <3> QED
        BY <1>6, <3>1, <3>2 DEF UdpCompletes
    <2> QED
      BY <1>0, <2>1, <2>3 DEF AppKinds, Sending, handles
  <1>7. ASSUME NEW p \in Packets, UdpDelivers(p)
        PROVE  (ClosedIsShut /\ NoSendOnClosed /\ HandlesLive /\ NoNullUpcall)'
    <2>1. ~shutRecv /\ UNCHANGED <<shutSend, shutRecv, recvCb, sendCb, implVars>>
      BY <1>7 DEF UdpDelivers, UdpAccept, Deliverable
    <2>2. ~closed
      BY <1>0, <2>1
    <2>3. frames' # << >> => Head(frames').kind = "recvUpcall"
      BY <1>0, <1>7, <2>2 DEF UdpDelivers, HandleRecv, RecvUpcall
    <2> QED
      BY <1>0, <2>1, <2>2, <2>3 DEF implVars, Sending
  <1>8. ASSUME NEW p \in Packets \cup {NullPacket}, Recv(p)
        PROVE  (ClosedIsShut /\ NoSendOnClosed /\ HandlesLive /\ NoNullUpcall)'
    BY <1>0, <1>2, <1>8 DEF Recv, UdpRecv, Receives, implVars, handles
  <1>9. CASE ShutdownSend \/ ShutdownRecv
    BY <1>0, <1>2, <1>9 DEF ShutdownSend, ShutdownRecv, UdpShutdownSend,
                            UdpShutdownRecv, Returns, implVars, handles
  <1>10. CASE ReturnUpcall
    <2>1. /\ UNCHANGED <<udpVars, implVars>>
          /\ frames' = Tail(frames) /\ frames # << >>
      BY <1>10 DEF ReturnUpcall, UpcallReturns
    <2>2. frames' # << >> => Head(frames').kind \in AppKinds
      BY <1>0, <2>1, BelowPop DEF TypeOK
    <2> QED
      BY <1>0, <2>1, <2>2 DEF AppKinds, Sending, udpVars, implVars
  <1>11. CASE Query \/ UNCHANGED vars
    BY <1>0, <1>2, <1>11, QueryStep DEF vars, udpVars, clientVars, implVars, handles
  <1> QED
    BY <1>1, <1>3, <1>4, <1>5, <1>6, <1>7, <1>8, <1>9, <1>10, <1>11 DEF Next, Results

LEMMA InvInductive == Spec => []IInv
  <1>1. Init => IInv
    <2> SUFFICES ASSUME Init PROVE IInv
      OBVIOUS
    <2>1. TypeOK
      BY InitTypes
    <2>2. frames = << >> /\ recvCb = NoCb /\ sendCb = NoCb /\ ~closed
      BY DEF Init, UdpInit, ClientInit
    <2> QED
      BY <2>1, <2>2 DEF IInv, AppBelow, ClosedIsShut, NoSendOnClosed, HandlesLive,
                        NoNullUpcall, Sending
  <1>2. IInv /\ [Next]_vars => IInv'
    <2> SUFFICES ASSUME IInv, [Next]_vars PROVE IInv'
      OBVIOUS
    <2>1. TypeOK'
      BY TypeStep DEF IInv
    <2>2. AppBelow(frames')
      BY StackStep DEF IInv
    <2>3. Disciplined =>
            (ClosedIsShut /\ NoSendOnClosed /\ HandlesLive /\ NoNullUpcall)'
      BY DisciplineStep
    <2> QED
      BY <2>1, <2>2, <2>3 DEF IInv
  <1> QED
    BY <1>1, <1>2, PTL DEF Spec

(* An application that nulls its callbacks only after Close, and neither    *)
(* binds nor sends afterwards, never makes HandleRecv or HandleSend call a *)
(* null handle, however its calls nest inside its own callbacks.           *)
THEOREM NeverNull ==
  ASSUME Disciplined PROVE Spec => []NoNullUpcall
  <1>1. IInv => NoNullUpcall
    BY DEF IInv
  <1> QED
    BY <1>1, InvInductive, PTL
-----------------------------------------------------------------------------
LEMMA MoveHead ==
  ASSUME NEW S, NEW s \in Seq(S), NEW q \in Seq(S), q # << >>
  PROVE  Append(s, Head(q)) \o Tail(q) = s \o q
  <1>1. Append(s, Head(q)) \o Tail(q) \in Seq(S) /\ s \o q \in Seq(S)
    OBVIOUS
  <1>2. Len(Append(s, Head(q)) \o Tail(q)) = Len(s \o q)
    OBVIOUS
  <1>3. \A i \in 1..Len(s \o q) : (Append(s, Head(q)) \o Tail(q))[i] = (s \o q)[i]
    OBVIOUS
  <1> QED
    BY <1>1, <1>2, <1>3, SeqEqual

LEMMA AppendConcat ==
  ASSUME NEW S, NEW s \in Seq(S), NEW q \in Seq(S), NEW x \in S
  PROVE  Append(s \o q, x) = s \o Append(q, x)
  OBVIOUS

LEMMA InOrderStep == ASSUME TypeOK, InOrder, [Next]_vars PROVE InOrder'
  <1>0. /\ received \in Seq(Packets) /\ rxQueue \in Seq(Packets)
        /\ accepted = received \o rxQueue
    BY DEF TypeOK, UdpTypeOK, InOrder
  <1>1. ASSUME NEW p \in Packets, UdpDelivers(p)
        PROVE  InOrder'
    BY <1>0, <1>1, AppendConcat DEF UdpDelivers, UdpAccept, InOrder
  <1>2. ASSUME NEW p \in Packets \cup {NullPacket}, Recv(p)
        PROVE  InOrder'
    <2>1. CASE rxQueue = << >>
      BY <1>0, <1>2, <2>1 DEF Recv, UdpRecv, Receives, Rs!Recv, InOrder
    <2>2. CASE rxQueue # << >>
      <3>1. Head(rxQueue) \in Packets
        BY <1>0, <2>2
      <3>2. /\ p = Head(rxQueue) /\ p # NullPacket /\ accepted' = accepted
            /\ rxQueue' = Tail(rxQueue) /\ received' = Append(received, p)
        BY <1>2, <2>2, <3>1, UdpAssumption DEF Recv, UdpRecv, Receives, Rs!Recv
      <3> QED
        BY <1>0, <2>2, <3>2, MoveHead DEF InOrder
    <2> QED
      BY <2>1, <2>2
  <1>3. CASE UNCHANGED <<accepted, received, rxQueue>>
    BY <1>3 DEF InOrder
  <1> QED
    BY <1>1, <1>2, <1>3, QueryStep
    DEF Next, vars, udpVars, clientVars, SetRecvCallback, Keep, Tie, SetSendCallback,
        BindToNetDevice, Bind, Connect, Listen, Close, CloseBelow, Send, Enter,
        SendTo, UdpCompletes,
        ShutdownSend, ShutdownRecv, ReturnUpcall, UpcallReturns, Returns,
        UdpSetRecvCallback, UdpSetSendCallback, UdpBind, UdpConnect, UdpListen,
        UdpClose, UdpSend, UdpShutdownSend, UdpShutdownRecv

(* No packet UDP accepted is lost, repeated or reordered on its way through *)
(* the Rust interface to the application.                                  *)
THEOREM ReceivedInOrder == Spec => []InOrder
  <1>1. Init => InOrder
    BY DEF Init, UdpInit, ClientInit, InOrder
  <1>2. TypeOK /\ InOrder /\ [Next]_vars => InOrder'
    BY InOrderStep
  <1> QED
    BY <1>1, <1>2, TypeCorrect, PTL DEF Spec
-----------------------------------------------------------------------------
(* A Send is in progress exactly from the application's call to UDP's       *)
(* completion of it.                                                       *)
LEMMA SendingStep ==
  ASSUME TypeOK, AppBelow(frames)
  PROVE  /\ UdpCompletes => ~Sending'
         /\ ReturnUpcall => ~Sending'
         /\ \A p \in Packets : UdpDelivers(p) => ~Sending'
  <1>1. ASSUME UdpCompletes PROVE ~Sending'
    <2>1. frames # << >>
      BY <1>1 DEF UdpCompletes, Sending
    <2>2. Tail(frames) # << >> => Head(Tail(frames)).kind \in AppKinds
      BY <2>1, BelowPop DEF TypeOK
    <2>3. Head(<<HandleSend>> \o Tail(frames)) = HandleSend
      BY <2>1, StackPop, StackPush, FrameTypes DEF TypeOK
    <2>4. HandleSend.kind # "send"
      BY DEF HandleSend, SendUpcall, NullCall
    <2> QED
      BY <1>1, <2>2, <2>3, <2>4 DEF UdpCompletes, Sending, AppKinds
  <1>2. ASSUME ReturnUpcall PROVE ~Sending'
    BY <1>2, BelowPop DEF TypeOK, ReturnUpcall, UpcallReturns, Sending, AppKinds
  <1>3. ASSUME NEW p \in Packets, UdpDelivers(p) PROVE ~Sending'
    BY <1>3 DEF UdpDelivers, Sending, HandleRecv, RecvUpcall, NullCall
  <1> QED
    BY <1>1, <1>2, <1>3

(* Rust hears of exactly the Sends UDP is given, in UDP's order, at most    *)
(* the one now running ahead of UDP, for any nesting of sends inside send  *)
(* callbacks.                                                              *)
THEOREM TapsInOrder == Spec => []TapOrder
  <1>1. Init => TapOrder
    BY DEF Init, UdpInit, ClientInit, Rs!RsInit, TapOrder, Sending
  <1>2. IInv /\ TapOrder /\ [Next]_vars => TapOrder'
    <2> SUFFICES ASSUME TypeOK, AppBelow(frames), TapOrder, [Next]_vars
                 PROVE  TapOrder'
      BY DEF IInv
    <2>0. /\ rsSends \in Seq([pkt : Packets, buf : {EmptyBuffer}])
          /\ sendCalls \in Seq(SendCall)
      BY DEF TypeOK, UdpTypeOK
    <2>1. ASSUME NEW p \in Packets, Send(p) \/ \E a \in Addrs : SendTo(p, a)
          PROVE  TapOrder'
      <3>1. ~Sending
        BY <2>1 DEF Send, SendTo, AppRunning, Sending
      <3>2. PICK a, b : frames' = <<SendFrame(a, p, b)>> \o frames
        BY <2>1 DEF Send, Enter, SendTo
      <3>3. Sending' /\ Head(frames').pkt = p
        BY <3>2 DEF TypeOK, SendFrame, Sending
      <3>4. /\ sendCalls' = sendCalls
            /\ rsSends' = Append(rsSends, [pkt |-> p, buf |-> EmptyBuffer])
        BY <2>1 DEF Send, Enter, SendTo, Rs!Send, Rs!helix_rs_send, udpVars
      <3>5. /\ Len(rsSends') = Len(rsSends) + 1
            /\ rsSends'[Len(rsSends')].pkt = p
            /\ \A i \in 1..Len(rsSends) : rsSends'[i] = rsSends[i]
        BY <2>0, <3>4
      <3> QED
        BY <2>0, <3>1, <3>3, <3>4, <3>5 DEF TapOrder
    <2>2. CASE UdpCompletes
      <3>1. Sending /\ ~Sending'
        BY <2>2, SendingStep DEF UdpCompletes
      <3>2. PICK r \in Results :
              /\ sendCalls' = Append(sendCalls, [pkt |-> Head(frames).pkt,
                                                 dst |-> Head(frames).dst, ret |-> r])
              /\ rsSends' = rsSends
        BY <2>2 DEF UdpCompletes, UdpSend, implVars
      <3>3. /\ Len(sendCalls') = Len(sendCalls) + 1
            /\ sendCalls'[Len(sendCalls')].pkt = Head(frames).pkt
            /\ \A i \in 1..Len(sendCalls) : sendCalls'[i] = sendCalls[i]
        BY <2>0, <3>2
      <3> QED
        BY <2>0, <3>1, <3>2, <3>3 DEF TapOrder
    <2>3. CASE ReturnUpcall \/ \E p \in Packets : UdpDelivers(p)
      <3>1. ~Sending' /\ ~Sending
        BY <2>3, SendingStep DEF ReturnUpcall, UpcallReturns, UdpDelivers, AppRunning,
                                 Sending
      <3>2. UNCHANGED <<sendCalls, rsSends>>
        BY <2>3 DEF ReturnUpcall, UdpDelivers, UdpAccept, udpVars, implVars
      <3> QED
        BY <3>1, <3>2 DEF TapOrder
    <2>4. CASE UNCHANGED <<frames, sendCalls, rsSends>>
      BY <2>4 DEF TapOrder, Sending
    <2> QED
      BY <2>1, <2>2, <2>3, <2>4, QueryStep
      DEF Next, vars, udpVars, clientVars, implVars, SetRecvCallback, Keep, Tie, SetSendCallback,
          BindToNetDevice, Bind, Connect, Listen, Close, CloseBelow, Recv, ShutdownSend,
          ShutdownRecv, Returns, Receives, UdpSetRecvCallback, UdpSetSendCallback,
          UdpBind, UdpConnect, UdpListen, UdpClose, UdpRecv, UdpShutdownSend,
          UdpShutdownRecv, Rs!Bind, Rs!Connect, Rs!Listen, Rs!Close
  <1> QED
    BY <1>1, <1>2, InvInductive, PTL DEF Spec

(* An end point that takes datagrams was opened after the last Close Rust   *)
(* heard of, for every application, however it nests its calls: UDP opens   *)
(* one by itself for a Send, and no Close can come while that Send runs.    *)
THEOREM OpensAsTold == Spec => []OpenAsTold
  <1> DEFINE Told == OpenAsTold /\ (Sending => rsTold = "Send")
  <1>1. Init => Told
    BY DEF Init, UdpInit, ClientInit, OpenAsTold, Deliverable, Sending
  <1>2. IInv /\ Told /\ [Next]_vars => Told'
    <2> SUFFICES ASSUME TypeOK, AppBelow(frames), Told, [Next]_vars
                 PROVE  Told'
      BY DEF IInv
    <2>1. ASSUME NEW p \in Packets, Send(p) \/ \E a \in Addrs : SendTo(p, a)
          PROVE  Told'
      BY <2>1 DEF Send, SendTo, Enter, Rs!Send, Rs!helix_rs_send, OpenAsTold
    <2>2. CASE UdpCompletes
      <3>1. rsTold' = "Send" /\ ~Sending'
        BY <2>2, SendingStep DEF UdpCompletes, implVars
      <3> QED
        BY <3>1 DEF OpenAsTold
    <2>3. ASSUME NEW r \in Results, Close(r)
          PROVE  Told'
      <3>1. ~Deliverable'
        BY <2>3 DEF Close, CloseBelow, UdpClose, Deliverable
      <3>2. ~Sending'
        BY <2>3 DEF Close, AppRunning, Returns, Sending
      <3> QED
        BY <3>1, <3>2 DEF OpenAsTold
    <2>4. ASSUME NEW r \in Results,
                 BindToNetDevice \/ \E e \in {"any", "addr"} : Bind(e, r)
          PROVE  Told'
      <3>1. rsTold' = "Bind" /\ ~Sending'
        BY <2>4 DEF Bind, BindToNetDevice, Rs!Bind, Rs!helix_rs_bind, AppRunning,
                    Returns, clientVars, Sending
      <3> QED
        BY <3>1 DEF OpenAsTold
    <2>5. CASE /\ UNCHANGED rsTold
               /\ Deliverable' => Deliverable
               /\ Sending' => Sending
      BY <2>5 DEF OpenAsTold
    <2>6. CASE ReturnUpcall \/ \E p \in Packets : UdpDelivers(p)
      <3>1. ~Sending'
        BY <2>6, SendingStep
      <3>2. UNCHANGED <<rsTold, endpoint, shutRecv>>
        BY <2>6 DEF ReturnUpcall, UdpDelivers, UdpAccept, udpVars, implVars
      <3> QED
        BY <3>1, <3>2, <2>5 DEF Deliverable
    <2>7. ASSUME NEW r \in Results, Listen(r) \/ \E a \in Addrs : Connect(a, r)
          PROVE  Told'
      BY <2>7, <2>5 DEF Listen, Connect, Rs!Listen, Rs!Connect, Rs!helix_rs_listen,
         Rs!helix_rs_connect, UdpListen, UdpConnect, udpVars, Returns, Sending,
         Deliverable
    <2>8. CASE ShutdownSend \/ ShutdownRecv
      BY <2>8, <2>5 DEF ShutdownSend, ShutdownRecv, UdpShutdownSend, UdpShutdownRecv,
         Returns, implVars, Sending, Deliverable
    <2>9. CASE UNCHANGED <<rsTold, endpoint, shutRecv, frames>>
      BY <2>9, <2>5 DEF Deliverable, Sending
    <2> HIDE DEF Told
    <2> QED
      BY <2>1, <2>2, <2>3, <2>4, <2>6, <2>7, <2>8, <2>9, QueryStep
      DEF Next, vars, udpVars, clientVars, implVars, SetRecvCallback, Keep, Tie,
          SetSendCallback, Recv, Receives, UdpSetRecvCallback, UdpSetSendCallback,
          UdpRecv, Results
  <1>3. Told => OpenAsTold
    OBVIOUS
  <1> HIDE DEF Told
  <1> QED
    BY <1>1, <1>2, <1>3, InvInductive, PTL DEF Spec
-----------------------------------------------------------------------------
(* Every step of the HELIX socket is a step of the UDP socket, or none. *)
LEMMA DirectStep ==
  ASSUME IInv, Disciplined, [Next]_vars
  PROVE  [Direct!Next]_(Direct!directVars)
  <1>0. TypeOK /\ HandlesLive /\ ClosedIsShut /\ NoSendOnClosed
    BY DEF IInv
  <1> USE DEF Direct!directVars, Direct!udpVars, Direct!clientVars, udpVars, clientVars,
              handles, implVars
  <1>1. ASSUME NEW cb \in Cbs \cup {NoCb}, SetRecvCallback(cb)
        PROVE  Direct!SetCallback
    <2>1. Direct!UdpSetRecvCallback(cb)
      BY <1>1, HelixAssumption DEF SetRecvCallback, Keep, Tie, UdpSetRecvCallback,
         Direct!UdpSetRecvCallback
    <2> QED
      BY <1>1, <2>1 DEF SetRecvCallback, Direct!SetCallback, AppRunning,
         Direct!AppRunning
  <1>2. ASSUME NEW cb \in Cbs \cup {NoCb}, SetSendCallback(cb)
        PROVE  Direct!SetCallback
    <2>1. Direct!UdpSetSendCallback(cb)
      BY <1>2, HelixAssumption DEF SetSendCallback, UdpSetSendCallback,
         Direct!UdpSetSendCallback
    <2> QED
      BY <1>2, <2>1 DEF SetSendCallback, Direct!SetCallback, AppRunning, Direct!AppRunning
  <1>3. ASSUME NEW e \in {"any", "addr"}, NEW r \in Results, Bind(e, r)
        PROVE  Direct!Call
    <2>1. Direct!UdpBind(e, r) /\ Direct!Returns(r) /\ Direct!AppRunning
      BY <1>3 DEF Bind, UdpBind, UdpAllocate, Returns, AppRunning, Direct!UdpBind,
         Direct!UdpAllocate, Direct!Returns, Direct!AppRunning
    <2> QED
      BY <2>1 DEF Direct!Call, Direct!Results, Results
  <1>4. ASSUME NEW a \in Addrs, NEW r \in Results, Connect(a, r)
        PROVE  Direct!Call
    <2>1. Direct!UdpConnect(a, r) /\ Direct!Returns(r) /\ Direct!AppRunning
      BY <1>4 DEF Connect, UdpConnect, Returns, AppRunning, Direct!UdpConnect,
         Direct!Returns, Direct!AppRunning
    <2> QED
      BY <2>1 DEF Direct!Call, Direct!Results, Results
  <1>5. ASSUME NEW r \in Results, Listen(r)
        PROVE  Direct!Call
    <2>1. Direct!UdpListen(r) /\ Direct!Returns(r) /\ Direct!AppRunning
      BY <1>5 DEF Listen, UdpListen, Returns, AppRunning, Direct!UdpListen,
         Direct!Returns, Direct!AppRunning
    <2> QED
      BY <2>1 DEF Direct!Call, Direct!Results, Results
  <1>6. ASSUME NEW r \in Results, Close(r)
        PROVE  Direct!Call
    <2>1. Direct!UdpClose(r) /\ Direct!Returns(r) /\ Direct!AppRunning
      BY <1>6 DEF Close, CloseBelow, UdpClose, Returns, AppRunning, Direct!UdpClose,
         Direct!Returns, Direct!AppRunning
    <2> QED
      BY <2>1 DEF Direct!Call, Direct!Results, Results
  <1>7. CASE BindToNetDevice \/ UNCHANGED vars
    BY <1>7 DEF BindToNetDevice, vars
  <1>8. ASSUME NEW p \in Packets, Send(p) \/ \E a \in Addrs : SendTo(p, a)
        PROVE  Direct!CallSend(p)
    BY <1>8 DEF Send, Enter, SendTo, SendFrame, AppRunning, Direct!CallSend, Direct!SendFrame,
       Direct!AppRunning
  <1>9. ASSUME UdpCompletes
        PROVE  Direct!CompleteSend
    <2>1. sendCb # NoCb => HandleSend = SendUpcall(handleSend, "own")
      BY <1>0, <1>9 DEF HandlesLive, NoSendOnClosed, UdpCompletes, HandleSend
    <2>2. sendCb # NoCb => handleSend # NoCb
      BY <1>0, <1>9 DEF HandlesLive, NoSendOnClosed, UdpCompletes
    <2>3. PICK r \in Results :
            /\ UdpSend(Head(frames).pkt, Head(frames).dst, r)
            /\ \/ frames' = Tail(frames) /\ ret' = r
               \/ /\ r = "ok" /\ sendCb # NoCb
                  /\ frames' = <<HandleSend>> \o Tail(frames)
                  /\ UNCHANGED ret
      BY <1>9 DEF UdpCompletes
    <2>4. Direct!UdpSend(Head(frames).pkt, Head(frames).dst, r)
      BY <1>9, <2>3 DEF UdpCompletes, UdpSend, UdpAllocate, Direct!UdpSend,
         Direct!UdpAllocate
    <2> QED
      BY <1>9, <2>1, <2>2, <2>3, <2>4
      DEF UdpCompletes, Direct!CompleteSend, Direct!Sending, Sending, Direct!SendUpcall,
          SendUpcall, Direct!Results, Results
  <1>10. ASSUME NEW p \in Packets, UdpDelivers(p)
         PROVE  Direct!Deliver(p)
    <2>1. ~closed
      BY <1>0, <1>10 DEF ClosedIsShut, UdpDelivers, UdpAccept, Deliverable
    <2>2. Direct!UdpAccept(p)
      BY <1>10 DEF UdpDelivers, UdpAccept, Deliverable, Direct!UdpAccept, Direct!Deliverable
    <2> QED
      BY <1>0, <1>10, <2>1, <2>2 DEF HandlesLive, UdpDelivers, HandleRecv, RecvUpcall,
         Direct!Deliver, Direct!RecvUpcall
  <1>11. ASSUME NEW p \in Packets \cup {NullPacket}, Recv(p)
         PROVE  Direct!Recv(p)
    BY <1>11 DEF Recv, UdpRecv, Receives, AppRunning, Rs!Recv, Direct!Recv,
       Direct!UdpRecv, Direct!Receives, Direct!AppRunning
  <1>12. ASSUME ShutdownSend \/ ShutdownRecv
         PROVE  Direct!Call
    <2>1. /\ Direct!UdpShutdownSend \/ Direct!UdpShutdownRecv
          /\ Direct!Returns("ok") /\ Direct!AppRunning
      BY <1>12 DEF ShutdownSend, ShutdownRecv, UdpShutdownSend, UdpShutdownRecv,
         Returns, AppRunning, Direct!UdpShutdownSend, Direct!UdpShutdownRecv,
         Direct!Returns, Direct!AppRunning
    <2> QED
      BY <2>1 DEF Direct!Call, Direct!Results
  <1>13. ASSUME ReturnUpcall
         PROVE  Direct!ReturnUpcall
    BY <1>13 DEF ReturnUpcall, UpcallReturns, AppRunning, Direct!ReturnUpcall,
       Direct!UpcallReturns, Direct!AppRunning
  <1>14. ASSUME Query
         PROVE  Direct!Query
    BY <1>14 DEF Query, Returns, AppRunning, GetRxAvailable, GetSockName, GetPeerName,
       UdpRxAvailable, UdpSockName, UdpPeerName, Direct!Query, Direct!Returns,
       Direct!AppRunning, Direct!UdpRxAvailable, Direct!UdpSockName, Direct!UdpPeerName
  <1> QED
    BY <1>1, <1>2, <1>3, <1>4, <1>5, <1>6, <1>7, <1>8, <1>9, <1>10, <1>11, <1>12, <1>13,
       <1>14
    DEF Next, Direct!Next

(* For a disciplined application the HELIX socket implements the UDP        *)
(* socket: "as if the same callback was passed directly to UDP", with the  *)
(* same packets, results and order (helix-socket-impl.h lines 130-142).    *)
THEOREM ImplementsUdp ==
  ASSUME Disciplined PROVE Spec => ActsLikeUdp
  <1>1. Init => Direct!Init
    BY DEF Init, UdpInit, ClientInit, Direct!Init, Direct!UdpInit, Direct!ClientInit
  <1>2. IInv /\ [Next]_vars => [Direct!Next]_(Direct!directVars)
    BY DirectStep
  <1> QED
    BY <1>1, <1>2, InvInductive, PTL DEF Spec, ActsLikeUdp, Direct!Spec
=============================================================================
