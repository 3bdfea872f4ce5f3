------------------------ MODULE ExampleSocketsProofs ------------------------
(***************************************************************************)
(* Theorems about the receiving sockets of the examples, for all packets,  *)
(* buffer sizes and numbers of datagrams, whatever UDP answers.            *)
(***************************************************************************)
EXTENDS ExampleSockets, HelixSocketProofs

(* Each step of an example is one of the socket, or leaves it alone. *)
LEMMA ExampleStep == ASSUME [ExampleNext]_evars PROVE [Next]_vars
  <1>1. CASE EventBegins \/ UNCHANGED evars
    BY <1>1 DEF EventBegins, evars
  <1>2. CASE SetUp
    <2>1. CASE \E r \in Results : Bind("addr", r)
      BY <2>1 DEF Next
    <2>2. CASE \E r \in Results : Connect(Other, r)
      BY <2>2, ExampleAssumption DEF Next
    <2>3. CASE \E r \in Results : Listen(r)
      BY <2>3 DEF Next
    <2>4. CASE SetRecvCallback(ReadCb)
      BY <2>4, ExampleAssumption DEF Next
    <2>5. CASE \E p \in Packets : Send(p)
      BY <2>5 DEF Next
    <2> QED
      BY <1>2, <2>1, <2>2, <2>3, <2>4, <2>5 DEF SetUp
  <1>3. CASE SendEnds
    BY <1>3 DEF SendEnds, Next
  <1>4. CASE HandleRead
    BY <1>4 DEF HandleRead, Next
  <1>5. CASE CloseSocket
    <2>1. CASE \E r \in Results : Close(r)
      BY <2>1 DEF Next
    <2>2. CASE SetRecvCallback(NoCb) \/ SetSendCallback(NoCb)
      BY <2>2 DEF Next
    <2> QED
      BY <1>5, <2>1, <2>2 DEF CloseSocket
  <1>6. ASSUME NEW p \in Packets, Arrive(p) PROVE [Next]_vars
    BY <1>6 DEF Arrive, Next
  <1> QED
    BY <1>1, <1>2, <1>3, <1>4, <1>5, <1>6 DEF ExampleNext, Runs

(* The sockets of the examples are HELIX sockets: what holds of every       *)
(* application holds of them.                                              *)
THEOREM ExamplesAreSockets == ExampleSpec => Spec
  <1>1. ExampleInit => Init
    BY DEF ExampleInit
  <1>2. [ExampleNext]_evars => [Next]_vars
    BY ExampleStep
  <1> QED
    BY <1>1, <1>2, PTL DEF ExampleSpec, Spec
-----------------------------------------------------------------------------
(* The calls a running event can have left, by where in its life the socket *)
(* is.                                                                     *)
Opening ==
  {<<"bind", "connect", "setRecv">>, <<"connect", "setRecv">>, <<"setRecv">>,
   <<"bind", "connect", "setRecv", "send">>, <<"connect", "setRecv", "send">>,
   <<"setRecv", "send">>,
   <<"bind", "listen", "setRecv">>, <<"listen", "setRecv">>}
Reading == {<<"read", "return">>, <<"return">>}
Closing == {<<"close", "nullRecv">>, <<"close", "nullRecv", "nullSend">>}
Dropping == {<<"nullRecv">>, <<"nullRecv", "nullSend">>, <<"nullSend">>}

LEMMA OpeningCalls ==
  ASSUME NEW t \in Opening
  PROVE  /\ t # << >> /\ Head(t) \in {"bind", "connect", "listen", "setRecv"}
         /\ IF Head(t) = "setRecv" THEN Tail(t) \in {<< >>, <<"send">>}
                                   ELSE Tail(t) \in Opening
  <1>1. CASE t = <<"bind", "connect", "setRecv">>
    BY <1>1 DEF Opening
  <1>2. CASE t = <<"connect", "setRecv">>
    BY <1>2 DEF Opening
  <1>3. CASE t = <<"setRecv">>
    BY <1>3 DEF Opening
  <1>4. CASE t = <<"bind", "connect", "setRecv", "send">>
    BY <1>4 DEF Opening
  <1>5. CASE t = <<"connect", "setRecv", "send">>
    BY <1>5 DEF Opening
  <1>6. CASE t = <<"setRecv", "send">>
    BY <1>6 DEF Opening
  <1>7. CASE t = <<"bind", "listen", "setRecv">>
    BY <1>7 DEF Opening
  <1>8. CASE t = <<"listen", "setRecv">>
    BY <1>8 DEF Opening
  <1> QED
    BY <1>1, <1>2, <1>3, <1>4, <1>5, <1>6, <1>7, <1>8 DEF Opening

LEMMA ReadingCalls ==
  ASSUME NEW t \in Reading
  PROVE  /\ t # << >>
         /\ \/ t = <<"read", "return">> /\ Head(t) = "read" /\ Tail(t) = <<"return">>
            \/ t = <<"return">> /\ Head(t) = "return" /\ Tail(t) = << >>
  <1>1. CASE t = <<"read", "return">>
    BY <1>1
  <1>2. CASE t = <<"return">>
    BY <1>2
  <1> QED
    BY <1>1, <1>2 DEF Reading

LEMMA ClosingCalls ==
  ASSUME NEW t \in Closing
  PROVE  t # << >> /\ Head(t) = "close" /\ Tail(t) \in Dropping
  <1>1. CASE t = <<"close", "nullRecv">>
    BY <1>1 DEF Dropping
  <1>2. CASE t = <<"close", "nullRecv", "nullSend">>
    BY <1>2 DEF Dropping
  <1> QED
    BY <1>1, <1>2 DEF Closing

LEMMA DroppingCalls ==
  ASSUME NEW t \in Dropping
  PROVE  /\ t # << >> /\ Head(t) \in {"nullRecv", "nullSend"}
         /\ Tail(t) \in Dropping \cup {<< >>}
  <1>1. CASE t = <<"nullRecv">>
    BY <1>1
  <1>2. CASE t = <<"nullRecv", "nullSend">>
    BY <1>2 DEF Dropping
  <1>3. CASE t = <<"nullSend">>
    BY <1>3
  <1> QED
    BY <1>1, <1>2, <1>3 DEF Dropping

(* Every script is an opening one and a closing one. *)
LEMMA ScheduleCalls ==
  ASSUME role \in DOMAIN Schedule
  PROVE  \E o \in Opening, c \in Closing : Schedule[role] = <<o, c>>
  <1>1. {ServerCalls, ClientCalls, ReceiverCalls} \subseteq Opening
    BY DEF ServerCalls, ClientCalls, ReceiverCalls, Opening
  <1>2. {ExampleCloses, TransferCloses} \subseteq Closing
    BY DEF ExampleCloses, TransferCloses, Closing
  <1>3. role \in {"server", "client", "receiver"}
    BY DEF Schedule
  <1>4. /\ Schedule["server"] = <<ServerCalls, ExampleCloses>>
        /\ Schedule["client"] = <<ClientCalls, ExampleCloses>>
        /\ Schedule["receiver"] = <<ReceiverCalls, TransferCloses>>
    BY Zenon DEF Schedule
  <1> QED
    BY Zenon, <1>1, <1>2, <1>3, <1>4
-----------------------------------------------------------------------------
(* Where the socket is in its life: not yet set up, in use, about to be     *)
(* closed, closed.  From the end of its set-up until it is closed it has a *)
(* live receive handle, tied to UDP.                                       *)
Tied == recvCb = "HandleRecv" /\ handleRecv # NoCb

Stage ==
  \/ /\ Len(scheduled) = 2 /\ scheduled = Schedule[role]
     /\ todo = << >> /\ endpoint = "none" /\ recvCb = NoCb /\ ~closed
  \/ /\ Len(scheduled) = 1 /\ \E c \in Closing : scheduled = <<c>>
     /\ todo \in Opening \cup Reading \cup {<< >>, <<"send">>}
     /\ todo \notin Opening => Tied
     /\ ~closed
  \/ scheduled = << >> /\ todo \in Closing /\ Tied /\ ~closed
  \/ scheduled = << >> /\ todo \in Dropping \cup {<< >>} /\ closed

(* UDP: Close worked, which it does on a socket not shut down; no example   *)
(* sets a send callback on an open socket.                                 *)
Below ==
  IF closed THEN endpoint = "none" ELSE ~shutSend /\ ~shutRecv /\ sendCb = NoCb

(* The stack holds handleRead's activation, a Send in progress, or nothing. *)
Control ==
  \/ frames = << >> /\ todo \notin Reading
  \/ \E cb, sock : frames = <<RecvUpcall(cb, sock)>> /\ todo \in Reading
  \/ \E a, p, b : frames = <<SendFrame(a, p, b)>> /\ todo = << >> /\ Len(scheduled) = 1

(* Only a handleRead that has not met a null packet leaves datagrams. *)
Unread == rxQueue # << >> => todo = <<"read", "return">>

EInv == role \in DOMAIN Schedule /\ Stage /\ Below /\ Control /\ Unread

(* The sets of scripts are told apart by the call that is next. *)
LEMMA Apart ==
  /\ << >> \notin Opening \cup Reading \cup Closing \cup Dropping
  /\ <<"send">> \notin Opening \cup Reading \cup Closing \cup Dropping
  /\ Head(<<"send">>) = "send" /\ Tail(<<"send">>) = << >> /\ <<"send">> # << >>
  /\ \A t \in Opening : t \notin Reading \cup Closing \cup Dropping
  /\ \A t \in Reading : t \notin Closing \cup Dropping
  /\ \A t \in Closing : t \notin Dropping
  BY OpeningCalls, ReadingCalls, ClosingCalls, DroppingCalls

(* What the next call of the running event says about the socket. *)
LEMMA NextCall ==
  ASSUME EInv, todo # << >>
  PROVE  /\ Head(todo) \in {"bind", "connect", "listen", "setRecv"} =>
              /\ todo \in Opening /\ frames = << >>
              /\ Len(scheduled) = 1 /\ ~closed
         /\ Head(todo) = "send" =>
              /\ todo = <<"send">> /\ frames = << >> /\ Tied
              /\ Len(scheduled) = 1 /\ ~closed
         /\ Head(todo) \in {"read", "return"} =>
              /\ todo \in Reading /\ Tied
              /\ \E cb, sock : frames = <<RecvUpcall(cb, sock)>>
              /\ Len(scheduled) = 1 /\ ~closed
         /\ Head(todo) = "close" =>
              /\ todo \in Closing /\ frames = << >> /\ scheduled = << >>
              /\ Tied /\ ~closed
         /\ Head(todo) \in {"nullRecv", "nullSend"} =>
              /\ todo \in Dropping /\ frames = << >> /\ scheduled = << >> /\ closed
  <1>1. CASE todo \in Opening
    BY <1>1, OpeningCalls, Apart DEF EInv, Stage, Control
  <1>2. CASE todo \in Reading
    BY <1>2, ReadingCalls, Apart DEF EInv, Stage, Control
  <1>3. CASE todo \in Closing
    BY <1>3, ClosingCalls, Apart DEF EInv, Stage, Control
  <1>4. CASE todo \in Dropping
    BY <1>4, DroppingCalls, Apart DEF EInv, Stage, Control
  <1>5. CASE todo = <<"send">>
    BY <1>5, Apart DEF EInv, Stage, Control
  <1> QED
    BY <1>1, <1>2, <1>3, <1>4, <1>5 DEF EInv, Stage
-----------------------------------------------------------------------------
LEMMA EInvInit == ASSUME ExampleInit PROVE EInv
  <1>1. PICK o \in Opening, c \in Closing : Schedule[role] = <<o, c>>
    BY ScheduleCalls DEF ExampleInit
  <1>2. /\ endpoint = "none" /\ recvCb = NoCb /\ rxQueue = << >> /\ frames = << >>
        /\ ~closed /\ ~shutSend /\ ~shutRecv /\ sendCb = NoCb
    BY DEF ExampleInit, Init, UdpInit, ClientInit
  <1>3. scheduled = Schedule[role] /\ Len(scheduled) = 2 /\ todo = << >>
    BY <1>1 DEF ExampleInit
  <1> QED
    BY <1>2, <1>3, Apart DEF ExampleInit, EInv, Stage, Below, Control, Unread

LEMMA BeginsStep == ASSUME EInv, EventBegins PROVE EInv'
  <1>1. /\ todo = << >> /\ frames = << >> /\ scheduled # << >>
        /\ todo' = Head(scheduled) /\ scheduled' = Tail(scheduled)
        /\ UNCHANGED <<role, frames, closed, endpoint, recvCb, handleRecv, shutSend,
                       shutRecv, sendCb, rxQueue>>
    BY DEF EventBegins, BetweenEvents, vars, udpVars, clientVars, implVars
  <1>2. Unread' /\ Below' /\ (role \in DOMAIN Schedule)'
    BY <1>1 DEF EInv, Unread, Below
  <1>3. Stage' /\ todo' \in Opening \cup Closing
    <2>1. CASE Len(scheduled) = 2 /\ scheduled = Schedule[role] /\ ~closed
      <3>1. PICK o \in Opening, c \in Closing : scheduled = <<o, c>>
        BY <2>1, ScheduleCalls DEF EInv
      <3>2. todo' = o /\ scheduled' = <<c>> /\ Len(scheduled') = 1
        BY <1>1, <3>1
      <3> QED
        BY <1>1, <2>1, <3>2 DEF Stage
    <2>2. CASE ~closed /\ Tied /\ \E c \in Closing : scheduled = <<c>>
      <3>1. todo' \in Closing /\ scheduled' = << >>
        BY <1>1, <2>2
      <3> QED
        BY <1>1, <2>2, <3>1 DEF Stage, Tied
    <2> QED
      BY <1>1, <2>1, <2>2, Apart DEF EInv, Stage
  <1>4. Control'
    BY <1>1, <1>3, Apart DEF Control
  <1> QED
    BY <1>2, <1>3, <1>4 DEF EInv

LEMMA SetUpStep == ASSUME TypeOK, EInv, SetUp PROVE EInv'
  <1> DEFINE Kept == UNCHANGED <<rxQueue, closed, frames, sendCb, scheduled, role>>
  <1>1. ASSUME todo # << >>, Head(todo) \in {"bind", "connect", "listen"},
               todo' = Tail(todo), Kept, UNCHANGED <<recvCb, handleRecv>>, Below'
        PROVE  EInv'
    <2>1. /\ todo \in Opening /\ frames = << >> /\ Len(scheduled) = 1 /\ ~closed
      BY <1>1, NextCall
    <2>2. todo' \in Opening
      BY <1>1, <2>1, OpeningCalls
    <2>3. Stage' /\ Control' /\ Unread'
      BY <1>1, <2>1, <2>2, Apart DEF EInv, Stage, Control, Unread
    <2> QED
      BY <1>1, <2>3 DEF EInv
  <1>2. CASE Do("bind") /\ \E r \in Results : Bind("addr", r)
    <2>1. Kept /\ UNCHANGED <<recvCb, handleRecv>>
      BY <1>2 DEF Do, Bind, UdpBind, Returns, handles
    <2>2. ~closed
      BY <1>2, NextCall DEF Do
    <2>3. Below'
      BY <1>2, <2>1, <2>2 DEF EInv, Below, Bind, UdpBind, UdpAllocate
    <2> QED
      BY <1>1, <1>2, <2>1, <2>3 DEF Do
  <1>3. CASE \/ Do("connect") /\ \E r \in Results : Connect(Other, r)
             \/ Do("listen") /\ \E r \in Results : Listen(r)
    <2>1. Kept /\ UNCHANGED <<recvCb, handleRecv, endpoint, shutSend, shutRecv>>
      BY <1>3 DEF Do, Connect, UdpConnect, Listen, UdpListen, udpVars, Returns, handles
    <2>2. Below'
      BY <2>1 DEF EInv, Below
    <2> QED
      BY <1>1, <1>3, <2>1, <2>2 DEF Do
  <1>4. CASE Do("setRecv") /\ SetRecvCallback(ReadCb)
    <2>1. /\ todo \in Opening /\ frames = << >> /\ Len(scheduled) = 1 /\ ~closed
      BY <1>4, NextCall DEF Do
    <2>2. Kept /\ UNCHANGED <<endpoint, shutSend, shutRecv>>
      BY <1>4 DEF Do, SetRecvCallback, Tie, UdpSetRecvCallback, clientVars
    <2>3. Tied'
      BY <1>4, CbAssumption, ExampleAssumption
      DEF SetRecvCallback, Tie, Keep, UdpSetRecvCallback, Tied
    <2>4. todo' \in {<< >>, <<"send">>}
      BY <1>4, <2>1, OpeningCalls DEF Do
    <2>5. rxQueue = << >>
      BY <2>1, OpeningCalls DEF EInv, Unread
    <2>6. \E c \in Closing : scheduled = <<c>>
      BY <2>1 DEF EInv, Stage
    <2>7. Stage'
      BY <2>1, <2>2, <2>3, <2>4, <2>6 DEF Stage
    <2>8. Below' /\ Control' /\ Unread'
      BY <2>1, <2>2, <2>4, <2>5, Apart DEF EInv, Below, Control, Unread
    <2> QED
      BY <2>2, <2>7, <2>8 DEF EInv
  <1>5. CASE Do("send") /\ \E p \in Packets : Send(p)
    <2>1. /\ todo = <<"send">> /\ frames = << >> /\ Tied /\ Len(scheduled) = 1 /\ ~closed
          /\ todo' = << >>
      BY <1>5, NextCall, Apart DEF Do
    <2>2. PICK p \in Packets : Send(p)
      BY <1>5
    <2>3. /\ frames' = <<SendFrame(NoAddr, p, peer)>> \o frames
          /\ UNCHANGED <<udpVars, handles, closed, scheduled, role>>
      BY <1>5, <2>2 DEF Do, Send, Enter
    <2>4. frames' = <<SendFrame(NoAddr, p, peer)>>
      BY <2>1, <2>3
    <2>5. Stage' /\ Below' /\ Control' /\ Unread'
      BY <2>1, <2>3, <2>4, Apart
      DEF EInv, Stage, Below, Control, Unread, Tied, udpVars, handles
    <2> QED
      BY <2>3, <2>5 DEF EInv
  <1> QED
    BY <1>2, <1>3, <1>4, <1>5 DEF SetUp

LEMMA SendEndsStep == ASSUME TypeOK, EInv, SendEnds PROVE EInv'
  <1>1. PICK a, p, b : frames = <<SendFrame(a, p, b)>> /\ todo = << >> /\ Len(scheduled) = 1
    BY DEF EInv, Control, SendEnds, UdpCompletes, Sending, RecvUpcall
  <1>2. PICK r \in Results : UdpSend(Head(frames).pkt, Head(frames).dst, r)
    BY DEF SendEnds, UdpCompletes
  <1>3. /\ ~closed /\ sendCb = NoCb /\ Tied /\ \E c \in Closing : scheduled = <<c>>
    BY <1>1, Apart DEF EInv, Stage, Below
  <1>4. frames' = << >>
    BY <1>1, <1>3 DEF SendEnds, UdpCompletes
  <1>5. UNCHANGED <<role, todo, scheduled, closed, recvCb, handleRecv, sendCb, rxQueue>>
    BY <1>2 DEF SendEnds, UdpCompletes, UdpSend, implVars
  <1>6. Below'
    BY <1>2, <1>3, <1>5 DEF EInv, Below, UdpSend, UdpAllocate
  <1>7. Stage' /\ Control' /\ Unread'
    BY <1>1, <1>3, <1>4, <1>5, Apart DEF EInv, Stage, Control, Unread, Tied
  <1> QED
    BY <1>5, <1>6, <1>7 DEF EInv

LEMMA ArriveStep ==
  ASSUME TypeOK, EInv, NEW p \in Packets, Arrive(p) PROVE EInv'
  <1>1. /\ todo = << >> /\ frames = << >> /\ endpoint # "none"
        /\ UNCHANGED <<role, scheduled, closed, handleRecv, recvCb, endpoint, shutSend,
                       shutRecv, sendCb>>
    BY DEF Arrive, UdpDelivers, UdpAccept, Deliverable, implVars
  <1>2. Tied /\ ~closed /\ Len(scheduled) = 1 /\ \E c \in Closing : scheduled = <<c>>
    BY <1>1, Apart DEF EInv, Stage, Below
  <1>3. frames' = <<RecvUpcall(handleRecv, "own")>>
    BY <1>2, HelixAssumption DEF Arrive, UdpDelivers, HandleRecv, Tied
  <1>4. todo' = <<"read", "return">> /\ todo' \in Reading
    BY <1>3 DEF Arrive, ReadCalls, Reading
  <1>5. Stage' /\ Below' /\ Control' /\ Unread'
    BY <1>1, <1>2, <1>3, <1>4 DEF EInv, Stage, Below, Control, Unread, Tied
  <1> QED
    BY <1>1, <1>5 DEF EInv

LEMMA HandleReadStep == ASSUME TypeOK, EInv, HandleRead PROVE EInv'
  <1>1. /\ todo \in Reading /\ todo # << >> /\ Tied /\ ~closed
        /\ Len(scheduled) = 1 /\ \E c \in Closing : scheduled = <<c>>
    <2>1. todo # << >> /\ Head(todo) \in {"read", "return"}
      BY DEF HandleRead, Do
    <2> QED
      BY <2>1, NextCall, Apart DEF EInv, Stage
  <1>2. PICK cb, sock : frames = <<RecvUpcall(cb, sock)>>
    BY <1>1, Apart DEF EInv, Control
  <1>3. ASSUME NEW p \in Packets \cup {NullPacket}, Recv(p), Head(todo) = "read",
               todo' = IF LeavesLoop(ret') THEN Tail(todo) ELSE todo,
               UNCHANGED <<role, scheduled>>
        PROVE  EInv'
    <2>1. todo = <<"read", "return">> /\ Tail(todo) = <<"return">>
      BY <1>1, <1>3, ReadingCalls
    <2>2. ret' = p
      BY <1>3 DEF Recv, Receives, Rs!Recv
    <2>3. UNCHANGED <<frames, closed, recvCb, handleRecv, endpoint, shutSend, shutRecv,
                      sendCb>>
      BY <1>3 DEF Recv, UdpRecv, Receives, implVars
    <2>4. todo' \in Reading
      BY <1>3, <2>1 DEF Reading
    <2>5. Unread'
      <3>1. CASE rxQueue = << >>
        BY <1>3, <3>1 DEF Recv, UdpRecv, Unread
      <3>2. CASE rxQueue # << >>
        <4>1. p # NullPacket
          BY <1>3, <3>2, UdpAssumption DEF Recv, UdpRecv, TypeOK, UdpTypeOK
        <4> QED
          BY <1>3, <2>1, <2>2, <4>1 DEF LeavesLoop, Unread
      <3> QED
        BY <3>1, <3>2
    <2>6. Stage' /\ Below' /\ Control'
      BY <1>1, <1>2, <1>3, <2>3, <2>4 DEF EInv, Stage, Below, Control, Tied
    <2> QED
      BY <1>3, <2>5, <2>6 DEF EInv
  <1>4. CASE Do("return") /\ ReturnUpcall
    <2>1. todo = <<"return">> /\ todo' = << >>
      BY <1>1, <1>4, ReadingCalls DEF Do
    <2>2. rxQueue = << >>
      BY <2>1, <1>1, <1>4, ReadingCalls DEF EInv, Unread, Do
    <2>3. frames' = << >>
      BY <1>2, <1>4 DEF ReturnUpcall, UpcallReturns
    <2>4. UNCHANGED <<role, scheduled, closed, udpVars, handleRecv>>
      BY <1>4 DEF Do, ReturnUpcall, implVars
    <2>5. Stage' /\ Below' /\ Control' /\ Unread'
      BY <1>1, <2>1, <2>2, <2>3, <2>4, Apart
      DEF EInv, Stage, Below, Control, Unread, Tied, udpVars
    <2> QED
      BY <2>4, <2>5 DEF EInv
  <1> QED
    BY <1>3, <1>4 DEF HandleRead

LEMMA CloseStep == ASSUME TypeOK, EInv, CloseSocket PROVE EInv'
  <1>1. CASE Do("close") /\ \E r \in Results : Close(r)
    <2>1. todo \in Closing /\ frames = << >> /\ scheduled = << >> /\ ~closed
      BY <1>1, NextCall DEF Do
    <2>2. todo' \in Dropping /\ scheduled' = << >> /\ role' = role
      BY <1>1, <2>1, ClosingCalls DEF Do
    <2>3. closed' /\ frames' = << >> /\ endpoint' = "none"
      BY <1>1, <2>1 DEF EInv, Below, Close, CloseBelow, UdpClose, Returns
    <2>4. rxQueue' = rxQueue
      BY <1>1 DEF Close, CloseBelow, UdpClose
    <2>5. rxQueue = << >>
      BY <2>1, ClosingCalls DEF EInv, Unread
    <2>6. Stage' /\ Below' /\ Control' /\ Unread'
      BY <2>2, <2>3, <2>4, <2>5, Apart DEF Stage, Below, Control, Unread
    <2> QED
      BY <2>2, <2>6 DEF EInv
  <1>2. CASE \/ Do("nullRecv") /\ SetRecvCallback(NoCb)
             \/ Do("nullSend") /\ SetSendCallback(NoCb)
    <2>1. todo \in Dropping /\ frames = << >> /\ scheduled = << >> /\ closed
      BY <1>2, NextCall DEF Do
    <2>2. todo' \in Dropping \cup {<< >>} /\ UNCHANGED <<scheduled, role>>
      BY <1>2, <2>1, DroppingCalls DEF Do
    <2>3. UNCHANGED <<frames, closed, endpoint, rxQueue>>
      BY <1>2 DEF SetRecvCallback, Tie, SetSendCallback, UdpSetRecvCallback,
                  UdpSetSendCallback, clientVars
    <2>4. rxQueue = << >> /\ endpoint = "none"
      BY <2>1, DroppingCalls DEF EInv, Unread, Below
    <2>5. Stage' /\ Below' /\ Control' /\ Unread'
      BY <2>1, <2>2, <2>3, <2>4, Apart DEF Stage, Below, Control, Unread
    <2> QED
      BY <2>2, <2>5 DEF EInv
  <1> QED
    BY <1>1, <1>2 DEF CloseSocket

LEMMA EInvStep == ASSUME TypeOK, EInv, [ExampleNext]_evars PROVE EInv'
  <1>1. CASE UNCHANGED evars
    BY <1>1 DEF EInv, Stage, Below, Control, Unread, Tied, evars, vars, udpVars,
                clientVars, implVars
  <1> QED
    BY <1>1, BeginsStep, SetUpStep, SendEndsStep, ArriveStep, HandleReadStep, CloseStep
    DEF ExampleNext, Runs

LEMMA EInvHolds == ExampleSpec => [](TypeOK /\ InOrder /\ EInv)
  <1>1. ExampleInit => EInv
    BY EInvInit
  <1>2. TypeOK /\ EInv /\ [ExampleNext]_evars => EInv'
    BY EInvStep
  <1> QED
    BY <1>1, <1>2, ExamplesAreSockets, TypeCorrect, ReceivedInOrder, PTL DEF ExampleSpec

(* A step of an example either begins the next event of its schedule, or    *)
(* goes on with the running one.                                           *)
LEMMA RunsMove ==
  ASSUME EInv, Runs
  PROVE  /\ role' = role
         /\ \/ /\ EventBegins /\ BetweenEvents
               /\ Len(scheduled) \in 1..2 /\ Len(scheduled') = Len(scheduled) - 1
            \/ ~BetweenEvents /\ scheduled' = scheduled
  <1>1. CASE EventBegins
    <2>1. BetweenEvents /\ scheduled # << >> /\ scheduled' = Tail(scheduled)
          /\ role' = role
      BY <1>1 DEF EventBegins
    <2>2. CASE scheduled = Schedule[role]
      <3>1. PICK o \in Opening, c \in Closing : scheduled = <<o, c>>
        BY <2>2, ScheduleCalls DEF EInv
      <3> QED
        BY <1>1, <2>1, <3>1
    <2>3. CASE \E c \in Closing : scheduled = <<c>>
      BY <1>1, <2>1, <2>3
    <2> QED
      BY <2>1, <2>2, <2>3 DEF EInv, Stage
  <1>2. CASE SetUp \/ SendEnds \/ HandleRead \/ CloseSocket
    BY <1>2 DEF SetUp, SendEnds, UdpCompletes, Sending, HandleRead, CloseSocket, Do,
                BetweenEvents
  <1> QED
    BY <1>1, <1>2 DEF Runs

(* A Send that ends is the last thing its event does. *)
LEMMA SendEndsEvent ==
  ASSUME EInv, Runs, UdpCompletes
  PROVE  Len(scheduled) = 1 /\ scheduled' = scheduled /\ ~closed /\ BetweenEvents'
  <1>1. PICK a, p, b : frames = <<SendFrame(a, p, b)>> /\ todo = << >> /\ Len(scheduled) = 1
    BY DEF EInv, Control, UdpCompletes, Sending, RecvUpcall
  <1>2. SendEnds
    BY <1>1 DEF Runs, EventBegins, BetweenEvents, SetUp, HandleRead, CloseSocket, Do
  <1>3. ~closed /\ sendCb = NoCb
    BY <1>1, Apart DEF EInv, Stage, Below
  <1>4. frames' = << >>
    BY <1>1, <1>3 DEF UdpCompletes
  <1> QED
    BY <1>1, <1>2, <1>3, <1>4 DEF SendEnds, BetweenEvents

(* The application's own steps do not make UDP accept anything. *)
LEMMA RunsAccept == ASSUME Runs PROVE accepted' = accepted
  BY Zenon
  DEF Runs, EventBegins, SetUp, SendEnds, HandleRead, CloseSocket, Do, vars, udpVars,
      Bind, UdpBind, Connect, UdpConnect, Listen, UdpListen, SetRecvCallback, Tie,
      UdpSetRecvCallback, SetSendCallback, UdpSetSendCallback, Send, UdpCompletes,
      UdpSend, Recv, UdpRecv, ReturnUpcall, Close, CloseBelow, UdpClose

LEMMA AllRead == ASSUME TypeOK, InOrder, EInv PROVE ReadsAll
  <1> SUFFICES ASSUME BetweenEvents PROVE received = accepted
    BY DEF ReadsAll
  <1>1. rxQueue = << >>
    BY Apart DEF EInv, Unread, BetweenEvents
  <1> QED
    BY <1>1 DEF InOrder, TypeOK
-----------------------------------------------------------------------------
(* Between two events of an example every datagram UDP accepted has been    *)
(* read: handleRead runs for each arrival and ends only at a null packet.  *)
THEOREM ExamplesReadAll == ExampleSpec => []ReadsAll
  <1>1. TypeOK /\ InOrder /\ EInv => ReadsAll
    BY AllRead
  <1> QED
    BY <1>1, EInvHolds, PTL

(* No example ever lets HandleRecv or HandleSend call a null handle, though *)
(* each resets its callbacks and looks at no result of Bind or Close.      *)
THEOREM ExamplesNeverNull == ExampleSpec => []NoNullUpcall
  <1>1. EInv => NoNullUpcall
    BY DEF EInv, Control, NoNullUpcall, RecvUpcall, SendFrame
  <1> QED
    BY <1>1, EInvHolds, PTL

(* Once an example has closed its socket, UDP accepts nothing more for it   *)
(* and no activation begins.                                               *)
THEOREM ExamplesStayQuiet == ExampleSpec => QuietOnceClosed
  <1>1. TypeOK /\ EInv /\ [ExampleNext]_evars =>
          [closed => UNCHANGED <<accepted, received, frames>>]_evars
    <2> SUFFICES ASSUME TypeOK, EInv, ExampleNext, closed
                 PROVE  UNCHANGED <<accepted, received, frames>>
      OBVIOUS
    <2>1. scheduled = << >> /\ todo \in Dropping \cup {<< >>} /\ endpoint = "none"
      BY DEF EInv, Stage, Below
    <2>2. CASE SetUp
      BY <2>2, NextCall DEF SetUp, Do
    <2>3. CASE HandleRead
      BY <2>3, NextCall DEF HandleRead, Do
    <2>4. CASE SendEnds
      BY <2>1, <2>4, Apart DEF EInv, Control, SendEnds, UdpCompletes, Sending
    <2>5. ASSUME NEW p \in Packets, Arrive(p) PROVE FALSE
      BY <2>1, <2>5 DEF Arrive, UdpDelivers, UdpAccept, Deliverable
    <2>6. CASE CloseSocket
      <3>1. ~\E r \in Results : Do("close") /\ Close(r)
        BY NextCall DEF Do
      <3> QED
        BY <2>6, <3>1 DEF CloseSocket, SetRecvCallback, Tie, SetSendCallback,
                          UdpSetRecvCallback, UdpSetSendCallback, clientVars
    <2>7. ~EventBegins
      BY <2>1 DEF EventBegins
    <2> QED
      BY <2>2, <2>3, <2>4, <2>5, <2>6, <2>7 DEF ExampleNext, Runs
  <1> QED
    BY <1>1, EInvHolds, PTL DEF ExampleSpec, QuietOnceClosed
=============================================================================
