---------------------------- MODULE ExampleSockets ----------------------------
(***************************************************************************)
(* The three sockets of the examples that are not the large transfer's     *)
(* sender: helix-example.cc's server and client and the receiver of        *)
(* helix-large-transfer.cc.  Each is set up in one event, reads from its   *)
(* receive callback, and is closed by an event scheduled for later.        *)
(*                                                                         *)
(* As in LargeTransfer the application's steps are HelixSocket's actions,  *)
(* with Disciplined = FALSE.  No example but the large transfer sets a     *)
(* send callback, so activations do not nest.                              *)
(***************************************************************************)
EXTENDS HelixSocket

CONSTANTS
  Other,         \* the address the socket connects to
  ReadCb         \* handleRead (HandleRead) as a callback

ASSUME ExampleAssumption == Other \in Addrs /\ ReadCb \in Cbs

VARIABLES
  role,          \* whose socket this is
  scheduled,     \* the socket's events still to come, each the calls it makes
  todo           \* calls the running event still has to make

evars == <<vars, role, scheduled, todo>>

(* createServerHelixSocket, sendPacket, and main's remoteSocket. *)
ServerCalls == <<"bind", "connect", "setRecv">>
ClientCalls == <<"bind", "connect", "setRecv", "send">>
ReceiverCalls == <<"bind", "listen", "setRecv">>

(* Mutant: the callbacks are reset and the socket is left open. *)
ClosesNothing == <<"nullRecv">>

(* closeSocket, and CloseSocket, which resets both callbacks. *)
ExampleCloses == <<"close", "nullRecv">>
TransferCloses == <<"close", "nullRecv", "nullSend">>

(* handleRead and HandleRead: the loop, and its end. *)
ReadCalls == <<"read", "return">>

(* The event that sets the socket up, and the one that closes it. *)
Schedule ==
  [server   |-> <<ServerCalls, ExampleCloses>>,
   client   |-> <<ClientCalls, ExampleCloses>>,
   receiver |-> <<ReceiverCalls, TransferCloses>>]

ExampleInit ==
  /\ Init
  /\ role \in DOMAIN Schedule
  /\ scheduled = Schedule[role]
  /\ todo = << >>

BetweenEvents == todo = << >> /\ frames = << >>

Do(call) ==
  /\ todo # << >> /\ Head(todo) = call
  /\ todo' = Tail(todo)
  /\ UNCHANGED <<role, scheduled>>
-----------------------------------------------------------------------------
EventBegins ==
  /\ BetweenEvents /\ scheduled # << >>
  /\ todo' = Head(scheduled) /\ scheduled' = Tail(scheduled)
  /\ UNCHANGED <<vars, role>>

(* The results of Bind, Connect, Listen and Close are not looked at. *)
SetUp ==
  \/ Do("bind") /\ \E r \in Results : Bind("addr", r)
  \/ Do("connect") /\ \E r \in Results : Connect(Other, r)
  \/ Do("listen") /\ \E r \in Results : Listen(r)
  \/ Do("setRecv") /\ SetRecvCallback(ReadCb)
  \/ Do("send") /\ \E p \in Packets : Send(p)

SendEnds == UdpCompletes /\ UNCHANGED <<role, todo, scheduled>>

(* Between two events a datagram may come; HandleRecv enters handleRead. *)
Arrive(p) ==
  /\ todo = << >>
  /\ UdpDelivers(p)
  /\ todo' = IF frames' = << >> THEN << >> ELSE ReadCalls
  /\ UNCHANGED <<role, scheduled>>

(* Mutant: the loop does not stop at a null packet. *)
LeavesLoopNever(p) == FALSE
LeavesLoop(p) == p = NullPacket

(* The loop of handleRead: RecvFrom until it gives a null packet. *)
HandleRead ==
  \/ /\ todo # << >> /\ Head(todo) = "read"
     /\ \E p \in Packets \cup {NullPacket} : Recv(p)
     /\ todo' = IF LeavesLoop(ret') THEN Tail(todo) ELSE todo
     /\ UNCHANGED <<role, scheduled>>
  \/ Do("return") /\ ReturnUpcall

CloseSocket ==
  \/ Do("close") /\ \E r \in Results : Close(r)
  \/ Do("nullRecv") /\ SetRecvCallback(NoCb)
  \/ Do("nullSend") /\ SetSendCallback(NoCb)

(* What the application and UDP do by themselves. *)
Runs == EventBegins \/ SetUp \/ SendEnds \/ HandleRead \/ CloseSocket
ExampleNext == Runs \/ \E p \in Packets : Arrive(p)

(* Calls that were begun end, and a scheduled event comes; whether a        *)
(* datagram ever arrives is up to the network.                             *)
ExampleSpec == ExampleInit /\ [][ExampleNext]_evars /\ WF_evars(Runs)
-----------------------------------------------------------------------------
(* Between two events the application has read every datagram UDP accepted: *)
(* none is left in a queue nobody will look at again, and none got lost on  *)
(* the way through HandleRecv, RecvFrom and the Rust interface.            *)
ReadsAll == BetweenEvents => received = accepted

(* After closeSocket neither UDP nor the application gets another datagram, *)
(* and no activation begins: the reset callbacks are never needed.         *)
QuietOnceClosed == [][closed => UNCHANGED <<accepted, received, frames>>]_evars

(* Every socket of the examples is closed in the end: whatever order up to  *)
(* MaxAccepts datagrams come in, handleRead leaves its loop each time, so  *)
(* the scheduled closing gets its turn.                                    *)
Finishes == <>[](closed /\ BetweenEvents)
=============================================================================
