---------------------------- MODULE LargeTransfer ----------------------------
(***************************************************************************)
(* The sending application of examples/helix-large-transfer.cc on a HELIX  *)
(* socket: main's Bind, StartFlow, WriteUntilBufferFull and CloseSocket.   *)
(*                                                                         *)
(* It drives HelixSocket's own actions.  HelixSocket is used with          *)
(* Disciplined = FALSE: what this application may do to its socket follows *)
(* from its code here, and is not assumed.                                 *)
(***************************************************************************)
EXTENDS HelixSocket, FiniteSets

CONSTANTS
  TotalTx,       \* totalTxBytes
  WriteSize,     \* writeSize: length of data
  TxAvailable,   \* GetTxAvailable(): UDP keeps no send buffer, it is constant
  Server,        \* the address StartFlow connects to
  WriteCb        \* WriteUntilBufferFull as a callback

(* A write: a piece of data, by its offset and length. *)
Chunks == [off : 0..(WriteSize - 1), len : 1..WriteSize]

ASSUME TransferAssumption ==
  /\ TotalTx \in Nat /\ {WriteSize, TxAvailable} \subseteq Nat \ {0}
  /\ Server \in Addrs /\ WriteCb \in Cbs
  /\ Chunks \subseteq Packets

VARIABLES
  current,       \* currentTxBytes
  app            \* the application's activations, newest first, each with its
                 \* place in the code and the length it last wrote

tvars == <<vars, current, app>>

At(pc) == AppRunning /\ app # << >> /\ Head(app).pc = pc
Goto(pc) == app' = <<[Head(app) EXCEPT !.pc = pc]>> \o Tail(app)

TransferInit == Init /\ current = 0 /\ app = <<[pc |-> "bind", len |-> 0]>>
-----------------------------------------------------------------------------
(* Mutant: main binds an address, so that UDP notifies the sender. *)
LocalAddress == "addr"
LocalPort == "any"

(* main: localSocket->Bind() takes a port and no address.  Its result, like *)
(* Connect's, is not looked at.                                            *)
MainBind ==
  /\ At("bind")
  /\ \E r \in Results : Bind(LocalPort, r)
  /\ Goto("connect") /\ UNCHANGED current

StartFlow ==
  \/ /\ At("connect")
     /\ \E r \in Results : Connect(Server, r)
     /\ Goto("callback") /\ UNCHANGED current
  \/ /\ At("callback")
     /\ SetSendCallback(WriteCb)
     /\ Goto("write") /\ UNCHANGED current

Smaller(m, n) == IF m < n THEN m ELSE n
GetTxAvailable == TxAvailable
ChunkAt(n) ==
  LET off == n % WriteSize
  IN  [off |-> off,
       len |-> Smaller(GetTxAvailable, Smaller(TotalTx - n, WriteSize - off))]
NextChunk == ChunkAt(current)

(* The loop of WriteUntilBufferFull up to the call of Send ... *)
Write ==
  /\ At("write") /\ current < TotalTx /\ GetTxAvailable > 0
  /\ Send(NextChunk)
  /\ app' = <<[pc |-> "sent", len |-> NextChunk.len]>> \o Tail(app)
  /\ UNCHANGED current

(* Mutants: a failed Send is not noticed; it is tried again. *)
FailedNever == FALSE
LeaveRetry == Goto("write")

Failed == ret = "error"
Leave == Goto("end")

(* ... and from its return: a failed Send leaves the function, currentTxBytes *)
(* is only brought up to date here.                                        *)
SendReturned ==
  /\ At("sent")
  /\ IF Failed
       THEN Leave /\ UNCHANGED current
       ELSE Goto("write") /\ current' = current + Head(app).len
  /\ UNCHANGED vars

(* Mutant: done with the last write still to come. *)
AllWrittenEarly == current + GetTxAvailable >= TotalTx
AllWritten == current >= TotalTx

CloseSocket ==
  /\ UNCHANGED current
  /\ \/ /\ At("write") /\ AllWritten
        /\ \E r \in Results : Close(r)
        /\ Goto("nullRecv")
     \/ /\ At("nullRecv") /\ SetRecvCallback(NoCb) /\ Goto("nullSend")
     \/ /\ At("nullSend") /\ SetSendCallback(NoCb) /\ Goto("end")

(* WriteUntilBufferFull returns to StartFlow or to the send callback. *)
Return ==
  /\ At("end")
  /\ app' = Tail(app)
  /\ IF Len(app) = 1 THEN UNCHANGED vars ELSE ReturnUpcall
  /\ UNCHANGED current

(* UDP completes a Send.  To a unicast address it notifies the sender only  *)
(* if the socket has a local address of its own; HandleSend then enters    *)
(* WriteUntilBufferFull again, inside the Send.                            *)
UdpSends ==
  /\ UdpCompletes
  /\ IF Len(frames') = Len(frames)
       THEN endpoint = "addr" /\ app' = <<[pc |-> "write", len |-> 0]>> \o app
       ELSE UNCHANGED app
  /\ UNCHANGED current

(* A datagram for the socket comes between two events of the application. *)
Arrives ==
  /\ app = << >> \/ At("connect")
  /\ \E p \in Packets : UdpDelivers(p)
  /\ UNCHANGED <<current, app>>

AppStep == MainBind \/ StartFlow \/ Write \/ SendReturned \/ CloseSocket \/ Return
TransferNext == AppStep \/ UdpSends \/ Arrives

(* Code that has been entered runs on; StartFlow is scheduled. *)
TransferSpec ==
  /\ TransferInit /\ [][TransferNext]_tvars
  /\ WF_tvars(AppStep) /\ WF_tvars(UdpSends)
-----------------------------------------------------------------------------
(* The bytes sent before call i, each by its call and its place in it. *)
SentBytes(i) ==
  {b \in (1..(i - 1)) \X (1..WriteSize) :
     b[1] \in SentOk /\ b[2] <= sendCalls[b[1]].pkt.len}
BytesBefore(i) == Cardinality(SentBytes(i))

(* No splicing (helix-large-transfer.cc lines 60-61): the stream is the      *)
(* pattern in data over and over.  It starts at the beginning of data, and *)
(* each write starts where the one before it, which was sent, ended.       *)
EndOf(c) == (c.pkt.off + c.pkt.len) % WriteSize
NoSplice ==
  \A i \in 1..Len(sendCalls) :
    IF i = 1 THEN sendCalls[i].pkt.off = 0
    ELSE sendCalls[i - 1].ret = "ok" /\ sendCalls[i].pkt.off = EndOf(sendCalls[i - 1])

(* currentTxBytes is the number of bytes sent (line 57) whenever the        *)
(* function decides what to write next or whether it is done.              *)
CountExact == At("write") => current = BytesBefore(Len(sendCalls) + 1)

(* The application ends with everything sent and the socket closed and     *)
(* quiet, or with a Send (and everything after it) that failed.            *)
Finished == app = << >>
EndsWell ==
  Finished => \/ closed /\ current = TotalTx /\ ~Deliverable
              \/ ~closed /\ sendCalls[Len(sendCalls)].ret = "error"

(* StartFlow always comes to an end: the loop and its callbacks terminate. *)
Terminates == <>Finished

(* "we will be called again when new tx space becomes available" (line      *)
(* 231): a transfer that stopped at a failed Send does not stay stopped.   *)
CalledAgain == (Finished /\ current < TotalTx) ~> ~Finished
=============================================================================
