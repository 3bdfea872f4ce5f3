------------------------------ MODULE EndToEnd ------------------------------
(***************************************************************************)
(* All of examples/helix-large-transfer.cc: the sender of LargeTransfer,   *)
(* the receiver of ExampleSockets, and the path between their nodes.  main *)
(* sets the receiver up, then binds the sender and schedules StartFlow,    *)
(* which writes everything in one event; the receiver is closed by an      *)
(* event of its own at 999 s, here at any time after that.                 *)
(***************************************************************************)
EXTENDS LargeTransfer, Remote

allVars == <<tvars, farVars, netVars>>

MainInit == TransferInit /\ RemoteInit("receiver")

(* The sender's steps: main once it has set the receiver up, then StartFlow. *)
SenderRuns ==
  /\ Len(rScheduled) = 1 /\ R!BetweenEvents
  /\ AppStep \/ UdpSends
  /\ Departs
  /\ UNCHANGED farVars

(* The receiver is closed by an event, which comes when StartFlow is over. *)
ReceiverRuns ==
  /\ R!Runs
  /\ Len(rScheduled) = 1 /\ R!BetweenEvents => Finished
  /\ UNCHANGED <<tvars, netVars>>

Network == Finished /\ (Loses \/ Reaches) /\ UNCHANGED tvars

MainNext == SenderRuns \/ ReceiverRuns \/ Network

(* A call goes on, a scheduled event comes, a datagram does not stay under  *)
(* way for ever.                                                           *)
MainSpec ==
  /\ MainInit /\ [][MainNext]_allVars
  /\ WF_allVars(SenderRuns) /\ WF_allVars(ReceiverRuns) /\ WF_allVars(Network)
-----------------------------------------------------------------------------
(* What the receiver reads is the pattern of data, less what did not arrive: *)
(* each datagram holds the piece of data that belongs at its place in the   *)
(* stream, nothing comes twice, out of order, cut or spliced (lines 60-61:  *)
(* "we want to detect data splicing in the output stream").                 *)
InPattern ==
  /\ Increasing(got)
  /\ \A k \in DOMAIN rReceived : rReceived[k] = ChunkAt(BytesBefore(got[k]))

(* The program ends: all is written or a Send failed, the path is empty and *)
(* the receiver is closed.                                                 *)
Quiet == <>[](Finished /\ path = << >> /\ rClosed /\ R!BetweenEvents)
=============================================================================
