--------------------------- MODULE EndToEndProofs ---------------------------
(***************************************************************************)
(* Theorems about all of helix-large-transfer.cc: sender, receiver and the *)
(* path between them, for every size of transfer, write and buffer.        *)
(***************************************************************************)
EXTENDS EndToEnd, LargeTransferProofs, RemoteProofs
LOCAL INSTANCE SequencesExt

MainInv == TypeOK /\ TInv /\ FarInv /\ PathInv

LEMMA MainStep == ASSUME MainInv, [MainNext]_allVars PROVE MainInv'
  <1>1. TypeOK' /\ TInv'
    <2>1. [TransferNext]_tvars
      BY DEF MainNext, SenderRuns, ReceiverRuns, Network, TransferNext, allVars
    <2> QED
      BY <2>1, TransferStep, TypeStep, TInvStep DEF MainInv
  <1>2. CASE SenderRuns
    <2>1. [Next]_vars
      BY <1>2, TransferStep DEF MainInv, SenderRuns, TransferNext
    <2> QED
      BY <1>1, <1>2, <2>1, DepartsStep, FarStep DEF MainInv, SenderRuns
  <1>3. CASE ReceiverRuns \/ UNCHANGED allVars
    <2>1. (R!Runs \/ UNCHANGED farVars) /\ UNCHANGED <<netVars, sendCalls>>
      BY <1>3 DEF ReceiverRuns, allVars, tvars, vars, udpVars
    <2> QED
      BY <1>1, <2>1, FarStep, FarRunsPath DEF MainInv
  <1>4. CASE Network
    <2>1. (Loses \/ Reaches) /\ UNCHANGED sendCalls
      BY <1>4 DEF Network, tvars, vars, udpVars
    <2> QED
      BY <1>1, <2>1, NetworkStep DEF MainInv
  <1> QED
    BY <1>2, <1>3, <1>4 DEF MainNext

LEMMA MainInvHolds == MainSpec => []MainInv
  <1>1. MainInit => MainInv
    <2> SUFFICES ASSUME MainInit PROVE MainInv
      OBVIOUS
    <2>1. TypeOK /\ TInv
      BY InitTypes, TInvInit DEF MainInit, TransferInit
    <2>2. FarInv /\ PathInv
      BY FarInit DEF MainInit, TransferInit
    <2> QED
      BY <2>1, <2>2 DEF MainInv
  <1>2. MainInv /\ [MainNext]_allVars => MainInv'
    BY MainStep
  <1> QED
    BY <1>1, <1>2, PTL DEF MainSpec

(* Each datagram that was sent is in exactly one place, whatever the size of *)
(* the transfer and whatever the network loses: HELIX drops, repeats and   *)
(* alters none at either end.                                              *)
THEOREM TransferAccounted == MainSpec => []Accounted
  <1>1. MainInv => Accounted
    BY AllAccounted DEF MainInv
  <1> QED
    BY <1>1, MainInvHolds, PTL

(* What the receiver reads is the pattern of data with the datagrams left    *)
(* out that did not arrive, for every size of transfer, of data, of write  *)
(* and of buffer.                                                          *)
THEOREM TransferInPattern == MainSpec => []InPattern
  <1>1. MainInv => InPattern
    <2> SUFFICES ASSUME MainInv, NEW k \in DOMAIN rReceived
                 PROVE  rReceived[k] = ChunkAt(BytesBefore(got[k]))
      BY DEF InPattern, MainInv, PathInv
    <2>1. /\ rReceived \in Seq(Packets) /\ rRxQueue \in Seq(Packets)
          /\ rAccepted = rReceived \o rRxQueue
      BY DEF MainInv, FarInv, RP!TypeOK, RP!UdpTypeOK, RP!InOrder
    <2>2. k \in DOMAIN rAccepted /\ rReceived[k] = rAccepted[k]
      BY <2>1
    <2>3. /\ k \in DOMAIN got /\ rAccepted[k] = sendCalls[got[k]].pkt
          /\ got[k] \in SentOk
      BY <2>2 DEF MainInv, PathInv, ToSet
    <2>4. got[k] \in DOMAIN sendCalls
      BY <2>3 DEF SentOk
    <2> QED
      BY <2>2, <2>3, <2>4 DEF MainInv, TInv, Pattern, Placed
  <1> QED
    BY <1>1, MainInvHolds, PTL

(* The receive buffer of the transfer's receiver never overflows, whatever  *)
(* its size and however much is sent: a datagram is only ever refused by a *)
(* socket whose Bind failed or that is closed.                             *)
THEOREM TransferNeverOverflows == MainSpec => NoOverflow
  <1>1. MainInv /\ [MainNext]_allVars =>
          [refused' # refused => ~R!Deliverable]_<<netVars, farVars>>
    <2> SUFFICES ASSUME MainInv, [MainNext]_allVars, refused' # refused
                 PROVE  ~R!Deliverable
      OBVIOUS
    <2>1. Network
      BY DEF MainNext, SenderRuns, Departs, ReceiverRuns, allVars, netVars
    <2> QED
      BY <2>1, RefusedByClosed DEF MainInv, Network
  <1> QED
    BY <1>1, MainInvHolds, PTL DEF MainSpec, NoOverflow
=============================================================================
