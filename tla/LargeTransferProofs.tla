------------------------- MODULE LargeTransferProofs -------------------------
(***************************************************************************)
(* Theorems about the sender of helix-large-transfer.cc, for every size of *)
(* transfer, of data and of write.                                         *)
(***************************************************************************)
EXTENDS LargeTransfer, HelixSocketProofs, FiniteSetTheorems

LEMMA DivMod ==
  ASSUME NEW W \in Nat \ {0}, NEW n \in Nat
  PROVE  n \div W \in Nat /\ n % W \in 0..(W - 1) /\ n = W * (n \div W) + (n % W)
  OBVIOUS

LEMMA ModUnique ==
  ASSUME NEW W \in Nat \ {0}, NEW q \in Nat, NEW r \in Nat, r < W,
         NEW n, n = W * q + r
  PROVE  n % W = r
  <1>1. (W * q + r) % W = r
    OBVIOUS
  <1> QED
    BY <1>1

(* The place in data after k more bytes, when they do not go past its end. *)
LEMMA Advance ==
  ASSUME NEW W \in Nat \ {0}, NEW n \in Nat, NEW k \in Nat, (n % W) + k <= W
  PROVE  ((n % W) + k) % W = (n + k) % W
  <1> DEFINE q == n \div W
             r == n % W
  <1>1. q \in Nat /\ r \in Nat /\ n = W * q + r /\ r < W
    BY DivMod
  <1>2. r + k < W \/ r + k = W
    BY <1>1
  <1> HIDE DEF q, r
  <1>3. CASE r + k < W
    <2>1. n + k = W * q + (r + k) /\ r + k = W * 0 + (r + k) /\ r + k \in Nat
      BY <1>1
    <2>2. (n + k) % W = r + k
      BY <1>1, <1>3, <2>1, ModUnique
    <2>3. (r + k) % W = r + k
      BY <1>1, <1>3, <2>1, ModUnique
    <2> QED
      BY <2>2, <2>3 DEF r
  <1>4. CASE r + k = W
    <2>1. n + k = W * (q + 1) + 0 /\ q + 1 \in Nat /\ r + k = W * 1 + 0
      BY <1>1, <1>4
    <2>2. (n + k) % W = 0
      BY <2>1, ModUnique
    <2>3. (r + k) % W = 0
      BY <2>1, ModUnique
    <2> QED
      BY <2>2, <2>3 DEF r
  <1> QED
    BY <1>2, <1>3, <1>4

(* What WriteUntilBufferFull is about to write is a piece of data, starts   *)
(* where the bytes sent so far end, and stays within data and the transfer. *)
LEMMA ChunkFits ==
  ASSUME NEW n \in Nat, n < TotalTx
  PROVE  /\ ChunkAt(n) \in Chunks /\ ChunkAt(n).off = n % WriteSize
         /\ ChunkAt(n).len \in Nat
         /\ n + ChunkAt(n).len <= TotalTx
         /\ EndOf([pkt |-> ChunkAt(n)]) = (n + ChunkAt(n).len) % WriteSize
  <1>1. WriteSize \in Nat \ {0} /\ TotalTx \in Nat /\ TxAvailable \in Nat \ {0}
    BY TransferAssumption
  <1>2. n % WriteSize \in 0..(WriteSize - 1)
    BY <1>1, DivMod
  <1> DEFINE off == n % WriteSize
             len == Smaller(TxAvailable, Smaller(TotalTx - n, WriteSize - off))
  <1>3. ChunkAt(n) = [off |-> off, len |-> len]
    BY DEF ChunkAt, GetTxAvailable
  <1>4. len \in 1..WriteSize /\ off + len <= WriteSize /\ n + len <= TotalTx
    BY <1>1, <1>2 DEF Smaller
  <1>5. off = n % WriteSize
    OBVIOUS
  <1> HIDE DEF off, len
  <1>6. (off + len) % WriteSize = (n + len) % WriteSize
    <2>1. len \in Nat /\ (n % WriteSize) + len <= WriteSize
      BY <1>1, <1>4, <1>5
    <2> QED
      BY <1>1, <1>5, <2>1, Advance
  <1> QED
    BY <1>1, <1>2, <1>3, <1>4, <1>5, <1>6 DEF Chunks, EndOf
-----------------------------------------------------------------------------
(* Counting the bytes of one more Send. *)
LEMMA OneMoreRow ==
  ASSUME NEW S, IsFiniteSet(S), NEW i, NEW n \in Nat, \A b \in S : b[1] # i
  PROVE  /\ IsFiniteSet(S \cup ({i} \X (1..n)))
         /\ Cardinality(S \cup ({i} \X (1..n))) = Cardinality(S) + n
  <1> DEFINE T == {i} \X (1..n)
  <1>1. IsFiniteSet(T) /\ Cardinality(T) = n
    <2>1. IsFiniteSet({i}) /\ Cardinality({i}) = 1
      BY FS_Singleton
    <2>2. IsFiniteSet(1..n) /\ Cardinality(1..n) = n
      BY FS_Interval
    <2>3. IsFiniteSet(T) /\ Cardinality(T) = Cardinality({i}) * Cardinality(1..n)
      BY <2>1, <2>2, FS_Product, Zenon
    <2>4. 1 * n = n
      OBVIOUS
    <2> QED
      BY <2>1, <2>2, <2>3, <2>4, Zenon
  <1>2. S \cap T = {}
    OBVIOUS
  <1>3. Cardinality(S \cap T) = 0
    BY <1>2, FS_EmptySet
  <1>4. Cardinality(S) \in Nat
    BY FS_CardinalityType
  <1> HIDE DEF T
  <1>5. /\ IsFiniteSet(S \cup T)
        /\ Cardinality(S \cup T) = Cardinality(S) + Cardinality(T) - Cardinality(S \cap T)
    BY <1>1, FS_Union
  <1> QED
    BY <1>1, <1>3, <1>4, <1>5 DEF T

LEMMA SentFinite ==
  ASSUME NEW i \in Nat
  PROVE  /\ IsFiniteSet(SentBytes(i)) /\ BytesBefore(i) \in Nat
         /\ BytesBefore(i) = Cardinality(SentBytes(i))
  <1> DEFINE All == (1..(i - 1)) \X (1..WriteSize)
  <1>1. IsFiniteSet(1..(i - 1)) /\ IsFiniteSet(1..WriteSize)
    BY FS_Interval, TransferAssumption
  <1>2. IsFiniteSet(All)
    BY <1>1, FS_Product
  <1>3. SentBytes(i) \subseteq All
    BY DEF SentBytes
  <1>4. IsFiniteSet(SentBytes(i))
    BY <1>2, <1>3, FS_Subset
  <1>5. BytesBefore(i) = Cardinality(SentBytes(i))
    BY DEF BytesBefore, SentBytes
  <1> QED
    BY <1>4, <1>5, FS_CardinalityType

(* A Send that succeeded counts with its length ... *)
LEMMA BytesGrow ==
  ASSUME NEW i \in SentOk, sendCalls \in Seq(SendCall),
         sendCalls[i].pkt.len \in 1..WriteSize
  PROVE  BytesBefore(i + 1) = BytesBefore(i) + sendCalls[i].pkt.len
  <1> DEFINE n == sendCalls[i].pkt.len
  <1>1. i \in DOMAIN sendCalls /\ i \in Nat \ {0} /\ n \in Nat /\ WriteSize \in Nat
    BY TransferAssumption DEF SentOk
  <1>2. SentBytes(i + 1) = SentBytes(i) \cup ({i} \X (1..n))
    <2>1. ASSUME NEW b \in SentBytes(i + 1) PROVE b \in SentBytes(i) \cup ({i} \X (1..n))
      BY <1>1 DEF SentBytes
    <2>2. SentBytes(i) \subseteq SentBytes(i + 1)
      BY <1>1 DEF SentBytes
    <2>3. ASSUME NEW b \in {i} \X (1..n) PROVE b \in SentBytes(i + 1)
      BY <1>1 DEF SentBytes
    <2> QED
      BY <2>1, <2>2, <2>3
  <1>3. \A b \in SentBytes(i) : b[1] # i
    BY <1>1 DEF SentBytes
  <1>4. IsFiniteSet(SentBytes(i)) /\ BytesBefore(i) = Cardinality(SentBytes(i))
        /\ BytesBefore(i + 1) = Cardinality(SentBytes(i + 1))
    BY <1>1, SentFinite
  <1> HIDE DEF n
  <1>5. Cardinality(SentBytes(i) \cup ({i} \X (1..n))) = Cardinality(SentBytes(i)) + n
    BY <1>1, <1>3, <1>4, OneMoreRow
  <1> QED
    BY <1>2, <1>4, <1>5 DEF n

(* ... and what was sent before a call does not change any more. *)
LEMMA BytesStay ==
  ASSUME NEW i \in Nat, \A j \in 1..(i - 1) :
           (j \in SentOk <=> j \in SentOk') /\ sendCalls'[j] = sendCalls[j]
  PROVE  BytesBefore(i)' = BytesBefore(i)
  <1>1. SentBytes(i)' = SentBytes(i)
    <2>1. SentBytes(i)' = {b \in (1..(i - 1)) \X (1..WriteSize) :
                        b[1] \in SentOk' /\ b[2] <= sendCalls'[b[1]].pkt.len}
      BY DEF SentBytes
    <2> QED
      BY <2>1 DEF SentBytes
  <1> QED
    BY <1>1 DEF BytesBefore
-----------------------------------------------------------------------------
(* The strengthening that the invariants of the runs need. *)
Places ==
  {"bind", "connect", "callback", "write", "sent", "nullRecv", "nullSend", "end"}

(* The program counter of the one activation there ever is. *)
Activation ==
  app = << >> \/ \E pc \in Places, n \in Nat : app = <<[pc |-> pc, len |-> n]>>
Pc == IF app = << >> THEN "done" ELSE app[1].pc

(* UDP never runs a callback of the transfer: it has no local address, and  *)
(* datagrams for it find no callback while it is open.                     *)
Alone ==
  /\ frames # << >> => /\ Pc = "sent"
                       /\ \E p, b : frames = <<SendFrame(NoAddr, p, b)>>
  /\ endpoint # "addr"

Life ==
  IF closed
    THEN endpoint = "none" /\ Pc \in {"nullRecv", "nullSend", "end", "done"}
         /\ current = TotalTx
    ELSE ~shutSend /\ ~shutRecv /\ recvCb = NoCb /\ Pc \notin {"nullRecv", "nullSend"}

Calls == Len(sendCalls)
Total == BytesBefore(Calls + 1)
BeforeLast == BytesBefore(Calls)

(* Each write is the piece of data that belongs after the bytes sent before. *)
Placed ==
  \A i \in DOMAIN sendCalls :
    BytesBefore(i) < TotalTx /\ sendCalls[i].pkt = ChunkAt(BytesBefore(i))
Pattern == NoSplice /\ Placed

(* The stream so far was sent, current counts its bytes, and it ends where   *)
(* current stands in data.                                                  *)
UpToDate ==
  /\ Calls > 0 => sendCalls[Calls].ret = "ok"
  /\ current = Total
  /\ current % WriteSize = IF Calls = 0 THEN 0 ELSE EndOf(sendCalls[Calls])

Stream ==
  /\ Pc \in {"bind", "connect", "callback", "write"} => UpToDate
  /\ Pc = "sent" =>
       /\ current < TotalTx /\ app[1].len = ChunkAt(current).len
       /\ IF frames # << >>
            THEN UpToDate /\ frames[1].pkt = ChunkAt(current)
            ELSE Calls > 0 /\ sendCalls[Calls].pkt = ChunkAt(current)
                           /\ sendCalls[Calls].ret = ret /\ BeforeLast = current
  /\ Pc \in {"end", "done"} /\ ~closed =>
       Calls > 0 /\ sendCalls[Calls].ret = "error"

TInv ==
  /\ current \in 0..TotalTx
  /\ Activation /\ Alone /\ Life /\ Stream /\ Pattern

(* Every step of the transfer is one of the socket, or leaves it alone. *)
LEMMA TransferStep == ASSUME TInv, [TransferNext]_tvars PROVE [Next]_vars
  <1>1. CASE MainBind
    BY <1>1 DEF MainBind, LocalPort, Next
  <1>2. CASE StartFlow
    BY <1>2, TransferAssumption DEF StartFlow, Next
  <1>3. CASE Write
    <2>1. current \in Nat /\ current < TotalTx
      BY <1>3, TransferAssumption DEF TInv, Write
    <2>2. NextChunk \in Packets
      BY <2>1, ChunkFits, TransferAssumption DEF NextChunk
    <2> QED
      BY <1>3, <2>2 DEF Write, Next
  <1>4. CASE SendReturned \/ UNCHANGED tvars
    BY <1>4 DEF SendReturned, tvars
  <1>5. CASE CloseSocket
    BY <1>5 DEF CloseSocket, Next
  <1>6. CASE Return
    BY <1>6 DEF Return, Next
  <1>7. CASE UdpSends
    BY <1>7 DEF UdpSends, Next
  <1>8. CASE Arrives
    BY <1>8 DEF Arrives, Next
  <1> QED
    BY <1>1, <1>2, <1>3, <1>4, <1>5, <1>6, <1>7, <1>8 DEF TransferNext, AppStep
-----------------------------------------------------------------------------
(* Code of the application runs at pc: nothing else does. *)
LEMMA Here ==
  ASSUME TInv, NEW pc, At(pc)
  PROVE  /\ app # << >> /\ Pc = pc /\ frames = << >>
         /\ Head(app) = app[1] /\ app[1].len \in Nat /\ Tail(app) = << >>
  <1>1. app # << >> /\ \E q \in Places, n \in Nat : app = <<[pc |-> q, len |-> n]>>
    BY DEF TInv, Activation, At
  <1>2. frames = << >>
    BY DEF TInv, Alone, At, AppRunning, SendFrame
  <1> QED
    BY <1>1, <1>2 DEF At, Pc

LEMMA There ==
  ASSUME TInv, NEW old, At(old), NEW pc \in Places, Goto(pc)
  PROVE  Activation' /\ Pc' = pc /\ app'[1].len = app[1].len
  <1>1. PICK q \in Places, n \in Nat : app = <<[pc |-> q, len |-> n]>>
    BY DEF TInv, Activation, At
  <1>2. app' = <<[pc |-> pc, len |-> n]>>
    BY <1>1 DEF Goto
  <1> QED
    BY <1>1, <1>2 DEF Activation, Pc

LEMMA SameCalls ==
  ASSUME UNCHANGED sendCalls
  PROVE  Calls' = Calls /\ Total' = Total /\ BeforeLast' = BeforeLast
         /\ (Pattern => Pattern')
  <1>1. Calls' = Calls /\ SentOk' = SentOk
    BY DEF Calls, SentOk
  <1>2. \A i : SentBytes(i)' = SentBytes(i)
    BY <1>1 DEF SentBytes
  <1>3. \A i : BytesBefore(i)' = BytesBefore(i)
    BY <1>2 DEF BytesBefore
  <1>4. Total' = Total /\ BeforeLast' = BeforeLast
    BY <1>1, <1>3 DEF Total, BeforeLast
  <1>5. NoSplice => NoSplice'
    BY DEF NoSplice, EndOf
  <1>6. Placed => Placed'
    BY <1>3 DEF Placed, ChunkAt, GetTxAvailable
  <1> QED
    BY <1>1, <1>4, <1>5, <1>6 DEF Pattern

(* What a step that calls UDP for anything but a Send has to show. *)
LEMMA SameStream ==
  ASSUME TInv, NEW old, At(old), NEW pc \in Places, Goto(pc),
         UNCHANGED <<sendCalls, current, frames>>,
         \/ {old, pc} \subseteq {"bind", "connect", "callback", "write"}
         \/ closed' /\ pc # "sent" /\ pc \notin {"bind", "connect", "callback", "write"}
  PROVE  Stream' /\ Pattern'
  <1>1. Pc = old /\ Pc' = pc
    BY Here, There
  <1>2. Pattern' /\ Calls' = Calls /\ Total' = Total
    BY SameCalls DEF TInv
  <1>3. CASE closed' /\ pc # "sent" /\ pc \notin {"bind", "connect", "callback", "write"}
    <2>1. /\ Pc' \notin {"bind", "connect", "callback", "write"} /\ Pc' # "sent"
          /\ closed'
      BY <1>1, <1>3
    <2> QED
      BY <1>2, <2>1 DEF Stream
  <1>4. CASE {old, pc} \subseteq {"bind", "connect", "callback", "write"}
    <2>1. UpToDate
      BY <1>1, <1>4 DEF TInv, Stream
    <2>2. UpToDate'
      BY <1>2, <2>1 DEF UpToDate, EndOf
    <2>3. Pc' # "sent" /\ Pc' \notin {"end", "done"}
      BY <1>1, <1>4
    <2> QED
      BY <1>2, <2>2, <2>3 DEF Stream
  <1> QED
    BY <1>2, <1>3, <1>4

LEMMA TInvInit == ASSUME TransferInit PROVE TInv
  <1>1. /\ app = <<[pc |-> "bind", len |-> 0]>> /\ current = 0 /\ Pc = "bind"
        /\ frames = << >> /\ endpoint = "none" /\ sendCalls = << >> /\ recvCb = NoCb
        /\ ~shutSend /\ ~shutRecv /\ ~closed
    BY DEF TransferInit, Init, UdpInit, ClientInit, Pc
  <1>2. 0 % WriteSize = 0 /\ 0 \in 0..TotalTx
    BY TransferAssumption
  <1>3. Activation
    BY <1>1 DEF Activation, Places
  <1>4. Total = 0
    <2>1. SentBytes(1) = {} /\ Calls + 1 = 1
      BY <1>1 DEF SentBytes, Calls
    <2> QED
      BY <2>1, FS_EmptySet DEF Total, BytesBefore
  <1> QED
    BY <1>1, <1>2, <1>3, <1>4 DEF TInv, Alone, Life, Stream, UpToDate, Calls, Pattern,
                                  NoSplice, Placed

LEMMA MainBindStep == ASSUME TInv, MainBind PROVE TInv'
  <1>1. PICK r \in Results : Bind("any", r)
    BY DEF MainBind, LocalPort
  <1>2. Pc = "bind" /\ frames = << >>
    BY Here DEF MainBind
  <1>3. Activation' /\ Pc' = "connect"
    BY There DEF MainBind, Places
  <1>4. UNCHANGED <<sendCalls, current, frames, recvCb, closed>>
    BY <1>1 DEF MainBind, Bind, UdpBind, Returns, handles
  <1>5. Stream' /\ Pattern'
    BY <1>4, SameStream DEF MainBind, Places
  <1>6. ~closed
    BY <1>2 DEF TInv, Life
  <1>7. Alone' /\ Life'
    BY <1>1, <1>2, <1>3, <1>4, <1>6 DEF TInv, Alone, Life, Bind, UdpBind, UdpAllocate
  <1> QED
    BY <1>3, <1>4, <1>5, <1>7 DEF TInv

LEMMA StartFlowStep == ASSUME TInv, StartFlow PROVE TInv'
  <1>1. PICK old \in {"connect", "callback"}, pc \in {"callback", "write"} :
          At(old) /\ Goto(pc)
    BY DEF StartFlow
  <1>2. Pc = old /\ frames = << >>
    BY <1>1, Here
  <1>3. Activation' /\ Pc' = pc
    BY <1>1, There DEF Places
  <1>4. UNCHANGED <<sendCalls, current, frames, recvCb, closed, endpoint, shutSend,
                    shutRecv>>
    BY DEF StartFlow, Connect, UdpConnect, Returns, handles, SetSendCallback,
           UdpSetSendCallback, clientVars
  <1>5. Stream' /\ Pattern'
    BY <1>1, <1>4, SameStream DEF Places
  <1>6. Alone' /\ Life'
    BY <1>2, <1>3, <1>4 DEF TInv, Alone, Life
  <1> QED
    BY <1>3, <1>4, <1>5, <1>6 DEF TInv

LEMMA WriteStep == ASSUME TInv, Write PROVE TInv'
  <1>1. Pc = "write" /\ frames = << >> /\ Tail(app) = << >>
    BY Here DEF Write
  <1>2. current \in Nat /\ current < TotalTx
    BY TransferAssumption DEF TInv, Write
  <1>3. NextChunk \in Packets /\ NextChunk.len \in Nat
    BY <1>2, ChunkFits, TransferAssumption DEF NextChunk
  <1>4. app' = <<[pc |-> "sent", len |-> NextChunk.len]>>
    <2>1. app' = <<[pc |-> "sent", len |-> NextChunk.len]>> \o << >>
      BY <1>1 DEF Write
    <2> QED
      BY <2>1
  <1>5. Pc' = "sent" /\ Activation' /\ app'[1].len = NextChunk.len
    BY <1>3, <1>4 DEF Pc, Activation, Places
  <1>6. UNCHANGED <<udpVars, closed, current>>
        /\ frames' = <<SendFrame(NoAddr, NextChunk, peer)>>
    BY <1>1 DEF Write, Send, Enter
  <1>7. Alone' /\ Life'
    BY <1>1, <1>3, <1>5, <1>6 DEF TInv, Alone, Life, udpVars
  <1>8. Pattern' /\ Calls' = Calls /\ Total' = Total
    BY <1>6, SameCalls DEF TInv, udpVars
  <1>9. Stream'
    <2>1. UpToDate'
      BY <1>1, <1>6, <1>8 DEF TInv, Stream, UpToDate, EndOf, udpVars
    <2>2. frames' # << >> /\ frames'[1].pkt = ChunkAt(current)'
      BY <1>6 DEF SendFrame, NextChunk, ChunkAt, GetTxAvailable
    <2>3. app'[1].len = ChunkAt(current)'.len /\ current' < TotalTx
      BY <1>2, <1>5, <1>6 DEF NextChunk
    <2> QED
      BY <1>5, <2>1, <2>2, <2>3 DEF Stream
  <1> QED
    BY <1>5, <1>6, <1>7, <1>8, <1>9 DEF TInv

LEMMA UdpSendsStep == ASSUME TypeOK, TInv, UdpSends PROVE TInv'
  <1>1. frames # << >> /\ Pc = "sent" /\ endpoint # "addr"
    BY DEF TInv, Alone, UdpSends, UdpCompletes, Sending
  <1>2. PICK p, b : frames = <<SendFrame(NoAddr, p, b)>>
    BY <1>1 DEF TInv, Alone
  <1>3. p = ChunkAt(current) /\ UpToDate /\ ~closed
    BY <1>1, <1>2 DEF TInv, Stream, Life, SendFrame
  <1>4. PICK r \in Results :
          /\ UdpSend(p, b, r)
          /\ frames' = << >> /\ ret' = r
    <2>1. Len(frames) = 1 /\ Tail(frames) = << >>
      BY <1>2
    <2>2. Len(frames') # Len(frames)
      BY <1>1 DEF UdpSends
    <2>3. Len(<<HandleSend>> \o Tail(frames)) = 1
      BY <2>1
    <2> QED
      BY <1>2, <2>1, <2>2, <2>3 DEF UdpSends, UdpCompletes, SendFrame
  <1>5. UNCHANGED <<app, current, closed, recvCb>>
    BY <1>1, <1>4 DEF UdpSends, UdpCompletes, UdpSend, implVars
  <1>6. Activation' /\ Pc' = "sent"
    BY <1>1, <1>5 DEF TInv, Activation, Pc
  <1>7. Alone' /\ Life'
    BY <1>1, <1>3, <1>4, <1>5, <1>6 DEF TInv, Alone, Life, UdpSend, UdpAllocate
  <1>8. /\ sendCalls' = Append(sendCalls, [pkt |-> p, dst |-> b, ret |-> r])
        /\ sendCalls \in Seq(SendCall)
    BY <1>4 DEF UdpSend, TypeOK, UdpTypeOK
  <1>9. /\ Calls \in Nat /\ Calls' = Calls + 1
        /\ sendCalls'[Calls + 1] = [pkt |-> p, dst |-> b, ret |-> r]
        /\ \A i \in 1..Calls : sendCalls'[i] = sendCalls[i]
    BY <1>8 DEF Calls
  <1>10. p.off = current % WriteSize
    <2>1. current \in Nat /\ current < TotalTx
      BY <1>1, TransferAssumption DEF TInv, Stream
    <2> QED
      BY <1>3, <2>1, ChunkFits
  <1>11. NoSplice'
    <2> SUFFICES ASSUME NEW i \in 1..(Calls + 1)
                 PROVE  IF i = 1 THEN sendCalls'[i].pkt.off = 0
                        ELSE /\ sendCalls'[i - 1].ret = "ok"
                             /\ sendCalls'[i].pkt.off = EndOf(sendCalls'[i - 1])
      BY <1>9 DEF NoSplice, Calls, EndOf
    <2>1. CASE i = Calls + 1
      BY <1>3, <1>9, <1>10, <2>1 DEF UpToDate
    <2>2. CASE i \in 1..Calls
      BY <1>9, <2>2 DEF TInv, Pattern, NoSplice, Calls
    <2> QED
      BY <1>9, <2>1, <2>2
  <1>13. /\ BeforeLast' = Total
         /\ \A i \in 1..Calls : BytesBefore(i)' = BytesBefore(i)
    <2>1. ASSUME NEW i \in Nat, i <= Calls + 1 PROVE BytesBefore(i)' = BytesBefore(i)
      <3>1. \A j \in 1..(i - 1) :
              (j \in SentOk <=> j \in SentOk') /\ sendCalls'[j] = sendCalls[j]
        BY <1>8, <1>9, <2>1 DEF SentOk, Calls
      <3> QED
        BY <3>1, BytesStay
    <2> QED
      BY <1>9, <2>1 DEF BeforeLast, Total
  <1>14. Placed'
    <2> SUFFICES ASSUME NEW i \in 1..(Calls + 1)
                 PROVE  /\ BytesBefore(i)' < TotalTx
                        /\ sendCalls'[i].pkt = ChunkAt(BytesBefore(i)')
      BY <1>9 DEF Placed, Calls, ChunkAt, GetTxAvailable
    <2>1. CASE i = Calls + 1
      <3>1. current < TotalTx /\ Total = current
        BY <1>1, <1>3 DEF TInv, Stream, UpToDate
      <3>2. BytesBefore(i)' = Total
        BY <1>9, <1>13, <2>1 DEF BeforeLast
      <3> QED
        BY <1>3, <1>9, <2>1, <3>1, <3>2
    <2>2. CASE i \in 1..Calls
      BY <1>9, <1>13, <2>2 DEF TInv, Pattern, Placed, Calls
    <2> QED
      BY <1>9, <2>1, <2>2
  <1>12. Stream'
    <2>1. current < TotalTx /\ app[1].len = ChunkAt(current).len
      BY <1>1 DEF TInv, Stream
    <2>2. ChunkAt(current)' = ChunkAt(current)
      BY <1>5 DEF ChunkAt, GetTxAvailable
    <2>3. Calls' > 0 /\ sendCalls'[Calls'].pkt = p /\ sendCalls'[Calls'].ret = ret'
      BY <1>4, <1>9
    <2> QED
      BY <1>3, <1>4, <1>5, <1>6, <1>13, <2>1, <2>2, <2>3 DEF Stream, UpToDate
  <1> QED
    BY <1>5, <1>6, <1>7, <1>11, <1>12, <1>14 DEF TInv, Pattern

LEMMA SendReturnedStep == ASSUME TypeOK, TInv, SendReturned PROVE TInv'
  <1>1. Pc = "sent" /\ frames = << >> /\ Head(app) = app[1] /\ UNCHANGED vars
    BY Here DEF SendReturned
  <1>2. /\ current < TotalTx /\ current \in 0..TotalTx /\ current \in Nat
        /\ app[1].len = ChunkAt(current).len
        /\ Calls > 0 /\ sendCalls[Calls].pkt = ChunkAt(current)
        /\ sendCalls[Calls].ret = ret /\ BeforeLast = current /\ ~closed
    BY <1>1, TransferAssumption DEF TInv, Stream, Life
  <1>3. UNCHANGED <<sendCalls, frames, ret, closed, endpoint, recvCb, shutSend, shutRecv>>
    BY <1>1 DEF vars, udpVars, clientVars, implVars
  <1>4. Pattern' /\ Calls' = Calls /\ Total' = Total
    BY <1>3, SameCalls DEF TInv
  <1>5. CASE ret = "error"
    <2>1. Goto("end") /\ current' = current
      BY <1>5 DEF SendReturned, Failed, Leave
    <2>2. Activation' /\ Pc' = "end"
      BY <2>1, There DEF SendReturned, Places
    <2>3. Alone' /\ Life' /\ Stream'
      BY <1>1, <1>2, <1>3, <1>4, <1>5, <2>2 DEF TInv, Alone, Life, Stream
    <2> QED
      BY <1>2, <1>4, <2>1, <2>2, <2>3 DEF TInv
  <1>6. CASE ret # "error"
    <2>1. Goto("write") /\ current' = current + app[1].len
      BY <1>1, <1>6 DEF SendReturned, Failed
    <2>2. Activation' /\ Pc' = "write"
      BY <2>1, There DEF SendReturned, Places
    <2>3. /\ current' \in 0..TotalTx
          /\ EndOf([pkt |-> ChunkAt(current)]) = current' % WriteSize
      BY <1>2, <2>1, ChunkFits, TransferAssumption
    <2>4. sendCalls[Calls].ret = "ok"
      <3>1. sendCalls \in Seq(SendCall) /\ Calls \in 1..Len(sendCalls)
        BY <1>2 DEF TypeOK, UdpTypeOK, Calls
      <3>2. sendCalls[Calls] \in SendCall
        BY <3>1
      <3>3. sendCalls[Calls].ret # "error"
        BY <1>2, <1>6
      <3> QED
        BY <3>2, <3>3 DEF SendCall, Results
    <2>5. UpToDate'
      <3>1. Calls \in SentOk /\ sendCalls \in Seq(SendCall)
        BY <1>2, <2>4 DEF SentOk, Calls, TypeOK, UdpTypeOK
      <3>2. Total = BeforeLast + ChunkAt(current).len
        BY <1>2, <3>1, ChunkFits, BytesGrow DEF Total, BeforeLast, Chunks
      <3> QED
        BY <1>2, <1>3, <1>4, <2>1, <2>3, <2>4, <3>2 DEF UpToDate, Stream, TInv, EndOf
    <2>6. Alone' /\ Life' /\ Stream'
      BY <1>1, <1>2, <1>3, <2>2, <2>5 DEF TInv, Alone, Life, Stream
    <2> QED
      BY <1>4, <2>2, <2>3, <2>6 DEF TInv
  <1> QED
    BY <1>5, <1>6

LEMMA CloseSocketStep == ASSUME TInv, CloseSocket PROVE TInv'
  <1>1. PICK old \in {"write", "nullRecv", "nullSend"},
             pc \in {"nullRecv", "nullSend", "end"} : At(old) /\ Goto(pc)
    BY DEF CloseSocket
  <1>2. Pc = old /\ frames = << >>
    BY <1>1, Here
  <1>3. Activation' /\ Pc' = pc
    BY <1>1, There DEF Places
  <1>4. UNCHANGED <<sendCalls, current, frames>>
    BY DEF CloseSocket, Close, CloseBelow, UdpClose, Returns, SetRecvCallback, Tie,
           UdpSetRecvCallback, SetSendCallback, UdpSetSendCallback, clientVars
  <1>5. closed' /\ endpoint' = "none" /\ current = TotalTx
    <2>1. CASE old = "write"
      <3>1. At("write") /\ AllWritten /\ \E r \in Results : Close(r)
        BY <1>2, <2>1, Here DEF CloseSocket
      <3>2. ~closed /\ ~shutSend /\ ~shutRecv
        BY <1>2, <2>1 DEF TInv, Life
      <3>3. current = TotalTx
        BY <3>1, TransferAssumption DEF TInv, AllWritten
      <3> QED
        BY <3>1, <3>2, <3>3 DEF Close, CloseBelow, UdpClose
    <2>2. CASE old # "write"
      <3>1. SetRecvCallback(NoCb) \/ SetSendCallback(NoCb)
        BY <1>2, <2>2, Here DEF CloseSocket
      <3>2. closed /\ endpoint = "none" /\ current = TotalTx
        BY <1>1, <1>2, <2>2 DEF TInv, Life
      <3> QED
        BY <3>1, <3>2 DEF SetRecvCallback, Tie, UdpSetRecvCallback, SetSendCallback,
                          UdpSetSendCallback
    <2> QED
      BY <2>1, <2>2
  <1>6. Stream' /\ Pattern'
    BY <1>1, <1>4, <1>5, SameStream DEF Places
  <1>7. Alone' /\ Life'
    BY <1>2, <1>3, <1>4, <1>5 DEF Alone, Life
  <1> QED
    BY <1>3, <1>4, <1>6, <1>7 DEF TInv

LEMMA ReturnStep == ASSUME TInv, Return PROVE TInv'
  <1>1. Pc = "end" /\ frames = << >> /\ app' = << >> /\ current' = current
    BY Here DEF Return
  <1>2. Len(app) = 1
    BY DEF TInv, Activation, Return, At
  <1>3. UNCHANGED <<sendCalls, frames, closed, endpoint, recvCb, shutSend, shutRecv>>
    BY <1>2 DEF Return, vars, udpVars, clientVars, implVars
  <1>4. Pc' = "done" /\ Activation'
    BY <1>1 DEF Pc, Activation
  <1>5. Pattern' /\ Calls' = Calls
    BY <1>3, SameCalls DEF TInv
  <1>6. Alone' /\ Life' /\ Stream'
    BY <1>1, <1>3, <1>4 DEF TInv, Alone, Life, Stream, Calls
  <1> QED
    BY <1>1, <1>4, <1>5, <1>6 DEF TInv

LEMMA ArrivesStep == ASSUME TInv, Arrives PROVE TInv'
  <1>1. /\ frames = << >> /\ Deliverable
        /\ frames' = IF recvCb = NoCb THEN << >> ELSE <<HandleRecv>>
        /\ UNCHANGED <<app, current, sendCalls, closed, endpoint, recvCb, shutSend,
                       shutRecv>>
    BY DEF Arrives, UdpDelivers, UdpAccept, implVars
  <1>2. ~closed /\ recvCb = NoCb /\ frames' = << >>
    BY <1>1 DEF TInv, Life, Deliverable
  <1>3. Pc' = Pc /\ Pc # "sent" /\ Activation'
    BY <1>1 DEF Arrives, At, TInv, Activation, Pc
  <1>4. Pattern' /\ Calls' = Calls /\ (UpToDate <=> UpToDate')
    BY <1>1, SameCalls DEF TInv, EndOf, UpToDate
  <1>5. Alone' /\ Life' /\ Stream'
    BY <1>1, <1>2, <1>3, <1>4 DEF TInv, Alone, Life, Stream, Calls
  <1> QED
    BY <1>1, <1>3, <1>4, <1>5 DEF TInv

LEMMA TInvStep == ASSUME TypeOK, TInv, [TransferNext]_tvars PROVE TInv'
  <1>1. CASE UNCHANGED tvars
    <2>1. Pattern' /\ Calls' = Calls /\ Total' = Total /\ BeforeLast' = BeforeLast
      BY <1>1, SameCalls DEF TInv, tvars, vars, udpVars
    <2> QED
      BY <1>1, <2>1
      DEF TInv, Activation, Pc, Alone, Life, Stream, UpToDate, EndOf, ChunkAt,
          GetTxAvailable, tvars, vars, udpVars, clientVars, implVars
  <1> QED
    BY <1>1, MainBindStep, StartFlowStep, WriteStep, SendReturnedStep, CloseSocketStep,
       ReturnStep, UdpSendsStep, ArrivesStep
    DEF TransferNext, AppStep

LEMMA TInvHolds == TransferSpec => [](TypeOK /\ TInv)
  <1>1. TransferInit => TypeOK /\ TInv
    BY InitTypes, TInvInit DEF TransferInit
  <1>2. TypeOK /\ TInv /\ [TransferNext]_tvars => TypeOK' /\ TInv'
    BY TransferStep, TypeStep, TInvStep
  <1> QED
    BY <1>1, <1>2, PTL DEF TransferSpec
-----------------------------------------------------------------------------
(* The transfer uses its socket only as a socket may be used: what holds of *)
(* every application holds of it.                                          *)
THEOREM TransferIsASocket == TransferSpec => Spec
  <1>1. TransferInit => Init
    BY DEF TransferInit
  <1>2. TInv /\ [TransferNext]_tvars => [Next]_vars
    BY TransferStep
  <1> QED
    BY <1>1, <1>2, TInvHolds, PTL DEF TransferSpec, Spec

(* The bytes sent are data over and over, without a gap, an overlap or a    *)
(* write that begins in the wrong place, for every size of transfer, of    *)
(* data and of write, and wherever UDP makes a Send fail.                  *)
THEOREM TransferNoSplice == TransferSpec => []NoSplice
  <1>1. TInv => NoSplice
    BY DEF TInv, Pattern
  <1> QED
    BY <1>1, TInvHolds, PTL

(* currentTxBytes is the number of bytes sent whenever the next write is     *)
(* decided on, for every size of transfer, of data and of write.           *)
THEOREM TransferCountExact == TransferSpec => []CountExact
  <1>1. TInv => CountExact
    <2> SUFFICES ASSUME TInv, At("write") PROVE current = BytesBefore(Len(sendCalls) + 1)
      BY DEF CountExact
    <2>1. Pc = "write"
      BY Here
    <2> QED
      BY <2>1 DEF TInv, Stream, UpToDate, Total, Calls
  <1> QED
    BY <1>1, TInvHolds, PTL

(* When the sender's code has all returned, either everything was sent and  *)
(* the socket is closed and quiet, or a Send failed and nothing followed it.*)
THEOREM TransferEndsWell == TransferSpec => []EndsWell
  <1>1. TInv => EndsWell
    BY DEF TInv, Life, Stream, EndsWell, Finished, Pc, Calls, Deliverable
  <1> QED
    BY <1>1, TInvHolds, PTL

(* No datagram and no Send of the transfer reaches a null handle, though it *)
(* never sets a receive callback before it resets it.                      *)
THEOREM TransferNeverNull == TransferSpec => []NoNullUpcall
  <1>1. TInv => NoNullUpcall
    BY DEF TInv, Alone, NoNullUpcall, SendFrame
  <1> QED
    BY <1>1, TInvHolds, PTL
=============================================================================
