---------------------------- MODULE RemoteProofs ----------------------------
(***************************************************************************)
(* What both examples' proofs need of the far node and of the path to it.  *)
(* The invariant EInv of ExampleSocketsProofs is carried over to the far   *)
(* socket by instantiating that module's theorems.                         *)
(***************************************************************************)
EXTENDS Remote, HelixSocketProofs, SequenceTheorems
LOCAL INSTANCE SequencesExt

RP == INSTANCE ExampleSocketsProofs WITH
  Other <- RemoteOther, ReadCb <- RemoteCb,
  endpoint <- rEndpoint, peer <- rPeer, shutSend <- rShutSend, shutRecv <- rShutRecv,
  rxQueue <- rRxQueue, recvCb <- rRecvCb, sendCb <- rSendCb,
  sendCalls <- rSendCalls, accepted <- rAccepted,
  frames <- rFrames, ret <- rRet, received <- rReceived,
  handleRecv <- rHandleRecv, handleSend <- rHandleSend,
  rsTold <- rRsTold, rsSends <- rRsSends, closed <- rClosed,
  role <- rRole, scheduled <- rScheduled, todo <- rTodo

LEMMA FarAssumptions ==
  /\ RP!UdpAssumption /\ RP!CbAssumption /\ RP!HelixAssumption
  /\ RP!ExampleAssumption
  BY UdpAssumption, CbAssumption, HelixAssumption, RemoteAssumption
  DEF RP!UdpAssumption, RP!CbAssumption, RP!HelixAssumption, RP!ExampleAssumption

(* R and RP are the same instance of ExampleSockets under two names. *)
LEMMA FarSame ==
  /\ R!Runs => RP!Runs
  /\ \A p : R!Arrive(p) => RP!Arrive(p)
  /\ R!ExampleInit => RP!ExampleInit
  /\ R!Deliverable <=> RP!Deliverable
  /\ R!BetweenEvents <=> RP!BetweenEvents
  <1>1. R!Runs => RP!Runs
    BY Zenon DEF R!Runs, RP!Runs,
      R!evars, RP!evars, R!vars, RP!vars, R!udpVars, RP!udpVars,
      R!clientVars, RP!clientVars, R!implVars, RP!implVars, R!handles,
      RP!handles, R!EventBegins, RP!EventBegins, R!BetweenEvents,
      RP!BetweenEvents, R!SetUp, RP!SetUp, R!Do, RP!Do, R!Bind, RP!Bind,
      R!Connect, RP!Connect, R!Listen, RP!Listen, R!SetRecvCallback,
      RP!SetRecvCallback, R!Send, RP!Send, R!SendEnds, RP!SendEnds,
      R!UdpCompletes, RP!UdpCompletes, R!HandleRead, RP!HandleRead, R!Recv,
      RP!Recv, R!ReturnUpcall, RP!ReturnUpcall, R!CloseSocket,
      RP!CloseSocket, R!Close, RP!Close, R!SetSendCallback,
      RP!SetSendCallback, R!Arrive, RP!Arrive, R!UdpDelivers,
      RP!UdpDelivers, R!UdpAccept, RP!UdpAccept, R!Deliverable,
      RP!Deliverable, R!HandleRecv, RP!HandleRecv, R!HandleSend,
      RP!HandleSend, R!RecvUpcall, RP!RecvUpcall, R!SendUpcall,
      RP!SendUpcall, R!NullCall, RP!NullCall, R!UdpBind, RP!UdpBind,
      R!UdpAllocate, RP!UdpAllocate, R!UdpConnect, RP!UdpConnect,
      R!UdpListen, RP!UdpListen, R!UdpSend, RP!UdpSend, R!UdpClose,
      RP!UdpClose, R!CloseBelow, RP!CloseBelow, R!UdpSetRecvCallback,
      RP!UdpSetRecvCallback, R!UdpSetSendCallback, RP!UdpSetSendCallback,
      R!UdpRecv, RP!UdpRecv, R!Returns, RP!Returns, R!Receives, RP!Receives,
      R!UpcallReturns, RP!UpcallReturns, R!AppRunning, RP!AppRunning,
      R!Sending, RP!Sending, R!SendFrame, RP!SendFrame, R!Enter, RP!Enter,
      R!Tie, RP!Tie, R!Keep, RP!Keep, R!MayOpen, RP!MayOpen,
      R!MayDropCallback, RP!MayDropCallback, R!Results, RP!Results,
      R!ReadCalls, RP!ReadCalls, R!LeavesLoop, RP!LeavesLoop, R!Rs!Bind,
      RP!Rs!Bind, R!Rs!Connect, RP!Rs!Connect, R!Rs!Listen, RP!Rs!Listen,
      R!Rs!Close, RP!Rs!Close, R!Rs!Send, RP!Rs!Send, R!Rs!Recv, RP!Rs!Recv,
      R!Rs!helix_rs_bind, RP!Rs!helix_rs_bind, R!Rs!helix_rs_connect,
      RP!Rs!helix_rs_connect, R!Rs!helix_rs_listen, RP!Rs!helix_rs_listen,
      R!Rs!helix_rs_close, RP!Rs!helix_rs_close, R!Rs!helix_rs_send,
      RP!Rs!helix_rs_send,
      R!Rs!ConvertPacketToFFIBuff, RP!Rs!ConvertPacketToFFIBuff
  <1>2. ASSUME NEW p, R!Arrive(p) PROVE RP!Arrive(p)
    BY <1>2, Zenon DEF
      R!Arrive, RP!Arrive, R!UdpDelivers, RP!UdpDelivers, R!UdpAccept,
      RP!UdpAccept, R!Deliverable, RP!Deliverable, R!HandleRecv,
      RP!HandleRecv, R!RecvUpcall, RP!RecvUpcall, R!NullCall, RP!NullCall,
      R!ReadCalls, RP!ReadCalls, R!implVars, RP!implVars
  <1>3. R!ExampleInit => RP!ExampleInit
    BY Zenon DEF
      R!ExampleInit, RP!ExampleInit, R!Init, RP!Init, R!UdpInit, RP!UdpInit,
      R!ClientInit, RP!ClientInit, R!Rs!RsInit, RP!Rs!RsInit, R!Schedule,
      RP!Schedule, R!ServerCalls, RP!ServerCalls, R!ClientCalls,
      RP!ClientCalls, R!ReceiverCalls, RP!ReceiverCalls, R!ExampleCloses,
      RP!ExampleCloses, R!TransferCloses, RP!TransferCloses
  <1>4. R!Deliverable <=> RP!Deliverable
    BY DEF R!Deliverable, RP!Deliverable
  <1>5. R!BetweenEvents <=> RP!BetweenEvents
    BY DEF R!BetweenEvents, RP!BetweenEvents
  <1> QED
    BY <1>1, <1>2, <1>3, <1>4, <1>5
-----------------------------------------------------------------------------
(* What the network does to a sequence of datagrams. *)
LEMMA RemovedAt ==
  ASSUME NEW S, NEW s \in Seq(S), NEW i \in DOMAIN s
  PROVE  /\ RemoveAt(s, i) \in Seq(S) /\ Len(RemoveAt(s, i)) = Len(s) - 1
         /\ \A n \in 1..(Len(s) - 1) :
              RemoveAt(s, i)[n] = s[IF n < i THEN n ELSE n + 1]
  <1> DEFINE a == SubSeq(s, 1, i - 1)
             b == SubSeq(s, i + 1, Len(s))
  <1>1. Len(s) \in Nat /\ i \in 1..Len(s)
    OBVIOUS
  <1>2. a \in Seq(S) /\ Len(a) = i - 1 /\ \A n \in 1..(i - 1) : a[n] = s[n]
    BY <1>1
  <1>3. /\ b \in Seq(S) /\ Len(b) = Len(s) - i
        /\ \A n \in 1..(Len(s) - i) : b[n] = s[n + i]
    BY <1>1
  <1> HIDE DEF a, b
  <1>4. /\ a \o b \in Seq(S) /\ Len(a \o b) = Len(s) - 1
        /\ \A n \in 1..(Len(s) - 1) :
             (a \o b)[n] = IF n <= i - 1 THEN a[n] ELSE b[n - (i - 1)]
    <2>1. (i - 1) + (Len(s) - i) = Len(s) - 1
      BY <1>1
    <2>2. /\ a \o b \in Seq(S) /\ Len(a \o b) = Len(a) + Len(b)
          /\ \A n \in 1..(Len(a) + Len(b)) :
               (a \o b)[n] = IF n <= Len(a) THEN a[n] ELSE b[n - Len(a)]
      BY <1>2, <1>3, ConcatProperties, Zenon
    <2> QED
      BY <1>2, <1>3, <2>1, <2>2, Zenon
  <1>5. ASSUME NEW n \in 1..(Len(s) - 1)
        PROVE  (a \o b)[n] = s[IF n < i THEN n ELSE n + 1]
    <2>1. CASE n < i
      <3>1. n \in 1..(i - 1) /\ n <= i - 1
        BY <1>1, <2>1
      <3> QED
        BY <1>2, <1>4, <2>1, <3>1
    <2>2. CASE n >= i
      <3>1. n - (i - 1) \in 1..(Len(s) - i) /\ (n - (i - 1)) + i = n + 1
        BY <1>1, <2>2
      <3>2. ~(n <= i - 1) /\ ~(n < i)
        BY <1>1, <2>2
      <3> QED
        BY <1>3, <1>4, <3>1, <3>2
    <2>3. n < i \/ n >= i
      BY <1>1
    <2> QED
      BY <2>1, <2>2, <2>3
  <1> QED
    BY <1>4, <1>5 DEF RemoveAt, a, b

LEMMA RemoveOne ==
  ASSUME NEW s \in Seq(Nat), Increasing(s), NEW i \in DOMAIN s
  PROVE  /\ Increasing(RemoveAt(s, i))
         /\ ToSet(RemoveAt(s, i)) = ToSet(s) \ {s[i]}
  <1> DEFINE t == RemoveAt(s, i)
             old(n) == IF n < i THEN n ELSE n + 1
  <1>1. /\ t \in Seq(Nat) /\ Len(t) = Len(s) - 1 /\ i \in 1..Len(s)
        /\ \A n \in 1..Len(t) : t[n] = s[old(n)]
    <2>1. /\ RemoveAt(s, i) \in Seq(Nat) /\ Len(RemoveAt(s, i)) = Len(s) - 1
          /\ \A n \in 1..(Len(s) - 1) :
               RemoveAt(s, i)[n] = s[IF n < i THEN n ELSE n + 1]
      BY RemovedAt, Zenon
    <2>2. Len(s) \in Nat /\ i \in 1..Len(s)
      OBVIOUS
    <2> QED
      BY <2>1, <2>2, Zenon
  <1> DEFINE size == Len(s)
  <1>2. /\ size \in Nat /\ i \in 1..size /\ DOMAIN s = 1..size
        /\ Len(t) = size - 1
    BY <1>1
  <1> HIDE DEF t, size
  <1>3. \A n \in 1..Len(t) : old(n) \in DOMAIN s /\ old(n) # i
    <2> SUFFICES ASSUME NEW n \in 1..(size - 1) PROVE old(n) \in 1..size /\ old(n) # i
      BY <1>2, Zenon
    <2> QED
      BY <1>2
  <1>4. ASSUME NEW m \in 1..Len(t), NEW n \in 1..Len(t), m < n PROVE old(m) < old(n)
    <2>1. m \in Int /\ n \in Int /\ i \in Int
      BY <1>2
    <2> QED
      BY <1>4, <2>1
  <1>5. \A k \in DOMAIN s : k # i => \E n \in 1..Len(t) : k = old(n)
    <2> SUFFICES ASSUME NEW k \in 1..size, k # i PROVE \E n \in 1..(size - 1) : k = old(n)
      BY <1>2, Zenon
    <2>1. k \in Int /\ i \in Int
      BY <1>2
    <2>2. CASE k < i
      <3>1. k \in 1..(size - 1) /\ k = old(k)
        BY <1>2, <2>2
      <3> QED
        BY <3>1, Zenon
    <2>3. CASE k > i
      <3>1. k - 1 \in 1..(size - 1) /\ k = old(k - 1)
        BY <1>2, <2>3
      <3> QED
        BY <3>1, Zenon
    <2>4. k < i \/ k > i
      BY <2>1
    <2> QED
      BY <2>2, <2>3, <2>4, Zenon
  <1>6. DOMAIN t = 1..Len(t)
    BY <1>1
  <1> HIDE DEF old
  <1>7. Increasing(t)
    BY <1>1, <1>3, <1>4, <1>6 DEF Increasing
  <1>8. \A k \in DOMAIN s : k # i => s[k] # s[i]
    BY DEF Increasing
  <1>9. ToSet(t) = ToSet(s) \ {s[i]}
    <2>1. ASSUME NEW n \in 1..Len(t) PROVE t[n] \in ToSet(s) \ {s[i]}
      BY <1>1, <1>3, <1>8 DEF ToSet
    <2>2. ASSUME NEW k \in DOMAIN s, s[k] # s[i] PROVE s[k] \in ToSet(t)
      <3>1. PICK n \in 1..Len(t) : k = old(n)
        BY <1>5, <2>2
      <3> QED
        BY <1>1, <1>6, <3>1 DEF ToSet
    <2> QED
      BY <1>6, <2>1, <2>2 DEF ToSet
  <1> QED
    BY <1>7, <1>9 DEF t

LEMMA TakeHead ==
  ASSUME NEW s \in Seq(Nat), Increasing(s), s # << >>
  PROVE  /\ Head(s) \in Nat /\ Tail(s) \in Seq(Nat) /\ Increasing(Tail(s))
         /\ ToSet(Tail(s)) = ToSet(s) \ {Head(s)} /\ Head(s) \in ToSet(s)
         /\ \A x \in ToSet(Tail(s)) : Head(s) < x
  <1>1. /\ Tail(s) \in Seq(Nat) /\ Len(Tail(s)) = Len(s) - 1 /\ Head(s) = s[1]
        /\ 1 \in DOMAIN s /\ \A n \in 1..Len(Tail(s)) : Tail(s)[n] = s[n + 1]
    OBVIOUS
  <1>2. Increasing(Tail(s))
    BY <1>1 DEF Increasing
  <1>3. ToSet(Tail(s)) = {s[n + 1] : n \in 1..Len(Tail(s))}
    <2>1. DOMAIN Tail(s) = 1..Len(Tail(s))
      BY <1>1
    <2>2. ToSet(Tail(s)) = {Tail(s)[n] : n \in 1..Len(Tail(s))}
      BY <2>1 DEF ToSet
    <2> QED
      BY <1>1, <2>2
  <1>4. \A n \in 1..Len(Tail(s)) : s[1] < s[n + 1]
    BY <1>1 DEF Increasing
  <1>5. \A k \in DOMAIN s : k = 1 \/ \E n \in 1..Len(Tail(s)) : k = n + 1
    <2> SUFFICES ASSUME NEW k \in DOMAIN s, k # 1
                 PROVE  k - 1 \in 1..Len(Tail(s)) /\ k = (k - 1) + 1
      OBVIOUS
    <2> QED
      BY <1>1
  <1>6. s[1] \in Nat /\ \A n \in 1..Len(Tail(s)) : s[n + 1] \in Nat
    BY <1>1
  <1>7. ToSet(s) = {s[1]} \cup {s[n + 1] : n \in 1..Len(Tail(s))}
    BY <1>1, <1>5 DEF ToSet
  <1> QED
    BY <1>1, <1>2, <1>3, <1>4, <1>6, <1>7

LEMMA PutLast ==
  ASSUME NEW s \in Seq(Nat), Increasing(s), NEW x \in Nat, \A y \in ToSet(s) : y < x
  PROVE  /\ Append(s, x) \in Seq(Nat) /\ Increasing(Append(s, x))
         /\ ToSet(Append(s, x)) = ToSet(s) \cup {x}
  <1>1. /\ Append(s, x) \in Seq(Nat) /\ Len(Append(s, x)) = Len(s) + 1
        /\ \A n \in 1..Len(s) : Append(s, x)[n] = s[n]
        /\ Append(s, x)[Len(s) + 1] = x
    OBVIOUS
  <1>2. \A n \in 1..Len(s) : s[n] < x
    BY DEF ToSet
  <1>3. Increasing(Append(s, x))
    BY <1>1, <1>2 DEF Increasing
  <1>4. ToSet(Append(s, x)) = ToSet(s) \cup {x}
    BY <1>1 DEF ToSet
  <1> QED
    BY <1>1, <1>3, <1>4

LEMMA InARow ==
  ASSUME NEW s \in Seq(Nat), NEW t \in Seq(Nat), Increasing(s), Increasing(t),
         \A x \in ToSet(s), y \in ToSet(t) : x < y
  PROVE  Increasing(s \o t) /\ ToSet(s \o t) = ToSet(s) \cup ToSet(t)
  <1>1. /\ s \o t \in Seq(Nat) /\ Len(s \o t) = Len(s) + Len(t)
        /\ \A n \in 1..Len(s) : (s \o t)[n] = s[n]
        /\ \A n \in 1..Len(t) : (s \o t)[Len(s) + n] = t[n]
    OBVIOUS
  <1>2. \A n \in 1..(Len(s) + Len(t)) :
          n \in 1..Len(s) \/ \E k \in 1..Len(t) : n = Len(s) + k
    <2> SUFFICES ASSUME NEW n \in 1..(Len(s) + Len(t)), n \notin 1..Len(s)
                 PROVE  n - Len(s) \in 1..Len(t) /\ n = Len(s) + (n - Len(s))
      OBVIOUS
    <2> QED
      OBVIOUS
  <1>3. ToSet(s \o t) = ToSet(s) \cup ToSet(t)
    <2>1. DOMAIN (s \o t) = 1..(Len(s) + Len(t))
      BY <1>1
    <2>2. ASSUME NEW n \in 1..(Len(s) + Len(t))
          PROVE  (s \o t)[n] \in ToSet(s) \cup ToSet(t)
      <3>1. CASE n \in 1..Len(s)
        BY <1>1, <3>1 DEF ToSet
      <3>2. CASE n \notin 1..Len(s)
        <4>1. PICK k \in 1..Len(t) : n = Len(s) + k
          BY <1>2, <3>2
        <4> QED
          BY <1>1, <4>1 DEF ToSet
      <3> QED
        BY <3>1, <3>2
    <2>3. ASSUME NEW n \in 1..Len(s) PROVE s[n] \in ToSet(s \o t)
      <3>1. n \in 1..(Len(s) + Len(t)) /\ (s \o t)[n] = s[n]
        BY <1>1
      <3> QED
        BY <2>1, <3>1 DEF ToSet
    <2>4. ASSUME NEW n \in 1..Len(t) PROVE t[n] \in ToSet(s \o t)
      <3>1. Len(s) + n \in 1..(Len(s) + Len(t)) /\ (s \o t)[Len(s) + n] = t[n]
        BY <1>1
      <3> QED
        BY <2>1, <3>1 DEF ToSet
    <2>5. ToSet(s \o t) \subseteq ToSet(s) \cup ToSet(t)
      BY <2>1, <2>2 DEF ToSet
    <2>6. ToSet(s) \subseteq ToSet(s \o t)
      <3>1. \A n \in DOMAIN s : s[n] \in ToSet(s \o t)
        BY <2>3
      <3> QED
        BY <3>1 DEF ToSet
    <2>7. ToSet(t) \subseteq ToSet(s \o t)
      <3>1. \A n \in DOMAIN t : t[n] \in ToSet(s \o t)
        BY <2>4
      <3> QED
        BY <3>1 DEF ToSet
    <2> QED
      BY <2>5, <2>6, <2>7
  <1>4. ASSUME NEW m \in 1..(Len(s) + Len(t)), NEW n \in 1..(Len(s) + Len(t)), m < n
        PROVE  (s \o t)[m] < (s \o t)[n]
    <2>1. CASE n \in 1..Len(s)
      BY <1>1, <1>4, <2>1 DEF Increasing
    <2>2. CASE m \in 1..Len(s) /\ n \notin 1..Len(s)
      <3>1. PICK k \in 1..Len(t) : n = Len(s) + k
        BY <1>2, <2>2
      <3>2. s[m] \in ToSet(s) /\ t[k] \in ToSet(t)
        BY <2>2 DEF ToSet
      <3> QED
        BY <1>1, <2>2, <3>1, <3>2
    <2>3. CASE m \notin 1..Len(s)
      <3>1. PICK k \in 1..Len(t) : m = Len(s) + k
        BY <1>2, <2>3
      <3>2. n \notin 1..Len(s)
        BY <1>4, <3>1
      <3>3. PICK l \in 1..Len(t) : n = Len(s) + l
        BY <1>2, <3>2
      <3>4. k < l
        BY <1>4, <3>1, <3>3
      <3> QED
        BY <1>1, <3>1, <3>3, <3>4 DEF Increasing
    <2> QED
      BY <2>1, <2>2, <2>3
  <1>5. Increasing(s \o t)
    BY <1>1, <1>4 DEF Increasing
  <1> QED
    BY <1>3, <1>5
-----------------------------------------------------------------------------
FarInv == RP!TypeOK /\ RP!InOrder /\ RP!EInv

(* The datagrams of the Sends that succeeded, each in exactly one place; the *)
(* ones accepted left before the ones under way.  What the far UDP accepted *)
(* is what was sent.                                                        *)
PathInv ==
  /\ path \in Seq(Nat) /\ got \in Seq(Nat)
  /\ SentOk = ToSet(path) \cup lost \cup refused \cup ToSet(got)
  /\ lost \cap refused = {}
  /\ (ToSet(path) \cup ToSet(got)) \cap (lost \cup refused) = {}
  /\ Increasing(path) /\ Increasing(got)
  /\ \A x \in ToSet(got), y \in ToSet(path) : x < y
  /\ rAccepted = [k \in DOMAIN got |-> sendCalls[got[k]].pkt]

LEMMA FarInit == ASSUME NEW who, RemoteInit(who), Init PROVE FarInv /\ PathInv
  <1>1. /\ RP!ExampleInit /\ path = << >> /\ got = << >> /\ lost = {} /\ refused = {}
        /\ sendCalls = << >>
    BY FarSame DEF RemoteInit, Init, UdpInit
  <1>2. RP!Init /\ rAccepted = << >>
    BY <1>1 DEF RP!ExampleInit, RP!Init, RP!UdpInit
  <1>3. RP!TypeOK /\ RP!EInv
    BY <1>1, <1>2, FarAssumptions, RP!InitTypes, RP!EInvInit
  <1>4. RP!InOrder
    BY <1>2 DEF RP!Init, RP!UdpInit, RP!ClientInit, RP!InOrder
  <1>5. PathInv
    BY <1>1, <1>2 DEF PathInv, SentOk, ToSet, Increasing
  <1> QED
    BY <1>3, <1>4, <1>5 DEF FarInv

(* What a step of the far node, or no step of it, preserves. *)
LEMMA FarStep ==
  ASSUME FarInv,
         R!Runs \/ (\E p \in Packets : R!Arrive(p)) \/ UNCHANGED farVars
  PROVE  FarInv'
  <1>1. [RP!ExampleNext]_(RP!evars)
    <2>1. CASE R!Runs \/ \E p \in Packets : R!Arrive(p)
      BY <2>1, FarSame DEF RP!ExampleNext
    <2>2. CASE UNCHANGED farVars
      BY <2>2 DEF farVars, RP!evars, RP!vars, RP!udpVars, RP!clientVars, RP!implVars
    <2> QED
      BY <2>1, <2>2
  <1>2. [RP!Next]_(RP!vars)
    BY <1>1, FarAssumptions, RP!ExampleStep
  <1>3. RP!TypeOK'
    BY <1>2, FarAssumptions, RP!TypeStep DEF FarInv
  <1>4. RP!EInv'
    BY <1>1, FarAssumptions, RP!EInvStep DEF FarInv
  <1>5. RP!InOrder'
    BY <1>2, FarAssumptions, RP!InOrderStep DEF FarInv
  <1> QED
    BY <1>3, <1>4, <1>5 DEF FarInv

(* Only UDP completing a Send adds to its calls, one at a time. *)
LEMMA SendCallsGrow ==
  ASSUME [Next]_vars
  PROVE  \/ UNCHANGED sendCalls
         \/ UdpCompletes /\ \E c : sendCalls' = Append(sendCalls, c)
  <1>1. CASE UdpCompletes
    BY <1>1 DEF UdpCompletes, UdpSend
  <1>2. CASE ~UdpCompletes
    BY <1>2, Zenon
    DEF Next, vars, udpVars, SetRecvCallback, SetSendCallback, Tie, UdpSetRecvCallback,
        UdpSetSendCallback, BindToNetDevice, Bind, UdpBind, Connect, UdpConnect, Listen,
        UdpListen, Send, SendTo, UdpDelivers, UdpAccept, Recv, UdpRecv, Close,
        CloseBelow, UdpClose, ShutdownSend, UdpShutdownSend, ShutdownRecv,
        UdpShutdownRecv, Query, ReturnUpcall
  <1> QED
    BY <1>1, <1>2

(* The far node's own steps leave the path and what it accepted alone. *)
LEMMA FarRunsPath ==
  ASSUME PathInv, R!Runs \/ UNCHANGED farVars, UNCHANGED <<netVars, sendCalls>>
  PROVE  PathInv'
  <1>1. rAccepted' = rAccepted
    BY FarSame, FarAssumptions, RP!RunsAccept DEF farVars
  <1>2. SentOk' = SentOk
    BY DEF SentOk
  <1> QED
    BY <1>1, <1>2 DEF PathInv, netVars, ToSet, Increasing

LEMMA DepartsStep ==
  ASSUME PathInv, TypeOK, TypeOK', [Next]_vars, Departs, UNCHANGED farVars
  PROVE  PathInv'
  <1>1. /\ UNCHANGED <<lost, refused, got>> /\ rAccepted' = rAccepted
        /\ sendCalls \in Seq(SendCall) /\ sendCalls' \in Seq(SendCall)
    BY DEF Departs, farVars, TypeOK, UdpTypeOK
  <1>2. CASE UNCHANGED sendCalls
    <2>1. SentOk' = SentOk /\ path' = path
      BY <1>2 DEF SentOk, Departs
    <2> QED
      BY <1>1, <1>2, <2>1 DEF PathInv, ToSet, Increasing
  <1>3. CASE \E c : sendCalls' = Append(sendCalls, c)
    <2> DEFINE n == Len(sendCalls')
    <2>1. PICK c : sendCalls' = Append(sendCalls, c)
      BY <1>3
    <2>2. /\ n = Len(sendCalls) + 1 /\ n \in Nat /\ sendCalls' # sendCalls
          /\ Last(sendCalls') = c /\ Last(sendCalls)' = c
          /\ sendCalls'[n] = c /\ \A i \in DOMAIN sendCalls : sendCalls'[i] = sendCalls[i]
      BY <1>1, <2>1 DEF Last
    <2>3. SentOk \subseteq 1..(n - 1)
      BY <1>1, <2>2 DEF SentOk
    <2>4. SentOk' = IF c.ret = "ok" THEN SentOk \cup {n} ELSE SentOk
      BY <1>1, <2>1, <2>2 DEF SentOk
    <2>5. path' = IF c.ret = "ok" THEN Append(path, n) ELSE path
      BY <2>2 DEF Departs
    <2>6. rAccepted' = [k \in DOMAIN got' |-> sendCalls'[got'[k]].pkt]
      <3>1. \A k \in DOMAIN got : got[k] \in DOMAIN sendCalls
        BY DEF PathInv, ToSet, SentOk
      <3> QED
        BY <1>1, <2>2, <3>1 DEF PathInv
    <2> HIDE DEF n
    <2>7. CASE c.ret = "ok"
      <3>1. /\ Append(path, n) \in Seq(Nat) /\ Increasing(Append(path, n))
            /\ ToSet(Append(path, n)) = ToSet(path) \cup {n}
        BY <2>2, <2>3, PutLast DEF PathInv
      <3>2. n \notin SentOk /\ \A x \in ToSet(got) : x < n
        BY <2>2, <2>3 DEF PathInv
      <3>3. SentOk' = ToSet(path') \cup lost' \cup refused' \cup ToSet(got')
        BY <1>1, <2>4, <2>5, <2>7, <3>1 DEF PathInv
      <3>4. (ToSet(path') \cup ToSet(got')) \cap (lost' \cup refused') = {}
        BY <1>1, <2>5, <2>7, <3>1, <3>2 DEF PathInv
      <3>5. \A x \in ToSet(got'), y \in ToSet(path') : x < y
        BY <1>1, <2>5, <2>7, <3>1, <3>2 DEF PathInv
      <3> QED
        BY <1>1, <2>5, <2>6, <2>7, <3>1, <3>3, <3>4, <3>5 DEF PathInv
    <2>8. CASE c.ret # "ok"
      BY <1>1, <2>4, <2>5, <2>6, <2>8 DEF PathInv
    <2> QED
      BY <2>7, <2>8
  <1> QED
    BY <1>2, <1>3, SendCallsGrow

LEMMA LosesStep ==
  ASSUME PathInv, Loses, UNCHANGED sendCalls PROVE PathInv'
  <1>1. PICK i \in DOMAIN path : path' = RemoveAt(path, i) /\ lost' = lost \cup {path[i]}
    BY DEF Loses
  <1>2. /\ path' \in Seq(Nat) /\ Increasing(path)'
        /\ ToSet(path)' = ToSet(path) \ {path[i]}
    BY <1>1, RemovedAt, RemoveOne DEF PathInv
  <1>3. SentOk' = SentOk /\ rAccepted' = rAccepted /\ UNCHANGED <<refused, got>>
    BY DEF SentOk, Loses, farVars
  <1>4. path[i] \in ToSet(path)
    BY DEF ToSet
  <1> QED
    BY <1>1, <1>2, <1>3, <1>4 DEF PathInv

LEMMA ReachesStep ==
  ASSUME PathInv, Reaches, UNCHANGED sendCalls PROVE PathInv'
  <1> DEFINE h == Head(path)
  <1>1. /\ h \in Nat /\ path' \in Seq(Nat) /\ Increasing(path') /\ h \in ToSet(path)
        /\ ToSet(path') = ToSet(path) \ {h} /\ \A x \in ToSet(path') : h < x
    BY TakeHead DEF PathInv, Reaches
  <1>2. SentOk' = SentOk /\ lost' = lost
    BY DEF SentOk, Reaches
  <1> HIDE DEF h
  <1>3. CASE R!Arrive(sendCalls[h].pkt) /\ got' = Append(got, h) /\ UNCHANGED refused
    <2>1. rAccepted' = Append(rAccepted, sendCalls[h].pkt)
      BY <1>3 DEF R!Arrive, R!UdpDelivers, R!UdpAccept
    <2>2. /\ got' \in Seq(Nat) /\ Increasing(got') /\ ToSet(got') = ToSet(got) \cup {h}
      BY <1>1, <1>3, PutLast DEF PathInv
    <2>3. rAccepted' = [k \in DOMAIN got' |-> sendCalls'[got'[k]].pkt]
      <3>1. Len(got') = Len(got) + 1 /\ got'[Len(got) + 1] = h
            /\ \A k \in 1..Len(got) : got'[k] = got[k]
        BY <1>3 DEF PathInv
      <3> QED
        BY <2>1, <3>1 DEF PathInv
    <2> QED
      BY <1>1, <1>2, <1>3, <2>2, <2>3 DEF PathInv
  <1>4. CASE refused' = refused \cup {h} /\ UNCHANGED <<farVars, got>>
    BY <1>1, <1>2, <1>4 DEF PathInv, farVars
  <1> QED
    BY <1>3, <1>4 DEF Reaches, h

LEMMA NetworkStep ==
  ASSUME FarInv, PathInv, TypeOK, Loses \/ Reaches, UNCHANGED sendCalls
  PROVE  FarInv' /\ PathInv'
  <1>1. CASE Loses
    BY <1>1, FarStep, LosesStep DEF Loses
  <1>2. CASE Reaches
    <2>1. (\E p \in Packets : R!Arrive(p)) \/ UNCHANGED farVars
      <3>1. Head(path) \in SentOk
        BY <1>2, TakeHead DEF PathInv, Reaches
      <3>2. sendCalls[Head(path)] \in SendCall
        BY <3>1 DEF SentOk, TypeOK, UdpTypeOK
      <3>3. sendCalls[Head(path)].pkt \in Packets
        BY <3>2 DEF SendCall
      <3> QED
        BY <1>2, <3>3 DEF Reaches
    <2> QED
      BY <1>2, <2>1, FarStep, ReachesStep
  <1> QED
    BY <1>1, <1>2

(* Between two events of the far node what it accepted has been read. *)
LEMMA AllAccounted == ASSUME FarInv, PathInv PROVE Accounted
  <1>1. R!BetweenEvents => rReceived = rAccepted
    BY FarSame, FarAssumptions, RP!AllRead DEF FarInv, RP!ReadsAll
  <1>2. Increasing(got \o path) /\ ToSet(got \o path) = ToSet(got) \cup ToSet(path)
    BY InARow DEF PathInv
  <1> QED
    BY <1>1, <1>2 DEF PathInv, Accounted

(* Between two of its events the far socket's queue is empty, so that its   *)
(* buffer, which holds at least one datagram, has room for the next.       *)
LEMMA RefusedByClosed ==
  ASSUME FarInv, Loses \/ Reaches, refused' # refused PROVE ~R!Deliverable
  <1>1. R!BetweenEvents /\ (~R!Deliverable \/ Len(rRxQueue) = RcvBuf)
    BY DEF Loses, Reaches
  <1>2. rTodo = << >>
    BY <1>1 DEF R!BetweenEvents
  <1>3. rRxQueue = << >>
    BY <1>2 DEF FarInv, RP!EInv, RP!Unread
  <1> QED
    BY <1>1, <1>3, UdpAssumption
=============================================================================
