------------------------- MODULE HelixExampleProofs -------------------------
(***************************************************************************)
(* Theorems about all of helix-example.cc, with main's schedule.           *)
(***************************************************************************)
EXTENDS HelixExample, ExampleSocketsProofs, RemoteProofs
LOCAL INSTANCE SequencesExt

(* The order main's times put the four events in: the server has begun when *)
(* the client begins, and closes only when the client has begun.           *)
InTurn ==
  /\ role = "client" /\ rRole = "server"
  /\ Len(scheduled) \in 0..2 /\ Len(rScheduled) \in 0..2
  /\ Len(rScheduled) = 2 => Len(scheduled) = 2
  /\ Len(scheduled) = 2 => Len(rScheduled) >= 1 /\ BetweenEvents
  /\ Len(scheduled) = 1 /\ ~BetweenEvents => Len(rScheduled) = 1
  /\ Len(scheduled) = 0 => Len(rScheduled) = 0
  /\ ~BetweenEvents => R!BetweenEvents

(* The client sends one datagram, with the last call of its first event. *)
OneUnderWay ==
  path # << >> => /\ Len(path) = 1 /\ BetweenEvents /\ R!BetweenEvents
                  /\ Len(scheduled) = 1 /\ Len(rScheduled) = 1

SInv == TypeOK /\ EInv /\ FarInv /\ PathInv /\ InTurn /\ OneUnderWay

LEMMA SInvInit == ASSUME MainInit PROVE SInv
  <1>1. TypeOK /\ EInv /\ FarInv /\ PathInv
    BY InitTypes, EInvInit, FarInit DEF MainInit, ExampleInit
  <1>2. /\ path = << >> /\ role = "client" /\ rRole = "server"
        /\ todo = << >> /\ frames = << >>
    BY DEF MainInit, RemoteInit, ExampleInit, Init, ClientInit
  <1>3. Len(scheduled) = 2
    BY <1>2 DEF MainInit, ExampleInit, Schedule
  <1>4. Len(rScheduled) = 2
    BY <1>2 DEF MainInit, RemoteInit, R!ExampleInit, R!Schedule
  <1> QED
    BY <1>1, <1>2, <1>3, <1>4 DEF SInv, InTurn, OneUnderWay, BetweenEvents

(* What it means for one of main's times to come before the other. *)
LEMMA TimeOrder ==
  ASSUME NEW m \in 0..2, NEW n \in 0..2
  PROVE  /\ 3 + 10 * (2 - m) < 1 + 10 * (2 - n) => n \in 0..(m - 1)
         /\ 1 + 10 * (2 - n) < 3 + 10 * (2 - m) => m \in 0..n
  OBVIOUS

LEMMA ClientStep == ASSUME SInv, ClientRuns PROVE SInv'
  <1>1. [ExampleNext]_evars /\ [Next]_vars
    BY ExampleStep DEF ClientRuns, ExampleNext
  <1>2. TypeOK' /\ EInv' /\ FarInv'
    BY <1>1, TypeStep, EInvStep, FarStep DEF SInv, ClientRuns
  <1>3. PathInv'
    BY <1>1, <1>2, DepartsStep DEF SInv, ClientRuns
  <1>4. /\ R!BetweenEvents /\ R!BetweenEvents'
        /\ rScheduled' = rScheduled /\ rRole' = rRole
    BY DEF ClientRuns, farVars, R!BetweenEvents
  <1>5. path = << >>
    BY DEF SInv, ClientRuns, OneUnderWay
  <1>6. InTurn'
    <2>1. CASE /\ EventBegins /\ BetweenEvents
               /\ Len(scheduled) \in 1..2 /\ Len(scheduled') = Len(scheduled) - 1
      <3>1. ClientTime < ServerTime
        BY <2>1 DEF ClientRuns
      <3>2. 3 + 10 * (2 - Len(scheduled)) < 1 + 10 * (2 - Len(rScheduled))
        BY <3>1 DEF ClientTime, ServerTime, NextAt, ClientStart, ServerStart, CloseAfter
      <3>3. Len(scheduled) \in 0..2 /\ Len(rScheduled) \in 0..2
        BY DEF SInv, InTurn
      <3>4. Len(rScheduled) \in 0..(Len(scheduled) - 1)
        BY <3>2, <3>3, TimeOrder
      <3>5. role' = role
        BY RunsMove DEF SInv, ClientRuns
      <3>6. CASE Len(scheduled) = 2
        <4>1. Len(scheduled') = 1 /\ Len(rScheduled) = 1
          BY <2>1, <3>4, <3>6 DEF SInv, InTurn
        <4> QED
          BY <1>4, <3>5, <4>1 DEF SInv, InTurn
      <3>7. CASE Len(scheduled) = 1
        <4>1. Len(scheduled') = 0 /\ Len(rScheduled) = 0
          BY <2>1, <3>4, <3>7
        <4> QED
          BY <1>4, <3>5, <4>1 DEF SInv, InTurn
      <3> QED
        BY <2>1, <3>6, <3>7
    <2>2. CASE ~BetweenEvents /\ scheduled' = scheduled
      BY <1>4, <2>2, RunsMove DEF SInv, InTurn, ClientRuns
    <2> QED
      BY <2>1, <2>2, RunsMove DEF SInv, ClientRuns
  <1>7. OneUnderWay'
    <2> SUFFICES ASSUME path' # << >> PROVE OneUnderWay'
      BY DEF OneUnderWay
    <2>1. UdpCompletes /\ path' = Append(path, Len(sendCalls'))
      BY <1>1, <1>5, SendCallsGrow DEF ClientRuns, Departs
    <2>2. Len(scheduled') = 1 /\ BetweenEvents' /\ Len(rScheduled') = 1
      BY <1>4, <2>1, SendEndsEvent DEF SInv, InTurn, ClientRuns, UdpCompletes, Sending,
                                       BetweenEvents
    <2>3. Len(path') = 1
      BY <1>5, <2>1
    <2> QED
      BY <1>4, <2>2, <2>3 DEF OneUnderWay
  <1> QED
    BY <1>2, <1>3, <1>6, <1>7 DEF SInv

LEMMA ServerStep == ASSUME SInv, ServerRuns PROVE SInv'
  <1>1. /\ UNCHANGED <<evars, netVars>> /\ BetweenEvents /\ BetweenEvents'
        /\ scheduled' = scheduled /\ role' = role
    BY DEF ServerRuns, evars, vars, clientVars, BetweenEvents
  <1>2. TypeOK' /\ EInv' /\ FarInv'
    BY <1>1, TypeStep, EInvStep, FarStep DEF SInv, ServerRuns, evars
  <1>3. PathInv' /\ path' = path
    BY <1>1, FarRunsPath DEF SInv, ServerRuns, evars, vars, udpVars, netVars
  <1>4. path = << >>
    BY DEF SInv, ServerRuns, OneUnderWay
  <1>5. /\ rRole' = rRole
        /\ \/ /\ R!BetweenEvents
              /\ Len(rScheduled) \in 1..2 /\ Len(rScheduled') = Len(rScheduled) - 1
           \/ ~R!BetweenEvents /\ rScheduled' = rScheduled
    BY FarSame, FarAssumptions, RP!RunsMove DEF SInv, FarInv, ServerRuns
  <1>6. InTurn'
    <2>1. CASE /\ R!BetweenEvents
               /\ Len(rScheduled) \in 1..2 /\ Len(rScheduled') = Len(rScheduled) - 1
      <3>1. ServerTime < ClientTime
        BY <2>1 DEF ServerRuns
      <3>2. 1 + 10 * (2 - Len(rScheduled)) < 3 + 10 * (2 - Len(scheduled))
        BY <3>1 DEF ClientTime, ServerTime, NextAt, ClientStart, ServerStart, CloseAfter
      <3>3. Len(scheduled) \in 0..2 /\ Len(rScheduled) \in 0..2
        BY DEF SInv, InTurn
      <3>4. Len(scheduled) \in 0..Len(rScheduled)
        BY <3>2, <3>3, TimeOrder
      <3>5. rRole' = rRole
        BY <1>5
      <3>6. CASE Len(rScheduled) = 2
        <4>1. Len(rScheduled') = 1 /\ Len(scheduled) = 2
          BY <2>1, <3>6 DEF SInv, InTurn
        <4> QED
          BY <1>1, <3>5, <4>1 DEF SInv, InTurn
      <3>7. CASE Len(rScheduled) = 1
        <4>1. Len(rScheduled') = 0 /\ Len(scheduled) \in 0..1
          BY <2>1, <3>4, <3>7
        <4> QED
          BY <1>1, <3>5, <4>1 DEF SInv, InTurn
      <3> QED
        BY <2>1, <3>6, <3>7
    <2>2. CASE ~R!BetweenEvents /\ rScheduled' = rScheduled
      BY <1>1, <1>5, <2>2 DEF SInv, InTurn
    <2> QED
      BY <1>5, <2>1, <2>2
  <1> QED
    BY <1>2, <1>3, <1>4, <1>6 DEF SInv, OneUnderWay

LEMMA PathStep == ASSUME SInv, Network PROVE SInv'
  <1>1. /\ UNCHANGED evars /\ BetweenEvents /\ BetweenEvents'
        /\ scheduled' = scheduled /\ role' = role
    BY DEF Network, evars, vars, clientVars, BetweenEvents
  <1>2. TypeOK' /\ EInv' /\ FarInv' /\ PathInv'
    BY <1>1, TypeStep, EInvStep, NetworkStep DEF SInv, Network, evars, vars, udpVars
  <1>3. rScheduled' = rScheduled /\ rRole' = rRole
    BY DEF Network, Loses, Reaches, R!Arrive, farVars
  <1>4. Len(path) = 1 /\ path \in Seq(Nat)
    BY DEF SInv, PathInv, OneUnderWay, Network, Loses, Reaches
  <1>5. path' = << >>
    BY <1>4 DEF Network, Loses, Reaches, RemoveAt
  <1>6. InTurn'
    BY <1>1, <1>3 DEF SInv, InTurn
  <1> QED
    BY <1>2, <1>5, <1>6 DEF SInv, OneUnderWay

LEMMA SInvHolds == MainSpec => []SInv
  <1>1. MainInit => SInv
    BY SInvInit
  <1>2. SInv /\ [MainNext]_mainVars => SInv'
    <2> SUFFICES ASSUME SInv, [MainNext]_mainVars PROVE SInv'
      OBVIOUS
    <2>1. CASE UNCHANGED mainVars
      <3>1. UNCHANGED <<evars, farVars, netVars>>
        BY <2>1 DEF mainVars
      <3>2. TypeOK' /\ EInv' /\ FarInv' /\ PathInv'
        BY <3>1, TypeStep, EInvStep, FarStep, FarRunsPath DEF SInv, evars, vars, udpVars
      <3> QED
        BY <3>1, <3>2 DEF SInv, InTurn, OneUnderWay, BetweenEvents,
                          R!BetweenEvents, evars, vars, clientVars, farVars, netVars
    <2> QED
      BY <2>1, ClientStep, ServerStep, PathStep DEF MainNext
  <1> QED
    BY <1>1, <1>2, PTL DEF MainSpec

(* The times in main are in the right order: while the client's datagram is *)
(* under way the server's set-up is over, its closing has not come, and the *)
(* client has not closed its own socket.                                   *)
THEOREM ServerIsThere == MainSpec => []OnTime
  <1>1. SInv => OnTime
    BY DEF SInv, EInv, Stage, OneUnderWay, OnTime
  <1> QED
    BY <1>1, SInvHolds, PTL

(* What the client sent is in exactly one place, and what the server        *)
(* accepted its application has read unchanged.                            *)
THEOREM ExampleAccounted == MainSpec => []Accounted
  <1>1. SInv => Accounted
    BY AllAccounted DEF SInv
  <1> QED
    BY <1>1, SInvHolds, PTL
=============================================================================
