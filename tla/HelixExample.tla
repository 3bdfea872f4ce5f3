----------------------------- MODULE HelixExample -----------------------------
(***************************************************************************)
(* All of examples/helix-example.cc: a client node (the sockets of         *)
(* ExampleSockets) that sends one packet, a server node (Remote), and      *)
(* main's schedule.                                                        *)
(***************************************************************************)
EXTENDS ExampleSockets, Remote

(* Mutant: the server comes after the client. *)
ServerLate == 4

(* Seconds: main starts the server and the client, and each schedules the   *)
(* closing of its socket when it starts.                                   *)
ServerStart == 1
ClientStart == 3
CloseAfter == 10
NextAt(start, events) == start + CloseAfter * (2 - Len(events))

ClientTime == NextAt(ClientStart, scheduled)
ServerTime == NextAt(ServerStart, rScheduled)

mainVars == <<evars, farVars, netVars>>

MainInit == ExampleInit /\ role = "client" /\ RemoteInit("server")

(* The link takes 2 ms, far less than the time between two events of main:  *)
(* when one begins, nothing is under way.                                  *)
ClientRuns ==
  /\ R!BetweenEvents
  /\ BetweenEvents => path = << >> /\ ClientTime < ServerTime
  /\ Runs /\ Departs
  /\ UNCHANGED farVars

ServerRuns ==
  /\ BetweenEvents
  /\ R!BetweenEvents => path = << >> /\ ServerTime < ClientTime
  /\ R!Runs
  /\ UNCHANGED <<evars, netVars>>

Network == BetweenEvents /\ (Loses \/ Reaches) /\ UNCHANGED evars

MainNext == ClientRuns \/ ServerRuns \/ Network

MainSpec ==
  /\ MainInit /\ [][MainNext]_mainVars
  /\ WF_mainVars(ClientRuns) /\ WF_mainVars(ServerRuns) /\ WF_mainVars(Network)
-----------------------------------------------------------------------------
(* The schedule is right: while a datagram is under way the server's set-up *)
(* is behind it and its closeSocket still to come, and the client has not  *)
(* closed its socket either.                                               *)
OnTime ==
  path # << >> => /\ Len(rScheduled) = 1 /\ R!BetweenEvents
                  /\ ~closed

(* Both sockets are closed in the end and what the client sent is settled: *)
(* nothing is under way, so that (Accounted) the server read it, unless it  *)
(* was lost or the server's Bind had failed.                               *)
AllSettled ==
  <>[](closed /\ rClosed /\ BetweenEvents /\ R!BetweenEvents /\ path = << >>)
=============================================================================
