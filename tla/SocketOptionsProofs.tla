------------------------- MODULE SocketOptionsProofs -------------------------
(***************************************************************************)
(* An application that sees one socket has its options obeyed by the other *)
(* one, for every set of TOS values and multicast groups.                  *)
(***************************************************************************)
EXTENDS SocketOptions, TLAPS

(* What UDP keeps is what the application asked for: every option that is   *)
(* forwarded, and the reason of the last failure.  TOS is not among them.  *)
Options ==
  [tos : TosValues, broadcast : BOOLEAN, group : Groups \cup {NoGroup},
   errno : {"notError", "opNotSupp"}]

OptionsKept ==
  /\ opts \in Options /\ asked \in Options
  /\ opts.broadcast = asked.broadcast
  /\ opts.group = asked.group
  /\ opts.errno = asked.errno

(* Whether a broadcast leaves, what GetAllowBroadcast answers, which group  *)
(* is heard and the reason GetErrno gives follow what the application asked *)
(* of the HELIX socket last, in any order of calls and datagrams.          *)
THEOREM OptionsHold == HelixSpec => []OptionsObeyed
  <1> DEFINE Kept == OptionsKept /\ OptionsObeyed
  <1>1. HelixInit => Kept
    BY OptionsAssumption DEF HelixInit, Init, Fresh, Options, OptionsKept, OptionsObeyed
  <1>2. Kept /\ [HelixNext]_svars => Kept'
    <2> SUFFICES ASSUME OptionsKept, OptionsObeyed, [HelixNext]_svars
                 PROVE  Kept'
      OBVIOUS
    <2> USE DEF OptionsKept, Options
    <2>1. ASSUME NEW t \in TosValues, HelixSetIpTos(t)
          PROVE  Kept'
      BY <2>1 DEF HelixSetIpTos, Asked, optionVars, OptionsObeyed
    <2>2. ASSUME NEW b \in BOOLEAN, HelixSetAllowBroadcast(b)
          PROVE  Kept'
      BY <2>2 DEF HelixSetAllowBroadcast, SetAllowBroadcast, Set, Called, Asked,
                  OptionsObeyed
    <2>3. ASSUME NEW g \in Groups, HelixJoinGroup(g)
          PROVE  Kept'
      BY <2>3 DEF HelixJoinGroup, Ipv6JoinGroup, Set, Called, Asked, OptionsObeyed
    <2>4. ASSUME NEW g \in Groups, Hears(g)
          PROVE  Kept'
      BY <2>4 DEF Hears, Multicast, Called, OptionsObeyed
    <2>5. ASSUME NEW to \in Destinations, HelixSend(to)
          PROVE  Kept'
      <3>1. CASE to = "broadcast" /\ ~opts.broadcast
        BY <2>5, <3>1 DEF HelixSend, Send, Set, Called, Asked, OptionsObeyed
      <3>2. CASE ~(to = "broadcast" /\ ~opts.broadcast)
        BY <2>5, <3>2 DEF HelixSend, Send, Called, Destinations, OptionsObeyed
      <3> QED
        BY <3>1, <3>2
    <2>6. CASE HelixGetAllowBroadcast \/ HelixGetErrno
      BY <2>6 DEF HelixGetAllowBroadcast, GetAllowBroadcast, HelixGetErrno, GetErrno,
                  Asks, Called, OptionsObeyed
    <2>7. CASE UNCHANGED svars
      BY <2>7 DEF svars, optionVars, OptionsObeyed
    <2> HIDE DEF Kept, OptionsKept
    <2> QED
      BY <2>1, <2>2, <2>3, <2>4, <2>5, <2>6, <2>7 DEF HelixNext
  <1>3. Kept => OptionsObeyed
    OBVIOUS
  <1> HIDE DEF Kept
  <1> QED
    BY <1>1, <1>2, <1>3, PTL DEF HelixSpec
=============================================================================
