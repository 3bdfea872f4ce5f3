---------------------------- MODULE SocketOptions ----------------------------
(***************************************************************************)
(* Options and queries of HelixSocketImpl.  There are two sockets: the     *)
(* HELIX socket, which is an ns3::Socket with options of its own, and the  *)
(* UDP socket, whose options decide what is sent and received.  What       *)
(* HelixSocketImpl overrides reaches UDP; SetIpTos is not virtual and      *)
(* stays above.                                                            *)
(***************************************************************************)
EXTENDS UdpOptions

VARIABLES
  own,           \* the options of the HELIX socket itself
  asked          \* history: what the application set last, for each option, and
                 \* why the last call that gave it an error did

svars == <<optionVars, own, asked>>

HelixInit == Init /\ own = Fresh /\ asked = Fresh

Asked(field, value) == asked' = [asked EXCEPT ![field] = value]
-----------------------------------------------------------------------------
HelixSetIpTos(t) ==
  /\ own' = [own EXCEPT !.tos = t]
  /\ Asked("tos", t)
  /\ UNCHANGED optionVars

(* Mutant: the option is set on the HELIX socket only. *)
HelixSetAllowBroadcastOwn(b) ==
  /\ own' = [own EXCEPT !.broadcast = b]
  /\ Called("SetAllowBroadcast", {b}, {})
  /\ Asked("broadcast", b)
  /\ UNCHANGED <<opts, wire>>

HelixSetAllowBroadcast(b) ==
  SetAllowBroadcast(b) /\ Asked("broadcast", b) /\ UNCHANGED own
HelixGetAllowBroadcast == GetAllowBroadcast /\ UNCHANGED <<own, asked>>
HelixJoinGroup(g) == Ipv6JoinGroup(g) /\ Asked("group", g) /\ UNCHANGED own
HelixGetErrno == GetErrno /\ UNCHANGED <<own, asked>>

HelixSend(to) ==
  /\ Send(to)
  /\ IF last'.res = {"error"} THEN Asked("errno", "opNotSupp") ELSE UNCHANGED asked
  /\ UNCHANGED own

Hears(g) == Multicast(g) /\ UNCHANGED <<own, asked>>

HelixNext ==
  \/ \E t \in TosValues : HelixSetIpTos(t)
  \/ \E b \in BOOLEAN : HelixSetAllowBroadcast(b)
  \/ \E g \in Groups : HelixJoinGroup(g) \/ Hears(g)
  \/ \E to \in Destinations : HelixSend(to)
  \/ HelixGetAllowBroadcast \/ HelixGetErrno

HelixSpec == HelixInit /\ [][HelixNext]_svars
-----------------------------------------------------------------------------
(* With two sockets below one interface the application still sees one:     *)
(* whether a broadcast leaves, what GetAllowBroadcast answers and which    *)
(* group is heard follow what it asked for last, and GetErrno gives the    *)
(* reason of the failure it was last told of.  (TOS is the next property.) *)
OptionsObeyed ==
  /\ last.call = "Send" =>
       (last.res = {"error"} <=> last.arg = {"broadcast"} /\ ~asked.broadcast)
  /\ last.call = "GetAllowBroadcast" => last.res = {asked.broadcast}
  /\ last.call = "Multicast" => (last.res = {"heard"} <=> last.arg = {asked.group})
  /\ last.call = "GetErrno" => last.res = {asked.errno}

(* "the TOS set for the socket is used" (helix-socket-impl.h lines 68-71):  *)
(* a packet sent on the connected socket has the TOS set on it.            *)
TosOfSocketUsed == [][wire' # wire => wire'.tos = asked.tos]_svars
=============================================================================
