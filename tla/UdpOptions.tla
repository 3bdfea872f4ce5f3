------------------------------ MODULE UdpOptions ------------------------------
(***************************************************************************)
(* The options of one ns-3 UDP socket and what they decide: an operator    *)
(* per call.  Part of ns-3, not of the repository.                         *)
(***************************************************************************)
CONSTANTS
  TosValues,     \* type-of-service values
  NoTos,         \* the value every socket starts with
  Groups,        \* IPv6 multicast groups
  NoGroup        \* no group joined

ASSUME OptionsAssumption == NoTos \in TosValues /\ NoGroup \notin Groups

VARIABLES
  opts,          \* the options of the socket, with the errno of its last failure
  last,          \* the last call (or datagram): its argument and its result
  wire           \* the last packet that left, to "none" before the first

optionVars == <<opts, last, wire>>

Destinations == {"unicast", "broadcast"}
Fresh ==
  [tos |-> NoTos, broadcast |-> FALSE, group |-> NoGroup, errno |-> "notError"]

Called(call, arg, res) == last' = [call |-> call, arg |-> arg, res |-> res]
Init ==
  /\ opts = Fresh
  /\ last = [call |-> "none", arg |-> {}, res |-> {}]
  /\ wire = [to |-> "none", tos |-> NoTos]

Set(field, value) == opts' = [opts EXCEPT ![field] = value] /\ UNCHANGED wire
Asks(call, value) == Called(call, {}, {value}) /\ UNCHANGED <<opts, wire>>
-----------------------------------------------------------------------------
SetAllowBroadcast(b) == Set("broadcast", b) /\ Called("SetAllowBroadcast", {b}, {})
GetAllowBroadcast == Asks("GetAllowBroadcast", opts.broadcast)
GetErrno == Asks("GetErrno", opts.errno)

(* A socket joins one group, once or again. *)
Ipv6JoinGroup(g) ==
  /\ opts.group \in {NoGroup, g}
  /\ Set("group", g) /\ Called("Ipv6JoinGroup", {g}, {})

(* A datagram sent to a group comes by, for the members of the group. *)
Multicast(g) ==
  /\ Called("Multicast", {g}, IF opts.group = g THEN {"heard"} ELSE {"ignored"})
  /\ UNCHANGED <<opts, wire>>

(* A Send on a connected socket: the packet has the socket's own TOS; a     *)
(* broadcast fails unless it is allowed.                                   *)
Send(to) ==
  IF to = "broadcast" /\ ~opts.broadcast
    THEN Set("errno", "opNotSupp") /\ Called("Send", {to}, {"error"})
    ELSE /\ wire' = [to |-> to, tos |-> opts.tos]
         /\ Called("Send", {to}, {"sent"})
         /\ UNCHANGED opts
=============================================================================
