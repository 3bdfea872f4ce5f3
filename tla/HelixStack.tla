------------------------------ MODULE HelixStack ------------------------------
(***************************************************************************)
(* How HELIX becomes part of one node: HelixStackHelper::AddHelix,         *)
(* HelixL4Protocol::NotifyNewAggregate, and what HelixL4Protocol and       *)
(* HelixSocketFactoryImpl then keep until the node is disposed of.         *)
(*                                                                         *)
(* Aggregation is re-entrant.  ns-3's Object::AggregateObject merges the   *)
(* new object into the node's aggregate, ends the simulation if one of its *)
(* type is there already, and then calls NotifyNewAggregate on every       *)
(* member; HelixL4Protocol's answer may aggregate a socket factory, which  *)
(* notifies it again before the first notification has returned.  calls is *)
(* the C++ call stack of these activations, newest first.                  *)
(***************************************************************************)
EXTENDS Naturals, Sequences

CONSTANTS
  Helices,       \* HelixL4Protocol objects
  NoHelix,       \* a null Ptr<HelixL4Protocol>
  Sockets        \* HelixSocketImpl objects

Ips == {"ipv4", "ipv6"}
Externals == Ips \cup {"udp"}      \* "udp": the node's UdpSocketFactory

ASSUME StackAssumption ==
  /\ NoHelix \notin Helices
  /\ Helices \cap (Externals \cup {"factory"}) = {}

VARIABLES
  agg,           \* the objects aggregated to the node
  calls,         \* activations in progress, newest first
  added,         \* history: L4 protocols someone tried to add to the node
  mNode,         \* per L4 protocol, m_node is set
  downTarget,    \* per L4 protocol, the IPs whose Send is its down target
  inserts,       \* per L4 protocol and IP, how often it was inserted there
  factoryHelix,  \* m_helix of the factory in the aggregate
  mSockets,      \* m_sockets of the L4 protocol in the aggregate
  held,          \* sockets the application still holds a Ptr to
  tied,          \* sockets whose UDP socket holds a raw pointer to them
  disposed,      \* the node has been disposed of
  crash          \* "none", or what ended the simulation

linkVars == <<mNode, downTarget, inserts>>
sockVars == <<mSockets, held, tied>>
vars == <<agg, calls, added, linkVars, factoryHelix, sockVars, disposed, crash>>

(* NotifyNewAggregate of h, with the IPs GetObject found when it began. *)
Notify(h, ips, pc) == [kind |-> "notify", helix |-> h, ips |-> ips, pc |-> pc]
(* AddHelix(node, h), waiting for AggregateObject(h) to return. *)
Helper(h) == [kind |-> "helper", helix |-> h]

Activations ==
  [kind : {"notify"}, helix : Helices, ips : SUBSET Ips, pc : {"link", "down"}]
    \cup [kind : {"helper"}, helix : Helices]

TypeOK ==
  /\ agg \subseteq Helices \cup Externals \cup {"factory"}
  /\ calls \in Seq(Activations)
  /\ added \subseteq Helices
  /\ mNode \in [Helices -> BOOLEAN]
  /\ downTarget \in [Helices -> SUBSET Ips]
  /\ inserts \in [Helices -> [Ips -> Nat]]
  /\ factoryHelix \in Helices \cup {NoHelix}
  /\ mSockets \subseteq Sockets /\ held \subseteq Sockets /\ tied \subseteq Sockets
  /\ disposed \in BOOLEAN
  /\ crash \in {"none", "duplicate", "nullNode", "nullHelix"}

Init ==
  /\ agg = {} /\ calls = << >> /\ added = {}
  /\ mNode = [h \in Helices |-> FALSE]
  /\ downTarget = [h \in Helices |-> {}]
  /\ inserts = [h \in Helices |-> [v \in Ips |-> 0]]
  /\ factoryHelix = NoHelix
  /\ mSockets = {} /\ held = {} /\ tied = {}
  /\ disposed = FALSE /\ crash = "none"

Running == crash = "none" /\ ~disposed
Idle == Running /\ calls = << >>
-----------------------------------------------------------------------------
(* Mutant: the node is not kept. *)
SetNodeNot(h) == UNCHANGED mNode

SetNode(h) == mNode' = [mNode EXCEPT ![h] = TRUE]
SetDownTargets(h, ips) == downTarget' = [downTarget EXCEPT ![h] = @ \cup ips]

Duplicate(o) == o \in agg \/ (o \in Helices /\ agg \cap Helices # {})

(* node->AggregateObject(o), called by what is left of the stack in rest.   *)
(* The L4 protocol is the only member whose notification touches HELIX.    *)
Aggregate(o, rest) ==
  \/ /\ Duplicate(o)
     /\ crash' = "duplicate"
     /\ UNCHANGED <<agg, calls>>
  \/ /\ ~Duplicate(o)
     /\ agg' = agg \cup {o}
     /\ IF agg' \cap Helices = {}
          THEN calls' = rest
          ELSE \E h \in agg' \cap Helices :
                 calls' = <<Notify(h, agg' \cap Ips, "link")>> \o rest
     /\ UNCHANGED crash

(* Code outside HELIX completes the node.  UDP makes its socket factory     *)
(* only once there is an IP.                                               *)
Install(o) ==
  /\ Idle
  /\ o \notin agg /\ (o = "udp" => agg \cap Ips # {})
  /\ Aggregate(o, << >>)
  /\ UNCHANGED <<added, linkVars, factoryHelix, sockVars, disposed>>

(* HelixL4Protocol aggregated by itself, as ns-3 installs its own protocols. *)
AggregateHelix(h) ==
  /\ Idle /\ h \notin added
  /\ added' = added \cup {h}
  /\ Aggregate(h, << >>)
  /\ UNCHANGED <<linkVars, factoryHelix, sockVars, disposed>>

(* Mutant: a null argument stays null. *)
MadeNot(h) == NoHelix

(* AddHelix replaces a null argument by a new protocol. *)
Made(h) == h

(* AddHelix sets the node before it aggregates the protocol. *)
AddHelix(h) ==
  /\ Idle /\ h \notin added
  /\ added' = added \cup {h}
  /\ SetNode(h)
  /\ Aggregate(Made(h), <<Helper(h)>>)
  /\ UNCHANGED <<downTarget, inserts, factoryHelix, sockVars, disposed>>

Top == Head(calls)
Rest == Tail(calls)
InNotify(pc) == Running /\ calls # << >> /\ Top.kind = "notify" /\ Top.pc = pc

(* Mutant: the factory is not told its protocol. *)
AggregateFactoryUnset(h, rest) ==
  Aggregate("factory", rest) /\ UNCHANGED factoryHelix

(* A factory for h is made and aggregated. *)
AggregateFactory(h, rest) ==
  /\ Aggregate("factory", rest)
  /\ factoryHelix' = IF Duplicate("factory") THEN factoryHelix ELSE h

(* The second half of AddHelix. *)
AddFactory ==
  /\ Running /\ calls # << >> /\ Top.kind = "helper"
  /\ AggregateFactory(Top.helix, Rest)
  /\ UNCHANGED <<added, linkVars, sockVars, disposed>>

(* The first half of NotifyNewAggregate: a protocol that has no node yet    *)
(* takes it, and makes the socket factory, as soon as there is an IP.      *)
NotifyLink ==
  /\ InNotify("link")
  /\ LET h == Top.helix
         after == <<Notify(h, Top.ips, "down")>> \o Rest
     IN  IF ~mNode[h] /\ Top.ips # {}
           THEN /\ SetNode(h)
                /\ AggregateFactory(h, after)
           ELSE calls' = after /\ UNCHANGED <<agg, mNode, factoryHelix, crash>>
  /\ UNCHANGED <<added, downTarget, inserts, sockVars, disposed>>

(* Mutants: the down target is not tested; one down target counts for both. *)
NewTargetsAll(h, ips) == ips
NewTargetsFirst(h, ips) == IF downTarget[h] = {} THEN ips ELSE {}

NewTargets(h, ips) == ips \ downTarget[h]

(* The second half: insert the protocol into each IP found at the start     *)
(* that is not its down target yet.                                        *)
NotifyDown ==
  /\ InNotify("down")
  /\ LET h == Top.helix
         new == NewTargets(h, Top.ips)
     IN  /\ inserts' = [inserts EXCEPT ![h] =
              [v \in Ips |-> inserts[h][v] + (IF v \in new THEN 1 ELSE 0)]]
         /\ SetDownTargets(h, new)
  /\ calls' = Rest
  /\ UNCHANGED <<agg, added, mNode, factoryHelix, sockVars, disposed, crash>>

(* Mutant: m_sockets does not keep the socket. *)
TracksNot(s) == UNCHANGED mSockets
Tracks(s) == mSockets' = IF crash' = "none" THEN mSockets \cup {s} ELSE mSockets

(* HelixSocketFactoryImpl::CreateSocket and the null it could meet. *)
Reached == IF factoryHelix = NoHelix THEN "nullHelix"
           ELSE IF mNode[factoryHelix] THEN "none" ELSE "nullNode"

(* Socket::CreateSocket finds the factory in the aggregate; the factory     *)
(* asks its L4 protocol, which asks its node for a UDP socket.  An          *)
(* application makes sockets on nodes that have UDP.                       *)
CreateSocket(s) ==
  /\ Idle /\ "factory" \in agg /\ "udp" \in agg
  /\ s \notin mSockets \cup held \cup tied
  /\ crash' = Reached
  /\ Tracks(s)
  /\ held' = IF crash' = "none" THEN held \cup {s} ELSE held
  /\ UNCHANGED <<agg, calls, added, linkVars, factoryHelix, tied, disposed>>

(* The application sets a callback: UDP gets MakeCallback(&..., this), in    *)
(* which this is a raw pointer.                                            *)
Tie(s) ==
  /\ Idle /\ s \in held
  /\ tied' = tied \cup {s}
  /\ UNCHANGED <<agg, calls, added, linkVars, factoryHelix, mSockets, held, disposed, crash>>

(* The application drops its last Ptr to a socket. *)
Release(s) ==
  /\ crash = "none" /\ calls = << >> /\ s \in held
  /\ held' = held \ {s}
  /\ UNCHANGED <<agg, calls, added, linkVars, factoryHelix, mSockets, tied, disposed, crash>>

(* What the two DoDispose methods forget.  Down targets are kept. *)
DisposeHelix ==
  /\ mSockets' = {}
  /\ mNode' = [h \in Helices |-> mNode[h] /\ h \notin agg]
DisposeFactory == factoryHelix' = NoHelix

(* The node disposes of its members, in one go and in any order. *)
Dispose ==
  /\ Idle
  /\ DisposeHelix /\ DisposeFactory
  /\ disposed' = TRUE
  /\ UNCHANGED <<agg, calls, added, downTarget, inserts, held, tied, crash>>

Unwind == AddFactory \/ NotifyLink \/ NotifyDown

Next ==
  \/ \E o \in Externals : Install(o)
  \/ \E h \in Helices : AggregateHelix(h) \/ AddHelix(h)
  \/ Unwind
  \/ \E s \in Sockets : CreateSocket(s) \/ Tie(s) \/ Release(s)
  \/ Dispose

(* A call that has begun goes on: nothing else can run meanwhile. *)
Fairness == WF_vars(Unwind)

Spec == Init /\ [][Next]_vars /\ Fairness
-----------------------------------------------------------------------------
(* AddHelix and NotifyNewAggregate both make a socket factory, yet never    *)
(* two for one node: aggregation ends the simulation only when HELIX is    *)
(* added to a node twice, whatever was installed before, after or between. *)
ReAdded == \E h, g \in added : h # g
FatalOnlyOnReAdd == crash = "duplicate" => ReAdded

(* No IP gets the protocol twice, although its notifications nest. *)
InsertedOnce ==
  \A h \in Helices, v \in Ips :
    inserts[h][v] = IF v \in downTarget[h] THEN 1 ELSE 0

(* Whatever the order of installation, once no call is in progress HELIX is *)
(* linked to every IP of the node, it has its node as soon as there is an   *)
(* IP, and then the node has a socket factory that leads back to it.       *)
Linked ==
  Idle => \A h \in agg \cap Helices :
            /\ downTarget[h] = agg \cap Ips
            /\ agg \cap Ips # {} => mNode[h]
            /\ mNode[h] => "factory" \in agg /\ factoryHelix = h

(* An application that finds the factory on a running node gets its socket: *)
(* neither m_helix nor m_node is null on the way.                          *)
CreateNeverNull == crash \notin {"nullHelix", "nullNode"}

(* UDP never holds a pointer to a socket that is gone: m_sockets keeps the  *)
(* socket, also after Close and after the application forgot it, until the *)
(* node is disposed of.                                                    *)
CallbackTargetAlive == ~disposed => tied \subseteq mSockets \cup held

(* The nesting of AggregateObject and NotifyNewAggregate always unwinds, if *)
(* HELIX is added to the node once.                                        *)
Settles == calls # << >> ~> (calls = << >> \/ ReAdded)
=============================================================================
