# HELIX for ns-3: a verification project

HELIX puts a socket layer of its own between an ns-3 application and UDP, and
tells a library written in Rust of every call on the way. This directory models
that layer in TLA+, checks the models with TLC on small instances, and proves the
main properties with TLAPS for all values of the constants.

Paths below are relative to `src/ns-3.40/src/helix/` unless they start with `src/`.

## 1. The system

| Component | State | Operations | Interacts with |
|---|---|---|---|
| `HelixSocketImpl` (`model/helix-socket-impl.*`) | a UDP socket, a Rust interface, two callback handles `m_handle_recv`, `m_handle_send` | the `Socket` calls, `HandleRecv`, `HandleSend` | calls Rust, then UDP; UDP calls it back; it calls the application back |
| `HelixRsInterface` (`model/helix-rs-interface.*`) | none | Bind, Connect, Listen, Send, Recv, Close; buffer conversions | called by the socket, calls Rust through the FFI |
| Rust library (`src/helix-rs/src/lib.rs`) | none: every function logs | the same six calls | called by the wrapper |
| `HelixL4Protocol` (`model/helix-l4-protocol.*`) | `m_node`, `m_sockets`, down targets | SetNode, NotifyNewAggregate, CreateSocket, DoDispose | aggregated to a node; inserts itself into IPv4 and IPv6 |
| `HelixSocketFactoryImpl` | `m_helix` | SetHelix, CreateSocket, DoDispose | found in the node by applications, asks the L4 protocol |
| `HelixStackHelper` (`helper/`) | none | AddHelix (two overloads) | aggregates protocol and factory to a node |
| `examples/helix-large-transfer.cc` | `currentTxBytes` | StartFlow, WriteUntilBufferFull, HandleRead, CloseSocket | a sender and a receiver on HELIX sockets |
| `examples/helix-example.cc` | none | createServerHelixSocket, sendPacket, handleRead, closeSocket | a server and a client on HELIX sockets |

The UDP socket, object aggregation and the event loop belong to ns-3, which is
not in the repository. They are modelled from how HELIX uses them and are marked
`external` in `PROJECT.json`.

**What is hard here.** ns-3 has one thread, so the difficulty is re-entry and
order, not parallelism:

- UDP may run the send callback *inside* `Send`; the application may then send
  again before the first call returned (`helix-socket-impl.cc:228`,
  `helix-large-transfer.cc:234`).
- UDP calls `HandleRecv` and `HandleSend`, which invoke the application's handle
  without testing it (`helix-socket-impl.cc:133`, `:144`).
- Rust hears of a call but not of its result, and UDP may refuse it or, for a Send
  on an unbound or closed socket, open an end point nobody asked for
  (`helix-socket-impl.cc:244`, `:275`).
- `NotifyNewAggregate` aggregates another object and is thereby called again
  before it has finished (`helix-l4-protocol.cc:322`).
- `HandleRecv` is given to UDP with a raw `this` (`helix-socket-impl.cc:112`).
- The examples look at the result of no call but `Send`.
- Two nodes meet over links that lose datagrams, with receive buffers that are
  limited, and each closes its socket at a time fixed beforehand
  (`helix-large-transfer.cc:193`, `helix-example.cc:218`).

What makes each component correct:

- *socket*: to the application it is the UDP socket; to Rust it is a complete and
  ordered record; no null callback is called;
- *Rust interface*: what goes through it comes out again;
- *L4 protocol, factory, helper*: one factory per node, one insertion per IP,
  whatever the order of installation; sockets can be created and outlive UDP's
  pointers to them;
- *applications*: they terminate, send or read everything, and leave the socket
  closed and quiet; what is sent arrives in order, and whatever does not arrive was
  lost on the way or refused by a socket that was not open.

The hazards, each at its line, are in `PROJECT.json`.

## 2. Modules

| Module | Models | Built on |
|---|---|---|
| `UdpSocket` | one ns-3 UDP socket (external): an operator per call | |
| `UdpClient` | control: a stack of activations, return values, what the application received | `UdpSocket` |
| `DirectSocket` | **abstract**: an application directly on UDP | `UdpClient` |
| `HelixRsInterface` | wrapper and Rust library | |
| `HelixSocket` | `HelixSocketImpl`; states that it implements `DirectSocket` | `UdpClient`, instances of `HelixRsInterface` and `DirectSocket` |
| `LargeTransfer` | the sender of `helix-large-transfer.cc` | `HelixSocket` |
| `ExampleSockets` | the receiver of `helix-large-transfer.cc`, both sockets of `helix-example.cc` | `HelixSocket` |
| `Remote` | the far end: a second node with an `ExampleSockets` socket, and the path to it, which may lose datagrams (external) | `HelixSocket`, an instance of `ExampleSockets` |
| `EndToEnd` | all of `helix-large-transfer.cc` | `LargeTransfer`, `Remote` |
| `HelixExample` | all of `helix-example.cc`, with main's schedule | `ExampleSockets`, `Remote` |
| `UdpOptions` | the options of one UDP socket (external): an operator per call | |
| `SocketOptions` | the options of `HelixSocketImpl`, which has two sets of them | `UdpOptions` |
| `HelixStack` | one node: helper, L4 protocol, factory, and the life of its sockets | |
| `HelixSocketProofs`, `HelixStackProofs` | theorems | `HelixSocket`, `HelixStack` |
| `ExampleSocketsProofs`, `LargeTransferProofs` | theorems | the component and `HelixSocketProofs` |
| `RemoteProofs` | lemmas about the far node and the path | `Remote`, an instance of `ExampleSocketsProofs` |
| `EndToEndProofs`, `HelixExampleProofs` | theorems | the composition and the proofs of its parts |
| `SocketOptionsProofs` | a theorem | `SocketOptions` |
| `MC*` | model values, symmetry and small sets for TLC | |

Definitions whose comment begins with *Mutant* stand next to the one they vary
and are used nowhere: each is a plausible mistake in that code, and the property
it is paired with in `PROJECT.json` fails when it takes the definition's place.

### Correspondence

*Control.* `frames` is the part of the C++ call stack that matters, newest first: a
`send` frame is a `Send` that UDP has not completed, an upcall frame is
application code run by a callback. With an empty stack either an event of the
application runs, or the next event (a datagram) comes. So `Send` is two actions:
`Send`/`SendTo` tells Rust and enters UDP, `UdpCompletes` is the rest, and it may
push `HandleSend`. All other calls return at once and are one action each; the
queries `GetRxAvailable`, `GetSockName` and `GetPeerName` are one action, `Query`,
that only sets `ret`.

*Socket.* `handleRecv`, `handleSend` are the two handles; `recvCb`, `sendCb` what
UDP holds, `"HandleRecv"`/`"HandleSend"` once the setter ran. A null handle that
gets called becomes the frame `NullCall`, from which nothing continues: the
program has crashed. `HandleRecv` replaces the socket argument, so upcalls
carry whether they were given the application's own socket or UDP's. `closed` is
a history variable: the application has called `Close`.

*UDP.* `endpoint` is none, a port only (`Bind()`, implicit binds) or an address
as well (`Bind(address)`). Close fails on a socket shut down in both directions.
Allocating an end point undoes both shutdowns, so a Send after Close reopens the
socket. `Listen` always fails. `sendCalls` and `accepted` are histories, and `SentOk`
is the set of the numbers of the Sends in `sendCalls` that UDP reported as sent.

*Rust.* Its functions only log, so what the model keeps of them is history. `rsTold`
is the last call Rust heard of those that open or close a socket: Bind, Send (on which
UDP may bind by itself) and Close. `rsSends` has a record for each Send of the wrapper:
the packet the wrapper was given, which goes no further, and the buffer it gave Rust,
which is empty because `HelixRsInterface::Send` passes `FFISharedBuffer()`. A Rust
function logs and returns, so nothing can happen between Rust and UDP hearing of a
call and both are one step; only for `Send`, in which UDP may call the application
back, are there two. Which of the two hears first is therefore not a question the
model can ask.

*Node.* `calls` is the stack of `NotifyNewAggregate` and `AddHelix` activations.
A notification records which IPs it found when it began, as the code does, and has
two halves (`link`, `down`), since the first may aggregate a factory and so push
another notification. Aggregation notifies only members that care; the only one of
those in HELIX is the L4 protocol. `crash` is what ended the simulation.

*Applications.* `LargeTransfer.app` is the stack of activations of
`StartFlow`/`WriteUntilBufferFull` with a place in the code. A write is an
offset into `data` and a length. `ExampleSockets.scheduled` is the list of a
socket's events still to come (its set-up and its closing), each a list of calls;
`todo` is what the running event has left to call, also while `handleRead` runs.
Three roles are chosen in the initial state. Both modules take their steps from
`HelixSocket`'s actions.

*Two nodes.* `Remote` gives the far socket variables of its own (`rFrames`,
`rClosed`, ...) and instantiates `ExampleSockets` on them as `R`. A datagram outside the
two sockets is known by the number of its Send in `sendCalls`, so two with the same
contents stay apart. `path` holds those under way, oldest first: `Departs`
accompanies each step of the near socket and appends what UDP sent; `Loses` takes any
one out and puts it in the set `lost`; `Reaches` hands the oldest to the far UDP,
which accepts it (history `got`) or not (set `refused`). One simulator runs both nodes, so nothing of one node happens inside an event of the other. In
`EndToEnd` the order of the events follows from the code: main sets up the receiver,
then the sender; `StartFlow` writes everything in one event; the receiver's close is
scheduled for 999 s and may come at any time after that, also with datagrams still
under way. In `HelixExample` the times of main decide
(`ServerStart` 1 s, `ClientStart` 3 s, `CloseAfter` 10 s), and since the link takes 2 ms,
an event of main begins only when nothing is under way.

### Assumption on the application

`Disciplined` = TRUE restricts the application: it resets a callback to null only
after `Close`, and neither binds nor sends on a socket it has closed. `NoNullUpcall` and
`ActsLikeUdp` are claimed for such applications; `TypeOK`, `TapOrder`, `InOrder` and
`OpenAsTold` are checked, in `socket_taps`, and proved for every application, also one
that sends on a closed socket, closes it from inside a callback or resets callbacks at
will. Both examples keep to the discipline, which is not taken for granted: `LargeTransfer` and `ExampleSockets` run with
`Disciplined` = FALSE, and `NoNullUpcall` is checked again for what they really do.
That some such rule is needed is shown by the run `socket_null_handle`.
`UdpBind` applies to sockets without an end point: an application binds once.

## 3. Runs

| Run | Configuration | Distinct states | Shows |
|---|---|---|---|
| `socket_taps` | `MCHelixSocketTaps` | 3,235,734 | `TypeOK`, `TapOrder`, `InOrder`, `OpenAsTold`, for every application |
| `socket_refines` | `MCHelixSocketRefines` | 727,886 | `ActsLikeUdp` (refinement), `NoNullUpcall`, for disciplined applications |
| `stack` | `MCHelixStack` | 926 | `TypeOK`, `FatalOnlyOnReAdd`, `InsertedOnce`, `Linked`, `CreateNeverNull`, `CallbackTargetAlive`, `Settles` |
| `large_transfer` | `MCLargeTransfer` | 3,927 | `NoNullUpcall`, `NoSplice`, `CountExact`, `EndsWell`, `Terminates` |
| `example_sockets` | `MCExampleSockets` | 1,269 | `NoNullUpcall`, `ReadsAll`, `QuietOnceClosed`, `Finishes` |
| `end_to_end` | `MCEndToEnd` | 12,948 | `InPattern`, `Accounted`, `NoOverflow`, `Quiet` |
| `helix_example` | `MCHelixExample` | 444 | `OnTime`, `Accounted`, `AllSettled` |
| `socket_options` | `MCSocketOptions` | 464 | `OptionsObeyed` |
| `socket_null_handle` | `MCHelixSocketNullHandle` | violation | resetting a callback on a live socket crashes |
| `socket_rust_packet` | `MCHelixSocketRustPacket` | violation | no packet reaches Rust |
| `transfer_called_again` | `MCLargeTransferCalledAgain` | violation | a failed Send ends the transfer for good |
| `options_tos` | `MCSocketOptionsTos` | violation | the TOS set on the socket is not on its packets |

### What the properties say

- `TapOrder`: Rust hears of each Send UDP is given, once and in UDP's order, also
  with sends nested in the send callback. That the packet itself never reaches Rust is
  the finding of `socket_rust_packet`.
- `InOrder`: what UDP accepted is what the application got, then what is queued.
- `OpenAsTold`: whenever a datagram can reach the socket, the last of Bind, Send and
  Close that Rust heard of is not Close (nor nothing at all). So after a Close, also one
  UDP refuses, the socket is deaf until Rust hears a Bind or a Send again, although UDP
  reopens a closed socket by itself when it is sent on. A Close inside a running Send
  would break this, as the Send would reopen what Rust last heard to be closed; that
  the application regains control only after UDP allocated the end point prevents it.
  The converse is not claimed: a Bind may fail.
- `ActsLikeUdp`: the promise of `model/helix-socket-impl.h:135-142`, as refinement.
  UDP's callback is mapped to the handle behind it. For the undisciplined
  application it is false, for the reason `socket_null_handle` shows.
- `FatalOnlyOnReAdd`, `InsertedOnce`, `Linked`, `CreateNeverNull`: any order of
  installing IPv4, IPv6, UDP and HELIX, by the helper or directly, gives the same
  working node.
- `CallbackTargetAlive`: UDP holds no pointer to a socket that has been freed.
- `NoSplice`, `CountExact`, `EndsWell`: the first write starts at the beginning of
  `data`, each later one where the one before it ended, and only after that one was
  sent; `currentTxBytes` is the number of bytes UDP accepted; the code ends with everything written and the
  socket closed, or at a failed Send. This rests on main binding no address: with
  one, UDP would notify the sender inside Send, and `WriteUntilBufferFull` would send
  the same bytes again (mutant `LocalAddress`).
- `ReadsAll`, `QuietOnceClosed`: between events nothing is left unread, and a
  closed socket hears nothing.
- `InPattern`: each datagram the receiver reads holds the piece of `data` that belongs
  after the bytes sent before it, and the datagrams come in the order of their Sends:
  nothing twice, out of order or cut. It relates the sender's arithmetic to the far
  end of the path and of the Rust interface.
- `Accounted`: each datagram whose Send succeeded is exactly one of under way, lost,
  refused and accepted, none overtakes another, and between the far node's events its
  application has read exactly what was accepted: HELIX drops or alters none at
  either end.
- `NoOverflow`: only a socket that is not open refuses a datagram; a full buffer never
  does, because every arrival's `HandleRecv` empties it.
- `OnTime`: while `helix-example`'s packet is under way the server is set up, and
  neither socket has begun to close. `Quiet`, `AllSettled`: the programs come to
  rest with nothing under way and the sockets closed.
- `OptionsObeyed`: there are two sockets with options, the one the application sees and
  the one that sends and receives. `asked` is what the application set last on the
  first and the last failure it was told of; whether a broadcast leaves, what
  `GetAllowBroadcast` and `GetErrno` answer and which multicast group is heard are
  compared with it. For TOS the same fails (`options_tos`).

### Bounds

- *socket*: 2 sends, so that one can nest in another and two can be compared for
  order; a receive buffer of 1 and 2 accepted datagrams in `socket_taps`, so the buffer
  fills, is drained and refilled; 1 datagram and 2 callbacks in `socket_refines`, where
  one callback can be exchanged for the other; 2 payloads, 1 address. Packets and callbacks are
  symmetric: no property names one.
- *node*: 2 protocols (adding HELIX twice is possible), all of IPv4, IPv6 and UDP,
  2 sockets. Otherwise the state space is finite by itself.
- *large transfer*: 7 bytes in writes of 3 that `GetTxAvailable` cuts to 2:
  writes start at every offset of `data`, wrap, and the last is short. `MaxSends`
  is 7 and a transfer needs 5, so that bound never stops it.
- *examples*: 3 datagrams of 2 kinds, a buffer of 2. In this run the network may
  deliver anything UDP accepts; in the two compositions only what was sent. `Finishes`
  rests on `MaxAccepts`: fairness of `Runs` alone would let arrivals go on for ever
  before the scheduled closing, which the simulator's clock does not.
- *end to end*: 17 bytes in writes of 5, cut to 3: seven writes of three kinds, which
  repeat after two, so a duplicate or an exchange shows; any of them may be lost, and
  the receiver's buffer holds 1. `MaxSends` and `MaxAccepts` are 8 and are never reached.
- *helix-example*: the client sends 1 packet and the server accepts 1, as in the
  code; the packet is one of 2 kinds and the buffer holds 1.
- *options*: 2 TOS values, 2 groups.

Deadlock is checked in `socket_refines` and the option runs. It is not in `socket_taps`,
where an undisciplined application may crash in a null call and nothing continues, nor
in the others, where the program really ends: the transfer is done, the sockets are closed, the
node is disposed of or the simulation was aborted.

### Fairness

The simulator is one thread that runs each call to its end and each scheduled
event at its time. Hence weak fairness of the steps of code already entered
(`Unwind`; `AppStep` and `UdpSends`; `Runs` of `ExampleSockets`, which is each step of
its application and of UDP below it) and of scheduled events, and none for what
an application decides to call. By itself a socket gets no promise that datagrams
arrive. In the compositions `SenderRuns`, `ReceiverRuns`, `ClientRuns` and `ServerRuns` are
fair for the same reason, and so is `Network`: a datagram does not stay under way
for ever, but it may always be lost. `HelixSocket!Spec` has no fairness and only safety
is claimed of it.

## 4. Proofs

`HelixSocketProofs` (`Spec` of `HelixSocket`):

| Theorem | States | Assumes |
|---|---|---|
| `TypeCorrect` | `[]TypeOK` | |
| `TapsInOrder` | `[]TapOrder` | |
| `ReceivedInOrder` | `[]InOrder` | |
| `OpensAsTold` | `[]OpenAsTold` | |
| `NeverNull` | `[]NoNullUpcall` | `Disciplined` |
| `ImplementsUdp` | `ActsLikeUdp` | `Disciplined` |

`HelixStackProofs` (`Spec` of `HelixStack`): `StackTypeCorrect`, `OneFactory`
(`FatalOnlyOnReAdd`), `OneInsertion`, `AllLinked` (`Linked`), `CreateSafe`,
`TargetsAlive`.

| Module | Theorem | States |
|---|---|---|
| `ExampleSocketsProofs` | `ExamplesAreSockets` | `ExampleSpec => Spec` |
| | `ExamplesReadAll`, `ExamplesNeverNull`, `ExamplesStayQuiet` | `[]ReadsAll`, `[]NoNullUpcall`, `QuietOnceClosed` |
| `LargeTransferProofs` | `TransferIsASocket` | `TransferSpec => Spec` |
| | `TransferNoSplice`, `TransferCountExact` | `[]NoSplice`, `[]CountExact` |
| | `TransferEndsWell`, `TransferNeverNull` | `[]EndsWell`, `[]NoNullUpcall` |
| `EndToEndProofs` | `TransferInPattern`, `TransferAccounted` | `[]InPattern`, `[]Accounted` |
| | `TransferNeverOverflows` | `NoOverflow` |
| `HelixExampleProofs` | `ServerIsThere`, `ExampleAccounted` | `[]OnTime`, `[]Accounted` |
| `SocketOptionsProofs` | `OptionsHold` | `HelixSpec => []OptionsObeyed` |

None of these assumes `Disciplined`: what it demands is derived from the code of the
examples.

All rest on the assumptions named next to the constants only (`UdpAssumption`,
`CbAssumption`, `HelixAssumption`, `StackAssumption`, `ExampleAssumption`,
`TransferAssumption`, `RemoteAssumption`, `OptionsAssumption`): distinctness of the null
values from real ones, natural numbers for bounds and sizes, and constants that are
addresses, callbacks or packets where the code uses them as such. The bounds themselves
are arbitrary, so the proofs cover any number of sends and any depth of nesting.

*The socket's invariant* `IInv` adds to `TypeOK`, for disciplined applications: a
closed socket is shut down in both directions and no Send is in progress on it, and a
callback UDP holds has a live handle unless the socket is closed. For every
application it adds that the activations below the newest are application code: a
Send cannot be entered while another runs without an upcall between them.
`NoNullUpcall` by itself is not inductive: a state with a null handle and a callback at
UDP satisfies it and its successor does not. Without the part about Sends in progress,
a `UdpCompletes` could give a closed socket an end point again. `TapOrder` needs only
that the stack below its top is application code; `InOrder` is inductive over
`TypeOK`. `OpenAsTold` is not inductive: it needs in addition that while a Send is in
progress the last call Rust heard is that Send, which holds because no application code
runs before UDP completes it, whatever the nesting below.

*Refinement.* Each action of `HelixSocket` maps to the action of `DirectSocket` of the
same name, `BindToNetDevice` to a stutter; `HandleRecv` maps to UDP's own
upcall because a disciplined application has no null handle there.

*The stack's invariant* says what the activations still owe. There is at most one
protocol in the aggregate. Each IP of the node is a down target already or is among
the IPs of a pending notification; the protocol has its node already, or a
notification that will set it is pending. If the protocol has its node and there is
no factory, an `AddHelix` is waiting to make one, and whoever makes the factory
finds none there. None of `Linked`, `FatalOnlyOnReAdd` and `CreateNeverNull` is
inductive without these.

*The examples' invariant* `EInv` says where in its life a socket is (`Stage`: not set
up, in use, closing, closed), which of the possible remainders of its code `todo` is
at each stage, and that it agrees with the stack (`Control`). From this follow that
Close worked (`Below`) and that only a `handleRead` that has not met its null packet
leaves datagrams in the queue (`Unread`). `ReadsAll` is then `InOrder` with an empty queue.

*The transfer's invariant* `TInv` says that `WriteUntilBufferFull` is never entered twice
(`Activation`, `Alone`), because UDP has no local address to notify, and that between
two writes `currentTxBytes` is the number of bytes sent and its offset in `data` is where
the last write ended (`Stream`). Neither `NoSplice` nor `CountExact` is inductive: while
a Send is in progress or its result has not been looked at, `currentTxBytes` counts
the bytes before that Send (`BeforeLast`). `Placed` says of every write that it is the
piece of `data` computed from the bytes sent before it, which is what `InPattern` needs.
The arithmetic of the offset is in the lemmas `Advance` (a chunk that stays within `data`
moves the offset by its length, modulo its size) and `ChunkFits` (the chunk computed
from `currentTxBytes` does stay within it).

*Counting.* The bytes sent before a Send are the cardinality of a set of pairs, the
number of an earlier successful Send and a place in its packet, and no fold over the
history: `SentBytes`. One more Send adds a row of pairs that are new, so the facts
about finite sets of the library suffice (`OneMoreRow`, `BytesGrow`) where a fold would
need an induction over sequences. For the same reason a datagram on the path is the
number of its Send.

*The compositions* reuse these step by step: a step of the whole program is one of
`TransferNext` (or `ExampleNext`) at the near end, one of the far socket, or neither.
The far socket's invariant `FarInv` is `EInv` of the instance of `ExampleSocketsProofs` on
its variables, with `TypeOK` and `InOrder` of the same instance. `PathInv` is the path's: its
four places divide `SentOk`; the numbers increase in `got` and in `path`, and those in `got`
are below those in `path`; and the far UDP's `accepted` is what the numbers in `got`
stand for. Its steps are lemmas about the path alone (`DepartsStep`, `LosesStep`,
`ReachesStep`): the newest number is above all others, a loss leaves the rest in order,
and the head is below the rest. `Accounted` follows with `ReadsAll` of the far socket,
which holds between its events, and `InPattern` with its `InOrder`, which holds always, and
with `Placed`. A datagram reaches the far socket only between its events, when its queue
is empty, hence `NoOverflow`. `OnTime` adds the order of the four scheduled events
(`InTurn`) and that the client sends once, with the last call of its first event
(`OneUnderWay`).

*Options.* `OptionsObeyed` speaks of the last call only; the invariant behind it is
`OptionsKept`: UDP's broadcast permission, group and errno are what was asked for.

TLC has checked `Pattern`, `Life`, `Stream` and `PathInv` as invariants of `end_to_end`'s
instance; the other parts of the inductive invariants contain quantifiers over `Nat`
that it cannot enumerate.

**Only model-checked:** the liveness properties (`Settles`, `Terminates`, `Finishes`,
`Quiet`, `AllSettled`), which the prover does not handle. Every other property of a passing
run is also a theorem, under the assumptions above. What the four runs that end in a
violation show is TLC's alone: each is a counterexample.

## 5. Not modelled

- The queries `GetSocketType` and `GetNode`, which answer a constant, and the members of
  `ns3::Socket` other than `SetIpTos` that the HELIX socket does not forward (connect
  and data-sent callbacks, TTL, packet info).
- A TOS given in an address to Bind, Connect or SendTo: `SocketOptions` is about a
  connected socket whose address carries none.
- `Receive` and `ReceiveIcmp` of the L4 protocol: they change nothing, log and return.
- The topology of the examples (three nodes and two links in the large transfer,
  addresses, routes): the network is one path that keeps its order and may lose.
- `EncodePacket`, `DecodePacket`, and the Rust functions nobody calls.
- A node without UDP: `CreateSocket` would dereference a null factory there. Each example
  installs the whole Internet stack, and the guard of `CreateSocket` says so.
- An L4 protocol aggregated to something that is not yet a node
  (`model/helix-l4-protocol.cc:313`).
- Sizes, flags, TTL, TOS and source addresses of packets; logging, tracing and captures.
- The test suite and the documentation, both unfilled templates.

## 6. Plan

Done: 1. UDP, its client and the abstract socket; 2. the HELIX socket with its
refinement; 3. its proofs; 4. the node; 5. its proofs; 6. the sender of the large
transfer; 7. the other sockets of the examples; 8. socket options; 9. both examples as
whole programs over a path that loses datagrams; 10. proofs for the examples' sockets,
the sender, and the compositions; 11. proofs of what arrives at the far end
(`CountExact`, `InPattern`, `Accounted`) and of the options.

To come, in this order:

1. The callbacks of `ns3::Socket` that stop at the outer socket (connect, data
   sent), in `SocketOptions`.
2. `HelixStack` composed with `HelixSocket`, so that the life of a socket and its
   callbacks are one state; disposal during traffic.
3. An abstract datagram service (ordered, at most once, may lose) that both
   compositions implement, with the refinement proved from `MainInv` and `SInv`.
