# GTBot: TLA+ models and proofs

GTBot's proxy lets a web page talk to a Growtopia server. The page speaks
WebSocket, the server speaks ENet (a reliable protocol over UDP); between them a
Node process keeps, for each WebSocket, one ENet connection, made by a native
addon around a patched copy of the ENet library. This directory models that
process: the ENet library's connections, channels and retransmission, and the
sessions of the proxy. The modules are checked with TLC, and all the safety
properties that the passing runs check, of every module, are proved with TLAPS.

## 1. The system

Paths are relative to `src/`; `lib` is `proxy/lib`.

| Component | State it keeps | Operations | Modelled by |
|---|---|---|---|
| Peer state machine (`lib/src/protocol.c`, `peer.c`) | per slot: `state`, lists of commands outgoing and sent, acknowledgements to send, dispatched packets, `needsDispatch`, timeouts | `enet_host_connect`, `enet_peer_disconnect[_later,_now]`, `enet_peer_send`, the handlers of CONNECT, VERIFY_CONNECT, ACKNOWLEDGE, DISCONNECT, BANDWIDTH_LIMIT..., the timeouts | `EnetHost`, contract `EnetPeerLife` |
| Service loop (`protocol.c`, `host.c`) | `dispatchQueue`, `connectedPeers`, `bandwidthLimitedPeers`, `recalculateBandwidthLimits`, the event being filled in | `enet_host_service`, `enet_host_flush`, `enet_host_bandwidth_throttle` | `EnetHost` |
| Identity of connections (`protocol.c`, `peer.c`, `host.c`) | per slot: peer IDs, session IDs, `connectID`, sequence numbers | the handshake seen from both ends; the header and checksum tests of `enet_protocol_handle_incoming_commands` | `EnetHandshake` |
| Channels, reliable (`peer.c`, `protocol.c`) | sequence numbers, `reliableWindows`, `usedReliableWindows`, `incomingReliableCommands`, fragments in assembly, `dispatchedCommands` | send, transmit and retransmit, receive, acknowledge, dispatch | `ReliableChannel`, contract `ReliableFifo` |
| Channels, unreliable and unsequenced (`peer.c`, `protocol.c`) | unreliable numbers, `incomingUnreliableCommands`, `unsequencedWindow`, `totalWaitingData` | the other send commands, the dispatch of the list | `UnreliableChannel` |
| Retransmission, round trip time, throttle (`protocol.c`, `peer.c`, `time2.h`) | outgoing and sent lists, timers, `reliableDataInTransit`, `packetThrottle`, reference counts | the sending pass, `enet_protocol_check_timeouts`, the acknowledgement handler, `enet_peer_throttle` | `EnetRetransmit` |
| Bandwidth (`host.c`) | bandwidths and limits per peer | `enet_host_bandwidth_throttle` | control in `EnetHost`; arithmetic no |
| Packets, lists (`packet.c`, `list.c`) | reference counts, intrusive links | create, destroy, insert, remove, move | references in `EnetRetransmit`, `dispatchQueue` in `EnetHost` |
| Range coder (`compress.c`) | a context tree | compress, decompress | no |
| Sockets, memory (`unix.c`, `win32.c`, `callbacks.c`) | none of their own | system calls | environment of the models |
| Native client (`lib/src/client.cc`, `lib/main.cc`, `proxy/src/structs/Native.ts`) | a host of one peer, the peer | `create`, `connect`, `service`, `sendPacket`, `disconnect`, `deInit` | `ProxySession` |
| Proxy sessions (`proxy/src/structs/Proxy.ts`, `proxy/src/index.ts`) | per WebSocket: `client`, `connected`, `initialized` | message, close, the service loop, the ENet events | `ProxySession` |
| Cluster master (`proxy/src/index.ts`) | the worker's configuration | fork, log | no: workers share nothing |
| Web client (`web/`) | React state, a WebSocket | user interface, parsing of packets | no |
| CORS helper (`cors/`) | none | HTTP relay | no: stateless |

How they interact. `Proxy.ts` answers the message `INIT:ip@port@type` by making a
native client (`enet_initialize`, `enet_host_create`, `enet_host_connect`) and
starts a `setImmediate` loop that calls `enet_host_service` through
`client.cc`. The event it returns is emitted, in the same call, to the handlers
in `index.ts`, which deflate a received packet and send it, or close the
WebSocket. Any other message is inflated and given to `enet_peer_send`. The ENet
library is one thread's data: its concurrency is that of the network, of time,
and of the application's calls between two services.

What is hard here:

- *Peers.* A dozen code paths lead into and out of the live states, with two
  unsigned counters and an intrusive list kept along the way; datagrams are
  lost, repeated, late; a disconnection asked for in the middle of a handshake
  flushes the whole host before it resets the slot.
- *Connections.* Slots are reused, and a process may die and come back on its old
  port: a datagram of an earlier connection is told from one of this one by two
  bits of session ID and a checksum seeded with the connection's number.
- *Channels.* 16-bit numbers wrap; the receiver tells old from new only by its
  window, the acknowledgement is decided after the window moved, the sender
  stops at window boundaries according to counts that late acknowledgements
  change. A packet in fragments has several numbers and one place in the list.
  Unreliable packets are ordered among the reliable ones by a pair of numbers,
  and unsequenced ones are told apart by a bitmap that moves.
- *Time.* A command is in one of two lists depending on whether its timer has run
  out, and counts as in transit in one of them; the clock wraps, and the time
  in a datagram's header has 16 bits of it.
- *Sessions.* Every handler awaits zlib, whose thread pool completes in any
  order; in between, the socket or the ENet connection may end.

What makes them correct: the counters count and the queue links what they should;
no event is lost, repeated or out of order, and every connection ends; the two
ends of a connection agree about it; a channel is a FIFO and does not stall, and
never goes backwards; a peer is given up only when it has been silent; closing
either side of a session closes the other and nothing the page sent vanishes.

`PROJECT.json` lists the hazards one by one, each at its line with the properties
that would notice it going wrong.

## 2. The modules

### EnetHost

One host with `PeerCount` slots. The fields of `ENetHost` and `ENetPeer` that
decide control are one record, `host`; every C function that changes them is an
operator from the record before the call to the record after it, named like the
function (`OnConnect`, `PeerReset`, `NotifyDisconnect`, `DispatchState`...), and
an action composes the operators the handler calls. `phase` is where
`enet_host_service` is:

    idle -> dispatch1 -> throttle -> send1 -> receive -> send2 -> dispatch2 -> deliver
    idle -> flush -> idle                     (enet_host_flush, then reset)

so that the order of the phases, the early returns when an event is set, and what
one peer's step does to the others are the code's. `wantsEvent` distinguishes
calls with an event argument from those with NULL, in which a peer is queued in
`dispatchQueue` instead of being reported at once. `cursor` is the peer the
sending loop is at; `rx` the peer whose datagram is being handled: the commands of
one datagram are separate steps, and its end (`EndDatagram`) is where an event
stops the loop. `doomed` is the peer that a flush returns to reset.

| In the code | In the model |
|---|---|
| `outgoingReliableCommands` | `ready` (never sent) and `resend` (sent, timed out) |
| `sentReliableCommands` | `sent` |
| `outgoingUnreliableCommands` | `unreliable`: empty or not |
| `acknowledgements` | `acks`: of a DISCONNECT, of anything else |
| `incomingBandwidth != 0` | `limited` |
| `dispatchedCommands` | `dispatched`: how many |
| `roundTripTimeout`, `earliestTimeout` | `strikes`: timeouts since the last acknowledgement |

A reliable command is its kind: CONNECT, VERIFY_CONNECT, DISCONNECT, DATA, or
CONTROL (ping and bandwidth limit). Whether a sent command has timed out, whether
the ping or the throttle interval has passed, and whether `enet_socket_send`
fails are choices of the step. A datagram is any sequence of commands an ENet
host can send, stale and repeated ones included. `told`, `initiator` and `asked`
are history: the events the application got for the connection in a slot, who
opened it, and whether a disconnection was asked for.

`EnetPeerLife` is what an application may rely on: a slot is free, opening, open,
closing or lost; CONNECT comes with the step to open, DISCONNECT with the step to
free, and only a connection that was never open may end without a word.
`EnetHost` is shown to implement it by mapping the ten states to the five
(`LifeOf`). `enet_peer_disconnect_now` is not in the contract: it ends an open
connection silently by design, and the proxy never calls it.

### EnetHandshake

Two hosts, and all the connections between them one after another. Where
`EnetHost` lets anything arrive, here a datagram was sent: it carries the peer ID
and session ID of its header, the `connectID` its checksum was seeded with, and
one command. A datagram stays in the network for ever, so it may be lost,
repeated and late, beyond the end of its connection too, and the client may be
restarted: it then begins again with fresh peers, while the server has the old
one. `Accepts` is the chain of early returns in
`enet_protocol_handle_incoming_commands`, `NewSession` the computation of the
session IDs in `enet_protocol_handle_connect`.

Two assumptions about the world are named. `connectID`s are never repeated
(`randomSeed` is random and counts up). And the copies of a CONNECT do not outlive
the next one that is accepted (`InTime`): the session IDs of a slot come back with
its second next connection, and then an old CONNECT together with an old
acknowledgement opens a connection at the server that nobody wanted. No datagram
of any other kind needs a bound. The application always passes an event, so the
PENDING and SUCCEEDED states, `EnetHost`'s subject, are passed at once; data,
channels and pings are left out, but what they make possible, giving up a peer at
any time, is there.

### ReliableChannel

The reliable commands of one channel in one direction, sender and receiver and
the network between them. Commands are numbered from 1 without end and the code
sees only `Number(command)`, the residue that fits the sequence number; the window
arithmetic is the code's (`WindowWrap`, `InWindow`, `Acknowledgeable`, `Past`),
with its constants as parameters. Sender and receiver disagree on purpose about
how far ahead is acceptable, and the properties say what that is worth.

A packet longer than the MTU is several commands (`ends` says which are whose).
Its entry in `incomingReliableCommands` sits at the number of its first fragment
and counts `fragmentsRemaining`; when it is dispatched, the expected number moves
to that of its last one. Acceptance is judged by the first fragment's number, the
acknowledgement by each one's own.

The network is what may arrive. A copy of a command that is still outstanding may
arrive at any time: timeouts are an estimate, so the model retransmits
freely (`Arriving`); `EnetRetransmit` has the timers. A command that was
acknowledged has late copies, and an acknowledgement has them too, for `Lifetime`
more commands sent. That bound is an assumption about the network (no datagram is
older than one window of 4096 newer commands); without it no protocol with
numbers that wrap is correct. Late copies of a fragment in a later window than
the first of its packet are left out: the receiver judges them by a number that is
older than their own, and that uses up the whole margin.
The in-transit limit (`windowSize`, `packetThrottle`) is `InTransit`, and
`maximumWaitingData` is `MaximumWaiting`, both in commands. Giving the peer up is
`EnetHost`'s subject.

`ReliableFifo` is the promise of `ENET_PACKET_FLAG_RELIABLE`: a queue of packets,
each the set of its commands, delivered whole.

### UnreliableChannel

The packets of a channel that are not sent again, among the reliable ones that
are: unreliable ones, whole or in fragments, numbered after the reliable one they
follow, and unsequenced ones with their groups. `KindOf` is `enet_peer_send`'s
choice of a command for the flags and length of a packet; when the unreliable
numbers run out, it is a reliable one. Of the reliable packets this module takes
what `ReliableChannel` shows: they are dispatched in order, one or some together
(`ReceiveReliable(p)`: all up to p). Everything else may arrive in any order, twice,
or never, for `Lifetime` packets.

The loop of `enet_peer_dispatch_incoming_unreliable_commands` keeps four pointers
into the list while it moves and drops ranges of it; `DispatchOne` is its body,
with indexes for pointers, and `DispatchedFrom` what it comes to: the entries at the
places that were moved, and those that are left (`Picked`). `Waits` is what a list
counts in `totalWaitingData`. These loops are recursive functions on the places of a
list, so that they can be proved about. A fragment that
is the first of its packet to arrive is two calls in one handler: an entry is
queued, which dispatches, and the handler goes on with the entry. The behaviours
of the model stop where that entry would have been dropped in between
(`IsKept`); `FragmentUsable` says when it is not.

### EnetRetransmit

What a connected peer has to send, under a clock. The true time is `now`; the code
sees `serviceTime`, which wraps, and in an acknowledgement the lower half of the
time it sent. A pass (`Pass`) is `enet_protocol_send_outgoing_commands` for one
peer: timers first (`CheckTimeouts`, with the back-off and the decision to give
up), then the reliable commands that the window has room for, then a ping if
nothing is under way, and the unreliable commands. `HandleAcknowledge` completes
the sent time, smooths the round trip time and removes the command from whichever
list it is in. `references` holds the reference counts of the packets: each
command of a packet holds one.

Left out are the channels' windows (`ReliableChannel`) and connections that are
opening or closing (`EnetHost`). What decides whether the throttle rises or falls
is a choice of the step (`Throttles`), and so is the ping interval; the weights of
a round trip measurement, 8 and 4 in the code, are one constant. An error of the
socket is a loss. Acknowledgements get no older than `MaxDelay`, which is more
than the half of the header's range below which measurements are exact.

### ProxySession

The sessions of one worker. JavaScript has one thread, so an action is a callback
from its start to its end or to its next `await`; what interleaves is WebSocket
messages and closes, the completions of inflates and deflates, and the service
loop. Each message carries its fate (being inflated, opened the connection, sent,
refused, answered...), and each received packet too. The ENet side of a session
is an instance of `EnetPeerLife`: what `EnetHost` implements, `ProxySession`
assumes, and the two are composed through that contract. The initialization of
ENet (`enet`) is shared by all sessions of the worker.

WebSocket delivery is external (the `ws` package): what is sent to a socket that
is not open is dropped, as `ws` does. The order in which zlib's thread pool
completes is free, so packets can overtake each other on either side of a
session; no document promises otherwise, and no property does.

### Proofs

A module named `...Proofs` extends the one it is about and holds lemmas and theorems
only, with the invariants they need; section 4 goes through them.

### Slips

Operators named after another with a suffix (`OnDisconnectUnguarded`,
`EnqueueTwice`, `NewSessionUnmasked`...) are the mistakes somebody editing that
code could plausibly make: a dropped guard, a missing reset, an off-by-one. No
action uses them. `PROJECT.json` ("mutants") says which property notices which one
when it takes the place of the original.

## 3. What TLC checks

| Run | Instance | Question and answer |
|---|---|---|
| `host_pair` | 2 peers sharing the queue and the counters; calls with and without event, `disconnect_now`; packets sent reliably | Are the counters and the queue right, with one peer's flush in the middle of the other's life? Is a peer that owes an event queued (`OwedEventIsQueued`), is a free slot clean (`DisconnectedIsClean`), does a "later" disconnection always have something it waits for (`LaterIsWaiting`), are events in order and kept until returned, and does nothing come back to life? Yes. |
| `host_live` | 1 peer, both kinds of calls and of packets, with and without bandwidth, `LiveSpec` | A disconnection that was asked for completes, handshakes end, dead peers are buried, and `EnetHost` implements `EnetPeerLife`. |
| `host_answered` | 1 peer | *Violated*: finding 1. |
| `handshake` | a client of 1 peer, a server of 2; 2 connections, 1 restart of the client | Does each application hear of a connection once, the server's only if the client's did (`EstablishedOnce`)? Do two connected ends address each other (`EndsAgree`)? Does a connection end at one end only because it was ended at the other (`EndedByItsEnds`, `AcknowledgedIsOver`)? Yes, with everything that was ever sent still in the network. |
| `channel_wrap` | 6 windows of 2 numbers, 3 free; 18 commands, 3 in transit; single commands, or packets of up to 3 fragments | What the sender forgets the receiver has (`AcknowledgedIsHeld`); the windows count what is outstanding; the list is in order across the wrap; the channel implements `ReliableFifo`. |
| `channel_live` | the same windows, 14 commands, 2 in transit, `LiveSpec` | Every packet is delivered, given room for what the windows let wait (`Delivered`). |
| `unreliable` | the same windows, 4 unreliable numbers, 4 windows of 2 groups; 3 workloads of up to 23 packets | The channel never goes backwards (`SequencedInOrder`); no unsequenced packet comes twice; fragments come whole; nothing that cannot be delivered any more stays in the list (`NothingStranded`); the entry a fragment's handler queued is still there when it goes on (`FragmentUsable`). |
| `unreliable_waiting` | the same | *Violated*: finding 4. |
| `retransmit` | 2 packets, reliable ones in two fragments or unreliable ones, and a ping; the 32-tick clock wraps | The counts kept by hand are right (`Accounted`: data in transit, references, the timer, the order of the queue); round trips are measured right (`RoundTripRight`); only a silent peer is given up (`Patience`); the window never closes for good (`SendingGoesOn`). |
| `session_two` | 2 sockets, 2 messages and 2 packets, `LiveSpec` | One ENet connection per socket whatever the order of the inflates (`OneClient`); ENet is never deinitialized more often than its users allow (`InitBalanced`); closing either side closes the other (if INIT was handled before the close); what does not inflate is answered. |
| `session_closed` | 1 socket | *Violated*: finding 2. |
| `session_data` | 1 socket | *Violated*: finding 3. |

### Bounds

- *Peers.* The proxy makes hosts of one peer (`client.cc:48`); two is the least
  with which the shared queue, counters and the flush of everybody matter, and
  the proofs cover any number. Liveness is checked with one. `Sends`: with two
  peers the application sends reliably only; a peer's unreliable queue, one bit
  that nothing of another peer reads, is there with one.
- `MaxStrikes` 1: a peer is given up after timeouts in a row, so one tells
  "some" from "too many"; `MaxDispatched` 1 or 2: a packet, and one behind it.
  Both cap real counters of the code that have no such cap.
- *Commands.* At most one DATA and one CONTROL command per peer are outstanding
  in `EnetHost`: the code tests whether the lists are empty and which handshake
  command is acknowledged, never how many data commands there are.
- *Connections.* Two connections are what a stale datagram needs to do harm, two
  server slots let the second one take another slot than the first, and
  one restart puts either of them on the far side of a crash. A CONNECT is
  accepted up to `MaxCopies` = 2 times, so it can occupy both slots or the
  same slot twice.
- *Channels.* The proportions of the code (twice as many windows as free ones) with
  windows of two numbers, so a window can be half acknowledged, and three free
  ones, so that the receiver's range (two) and the refused range differ. 18
  commands go one and a half times round the 12 numbers; packets of two and three
  fragments begin at either place of a window and lie across the wrap.
  `Backlog` 1: packets that wait unsent are just more `Send`s to come. The
  workloads of `unreliable` each aim at one wrap: of the reliable numbers under
  unreliable packets, of the unreliable ones, and of the groups.
- *Time.* The clock starts 3 ticks before its wrap and goes on for 2 after it; the
  header's range (8) wraps with it and within it. The constants keep the
  order of the code's: `TimeoutMaximum` (30 s) below half the header's range (32.8 s),
  below the oldest acknowledgement that may arrive. `MaxIdle` 1: the service loop
  is called at every tick.
- *Sessions.* `OneClient` needs two messages being inflated at once; the
  initialization is the only state sockets share, and its count needs two of
  them. A connection that ended is not replaced in a session (`client` stays set).

### Fairness

- `EnetHost`: the program calls `enet_host_service` in a loop and its phases run
  to their end (weak fairness of each); calls with an event argument, which the
  loop of `client.cc` makes, occur again and again (`SF_vars(Service /\ wantsEvent')`),
  because only they dispatch. The receiving loop may be kept busy
  by datagrams but ends after 256 of them: strong fairness of `ReceiveDone`.
  Time passes: a command that stays unacknowledged is, in one of infinitely many
  passes over its peer, found expired, and in one it is sent without a socket error
  (strong fairness of `Expire` and `Sent`). The network is never fair: not one
  datagram has to arrive. `StaleSettles` excludes one behaviour only, an endless
  supply of duplicates of acknowledgements for commands long gone.
- `ProxySession`: the event loop runs every callback that is ready; `ws` completes
  a close by its own timeout; ENet connections that are opening or closing do not
  stay so, which is what `host_live` shows of the host. Neither the browser nor the
  server has to do anything.
- `ReliableChannel`: both service loops run; of what is sent again and again, one
  copy arrives (strong fairness of the copy the receiver waits for, of another one of
  the oldest command outstanding, and of the acknowledgement of the latter). For
  acknowledgements this includes that they are not all lost while more than
  FREE_RELIABLE_WINDOWS windows of commands overtake the command; see below.

### Findings

1. `enet_peer_disconnect` of a peer that is not connected yet resets it without
   the DISCONNECT event its comment promises (`peer.c:527`). `index.ts`
   deinitializes ENet and closes the socket only in that event's handler.
2. A socket that closes while its INIT is being inflated gets an ENet connection
   afterwards, which nothing disconnects, and whose loop never ends
   (`Proxy.ts:92`); PROTOCOL.md says the connection is closed with the socket.
3. Data sent after INIT and before the ENet connection is established is dropped:
   `sendPacket` ignores the -1 of `enet_peer_send` (`client.cc:125`), and the page
   is not told when the connection is there.
4. `totalWaitingData` grows when a packet is queued and shrinks when the
   application takes it (`peer.c:248`), not when the dispatch drops it
   (`peer.c:275`): every dropped unreliable packet takes its size from
   `maximumWaitingData` for the rest of the connection.

Met on the way and not among the runs:

- Packets that wait for a missing one can fill `maximumWaitingData`, and then the
  missing one, the only one that would make room, is refused for ever
  (`peer.c:937`). With the default of 32 MB this takes a packet that is lost
  again and again while 32 MB behind it arrive. `Delivered` is checked with a
  limit that the windows cannot fill.
- The sender may get FREE_RELIABLE_WINDOWS windows past a command, but at exactly
  that distance the receiver refuses to acknowledge it again (`peer.c:600`), so a
  command whose acknowledgements were all lost during 32768 commands times the
  peer out although it was delivered.
- A reliable fragment in the window after that of its packet's first one is taken
  or refused by the latter: it has one window less of margin against its own late
  copies than `Lifetime` gives every other command.
- With two incomplete unreliable packets of the same reliable number in the list,
  the dispatch within `enet_peer_queue_incoming_command` can drop the entry that
  the fragment's handler then goes on with; `FragmentUsable` is stated up to that.
- A packet that lies in three windows goes beyond what the receiver can tell by
  the number of the packet's first command: a stale fragment in the window after next
  looks new and is queued as a packet of its own, ahead of the real one. With windows
  of two numbers and a packet of four fragments TLC finds `ListInOrder` broken. In
  the code this takes more than 4097 fragments, some 5.6 MB at the default MTU,
  where `maximumPacketSize` allows 32 MB. No packet of the runs is that long,
  and `ShortPackets` is the assumption of the proofs.
- `EstablishedOnce` fails with `MaxCopies` 3: a slot that accepts one CONNECT three times has
  the session IDs of the first time again, and an acknowledgement of the first answer
  then establishes the third.
- The comment on the throttle (`peer.c:30`) says that at 0 all unreliable packets are
  dropped; the counter is compared with `>` (`protocol.c:1358`) and passes 0
  once in 32 steps of 7, so one packet in 32 is sent.
- A throttled packet takes with it every following command of the same numbers
  (`protocol.c:1374`), so that its fragments go together; unsequenced packets all
  have the numbers (0, 0), and neighbours of a dropped one go too.
- `nextTimeout` is the expiry of the first command in the list, not the
  earliest: a fresh command behind one that has backed off is sent again late. And
  `earliestTimeout` takes 0 for "none", so a command that was sent at clock 0 does not
  set it. Both delay giving up, and `Patience` is about the opposite.
- The comment of `deInit` (`Native.ts`) says to call it when the process
  quits, while `index.ts` calls it at every disconnection: `InitBalanced` shows why
  that does no harm. `socket.data.connected` is never reset, so the loop of a dead
  session runs on.

## 4. What is proved

For every value of the constants that the named assumptions of a module allow, so for
any number of peers, sockets, commands, windows and copies, and any range of the
clock. Where a theorem needs more, that is its hypothesis (`FewCopies`, `ShortPackets`,
`GroupsLast`, `Fits`, `~ Aborts`), and this section says why. The instances of the
runs satisfy these, except where it says otherwise.

| Module | Theorem | Statement |
|---|---|---|
| `EnetHostProofs` | `Invariant` | `Spec => []IInv` |
| | `TypeCorrect` | `Spec => []TypeOK` |
| | `ConnectedPeersExact` | `Spec => []ConnectedCount` |
| | `LimitedPeersExact` | `Spec => []LimitedCount` |
| | `DispatchQueueExact` | `Spec => []DispatchQueueLinked` |
| `EnetHostSafetyProofs` | `Safety` | `Spec => []Safe` |
| | `NoEventForgotten` | `Spec => []OwedEventIsQueued` |
| | `ReusedSlotIsClean` | `Spec => []DisconnectedIsClean` |
| | `LaterAlwaysWaits` | `Spec => []LaterIsWaiting` |
| | `EventsInOrder` | `Spec => []EventOrder` |
| | `EventsKept` | `Spec => EventKept` |
| | `NoneResurrected` | `Spec => NoResurrection` |
| | `HostImplementsLife` | `Spec => ImplementsLife`, if `~ Aborts` |
| `EnetHandshakeProofs` | `Invariance` | `Spec => []IInv`, if `FewCopies`, as all below |
| | `TypeCorrect` | `Spec => []TypeOK` |
| | `HeardOnce` | `Spec => []EstablishedOnce` |
| | `EndsStayInStep` | `Spec => []EndsAgree` |
| | `EndedByOneOfThem` | `Spec => []EndedByItsEnds` |
| | `AcknowledgedMeansOver` | `Spec => AcknowledgedIsOver` |
| `ReliableDeliveryProofs` | `Invariance` | `Spec => []IInv`, if `ShortPackets`, as all below |
| | `TypeCorrect` | `Spec => []TypeOK` |
| | `WindowsAreCounted` | `Spec => []WindowsCounted` |
| | `NothingForgotten` | `Spec => []AcknowledgedIsHeld` |
| | `ListStaysInOrder` | `Spec => []ListInOrder` |
| | `ChannelImplementsFifo` | `Spec => ImplementsFifo` |
| `UnreliableChannelProofs` | `ChannelTypes` | `Spec => []TypeOK` |
| | `DispatchedWhole` | `Spec => []Whole` |
| | `DeliveredOnce` | `Spec => []UnsequencedOnce`, if `GroupsLast` |
| | `DeliveredInOrder` | `Spec => []SequencedInOrder`, if `Fits(m)` for some `m`, as below |
| | `StillDeliverable` | `Spec => []NothingStranded` |
| | `FragmentsUsable` | `Spec => []FragmentUsable` |
| `ProxySessionProofs` | `Invariance` | `Spec => []IInv` |
| | `TypeCorrect` | `Spec => []TypeOK` |
| | `OneClientPerSocket` | `Spec => []OneClient` |
| | `InitStaysBalanced` | `Spec => []InitBalanced` |
| `EnetRetransmitProofs` | `Invariance` | `Spec => []IInv` |
| | `AccountedAlways` | `Spec => []Accounted` |
| | `RoundTripsRight` | `Spec => []RoundTripRight` |
| | `Patient` | `Spec => Patience` |
| | `GoesOn` | `Spec => SendingGoesOn` |

### The host: what it counts and links (`EnetHostProofs`)

Assumed are only the named assumptions of `EnetHost`: there is at least one peer,
the bounds are natural numbers (`MaxStrikes` positive), the sets of call
arguments are sets of Booleans.

None of the properties is inductive by itself, and none can be proved apart from the
others. That `connectedPeers` stays a natural number (it is unsigned in the code)
when a peer leaves a live state needs that it counts that peer. Removing a peer
from `dispatchQueue` keeps the queue a sequence without duplicates, but that it
removes *the* link, so `needsDispatch` may be cleared, needs that the
queue has exactly one. So one predicate on the record is proved,

    Consistent(h) == h \in HostType /\ Counted(h) /\ Linked(h)

for every C function the model has, bottom up: from `enet_list_insert` and
`enet_list_remove` on the queue and joining or leaving a set of peers, by way of
`ChangeState`, `DispatchState`, `PeerReset` and the notify functions, to the
handlers. The invariant of the specification,

    IInv == Consistent(host) /\ Control

adds the types of the control variables and `phase = "flush" => doomed \in Peers`:
at the end of a flush a peer is reset, and it has to be one. The step is then one
lemma per action, each citing the functions it calls.

### The host: what becomes of a peer (`EnetHostProofs`, `EnetHostSafetyProofs`)

The last part of `EnetHostProofs` looks into the record a second time: `Slot(h, p)`
is the `ENetPeer` of p, and `Changes(h, g, p, v, e)` says that from h to g only p's
slot changes, to v, and the event becomes e. Each function of the model is shown to
be such a change, with v and e computed from p's slot alone. From then on everything
is about one slot. The invariant of `EnetHostSafetyProofs` adds three parts:

- `Sound`: what every slot satisfies whatever the phase. A peer that owes an event is
  queued, a free one is empty, one in DISCONNECT_LATER has something that leaves or is
  acknowledged. The last depends on each function that takes a command from a list
  putting it in another or acting on its going.
- `Held`: what the phase says. An event is set only in the phases between the step
  that sets it and the return (this is `EventKept`); a flush ends in the reset of a
  peer that waits for it.
- `Heard`: what the history of each connection can be in each state of its peer. It
  follows from a relation on states, not from the record: every step moves at most one
  peer along `Evolves`, the state diagram with the event each edge reports, or
  `Opened` for a new connection. `EventOrder`, `NoResurrection` and the refinement are
  proved from the diagram.

`HostImplementsLife` maps each edge of the diagram to a step of `EnetPeerLife` or to a
stutter. It assumes that the application does not call `enet_peer_disconnect_now`
(`~ Aborts`), which is not in the contract and which nothing in the proxy calls.

### The handshake (`EnetHandshakeProofs`)

The network keeps every datagram, so the invariant has to say what each of them means
for ever: a DISCONNECT or what answers it is about a connection some end has ended; an
acknowledgement of the second command of a connection (there are never more than two)
came from an end that had left (`SettledFits`); a CONNECT names the only peer that can
have its `connectID` (`ConnectFits`). With what the fields of a peer say of each other
(`PeerFits`), `EndedByItsEnds` and `AcknowledgedIsOver` follow.

That two ends agree needs more, because a CONNECT may be accepted twice, in the same
slot or in another, and then two answers with different slots and session IDs are under
way. The client adopts the first that arrives and speaks in no other (`OneVoice`,
`Voice`: what the client has said or will say, where, and under which session ID); a slot
that has one session ID of a connection has one other (`OneOffer`, `Offer`); and a slot
becomes connected only because the client has spoken to it (`Confirmed`). The slot a
CONNECT was accepted in last still has the IDs of that time, be it free again
(`LatestFits`); the IDs it gets for the second copy therefore differ, so that what the
client said to the first is not taken for something said to the second (`Deaf`): that is
`EstablishedOnce`. Most actions begin no connection; for them all of this is proved once, of any
step in which peers only leave or stay what they are (`Fading`).

`FewCopies` is `MaxCopies <= 2`. It is needed: at the third copy a slot is back at the
session IDs of the first (there are four, and one step skips one), and TLC then shows
`EstablishedOnce` violated by a late acknowledgement. It is the remark on `InTime` within one
connection.

### The reliable channel (`ReliableChannelProofs`, `ReliableDeliveryProofs`)

The model counts commands without bound and the code sees `Number(command)`, its 16
bits. `ReliableChannelProofs` relates the two: `Span` and `Round` are the window and the
wrap a command would have if numbers did not, and two commands less than one round
apart have different numbers. So the invariant has to bound how far apart things are:
what is outstanding, what is late in the network, what the acknowledgements under way
name (`OutstandingNear`, `LateNear`, `AcksNear`), and how far the receiver is behind,
which is at most FREE_RELIABLE_WINDOWS windows because the sender stops there
(`ReceiverNear`). `WindowsCounted` is in this invariant: the
windows are what stops the sender, and the number in an acknowledgement decides
which of them is decreased.

On the receiver's side, `Listed` says that the list has packets the application does not have,
each once, in the order of sending, and counts the fragments that miss; `Waits` that its
head is not the next one or is incomplete; the last conjunct that what was
acknowledged is in the list or was delivered (`Has`). The code finds the place of a
command by comparing wrapped numbers, from whichever end of the list is nearer; it is shown
to be the place in the order of sending (`SameNumber`, `AheadOf`, `PastIsAfter`,
`PositionOf`). `ChannelImplementsFifo` then maps the list of packets the application does not
have to the queue of `ReliableFifo` (`Pending`), and each dispatch of a run of k packets to
their delivery.

`ShortPackets`: no packet has more than a window's commands and one. It is needed, and is the
remark on long packets in section 3. The workloads of both runs have it.

### The unreliable packets (`UnreliableChannelProofs`)

The invariant has five parts, each proved from those before it. The first three need no
hypothesis:

- `PacketsInv`: what the sender's numbers are. Of two packets the later one has the
  greater pair of numbers, or the greater group (`Follows`); the kind of a packet goes with
  its numbers and length (`Formed`).
- `ListsInv`: what the two lists may have (`Waiting`, `Done`), and that `totalWaitingData` is
  at least what both count. It is not equal, that is finding 4; but since it is never
  less, taking a packet never makes the unsigned counter go below zero. `TypeOK` and
  `Whole` follow.
- `GroupInv`: the group and the bitmap are in their ranges.

The loop of `enet_peer_dispatch_incoming_unreliable_commands` is the difficulty of
`NothingStranded` and `FragmentUsable`, and is settled once: `LoopInv` says what its four
pointers are after any number of entries, `DispatchedIs` what comes out. The loop ends before
the first entry that is still ahead (`Ahead`); what is moved is what is complete or
unsequenced before that end (`Passes`); what is left before the end lacks fragments
(`Lacks`), and if nothing but such entries lies before the end, and at most two of them,
nothing is dropped. The last is `FirstKept`, from which `FragmentsUsable`
follows: with fewer than two other incomplete packets, the entry just queued is kept.

`OnceInv` is `UnsequencedOnce` with its reason (`Barred`): for every packet
that was received and of which copies may still arrive, the receiver's window is that
of a group that was sent and is not before the packet's; and if it is the packet's own, the
packet's bit is set. A packet whose window the receiver has left is refused
(`BarredOut`): its group, less than a round behind, looks too far ahead. That is true
as long as it is not so far behind that it comes round to the free windows:

    GroupsLast == Lifetime <= (UnsequencedWindows - FreeUnsequencedWindows)
                                 * UnsequencedWindowSize + 1

which is 32769 packets with the constants of the code. The bound is exact: on the
run's instance it is 5, and with `Lifetime` 6 TLC finds `UnsequencedOnce` violated.

`OrderInv` is `SequencedInOrder` with its reason. What is in `commands` is ahead of the
receiver's two numbers, and within the windows it accepts (`Awaits`), in the order of
sending (`Ordered`); what is dispatched or was delivered is not (`Behind`). The code has
only residues of the reliable numbers: `WindowTells` and `OrderTells` show that the
comparisons of `InWindow`, `Late` and `Past` tell the order of the numbers behind them, if these
are close enough; then a copy of what the receiver is past is late (`NotLate`), and the search from
the end of the list finds the place in the order of sending (`PastIs`, `InsertedFits`). That
they are close enough is `Near(m)`, from

    Fits(m) == no packet is longer than m, InTransit + m <= Room, and
               Lifetime * m <= Room + m
    Room    == (ReliableWindows - FreeReliableWindows + 1) * ReliableWindowSize

The receiver takes FREE_RELIABLE_WINDOWS - 1 windows from its own on for new, and `Room`,
36864 with the constants of the code, is the rest of the round: what is further back
than that looks new. The sender is less than InTransit + m ahead of the receiver, and a
packet that is still alive at most (Lifetime - 1) packets of m commands behind the sender.
The run has m = 2 and Room = 8. The invariants were checked with TLC on the
instance of the run `unreliable` before they were proved.

As in `EnetRetransmitProofs`, that the recursive functions exist and take their steps is
one lemma (`Loop`), and an induction over their index another (`Stepwise`).

### The sessions (`ProxySessionProofs`)

`OneClient` is inductive with `ClientFirst`. `InitBalanced` is about a counter that all
sessions share: `enet` is at least the number of connections that are in use or whose
disconnection is being reported, and at most the number of those ever opened (`Counted`),
with cardinalities of finite sets (`SocketsAssumption`). Between a disconnection and
`deInit` the connection is over and still counted; `EndedIsFree` says which ones those are.

### Retransmission (`EnetRetransmitProofs`)

`RoundTripRight` is arithmetic: of the sent time the code has the residue modulo `Half`,
of its own time the one modulo `Clock`, and `Half` divides `Clock`. `Measurement` shows
that what comes out is the round trip modulo `Half`, or that the acknowledgement seems to
come from the future, and then the round trip is at least half of `Half`; so below
that it is exact, and never too long.

The rest is one invariant about the record (`Fits`) and the references:

- What the lists can have. A command in `sent` has been sent at some time not before it
  was first sent, and `sentTime` is that time modulo `Clock`; one in `outgoing` may have
  been sent, and those that have are in front (`FirstAgain`, which is `RetransmitsFirst`).
- `Counted` and `Timed` are `InTransitExact` and `TimerExact`.
- `EarliestFits`: a non-zero `earliestTimeout` is the residue of a time at which something
  was sent that was first sent no later than that and is still in one of the lists. That is why
  acknowledging anything has to clear it, and `Patience` follows: the difference of
  two times on the clock is at most their true difference, however often it wraps
  (`DifferenceAtMost`), as long as `TimeoutMinimum` is not above `Overflow`.
- Each packet has as many references as commands. The length of a list and what it
  holds of a packet are both measures (`Measure`): additive over the commands, so what
  is taken out of a list and what is left make up the whole (`MeasureOfParts`).

The model's loops over lists are recursive functions on the indexes of the list. That each
such function exists and takes the steps it says it takes is one lemma (`Loop`), from which
`LengthLoop`, `ThoseLoop`, `SendReliableLoop` and `EarliestLoop` follow; what a loop does
to the invariant is an induction over the index (`Stepwise`). `PassResult` is then what
a whole pass does, and its last conjunct, that something is in `sent` if anything is left in
`outgoing`, is `SendingGoesOn`: the first packet always fits when nothing is in transit
(`RoomIsEnough`). `IInv` was checked with TLC on the instance of the run `retransmit`
before it was proved.

Of the constants the proofs assume what the code's have: `Half` is even and divides
`Clock` (2^16 and 2^32), `Overflow` (a day) is at least `Half` and leaves `Half` to the
end of the clock, and a fragment is no longer than the MTU, which is the unit.
`TimeoutMinimum` is at most `TimeoutMaximum`, as in the defaults, which the proxy does not change.

### What stays with TLC

- Liveness and everything under fairness: `DisconnectCompletes`, `HandshakeEnds`,
  `ZombieIsBuried`, `CloseEndsEnet`, `EnetEndsSocket`, `FailureAnswered` and `Delivered`.
  It is out of the prover's reach.
- What `EnetHost` promises when `enet_peer_disconnect_now` is called: `ImplementsLife`
  does not hold then, and no run says so.
- The runs that expect a violation.

## 5. Not modelled

- The range coder (`compress.c`): an adaptive arithmetic coder whose correctness is that
  decoding inverts encoding for every input. That is a statement about symbol trees
  built byte by byte, which bounded inputs do not approach and which, as an
  induction over data, is out of the prover's reach. Nothing else depends on
  it: a datagram that does not decode is dropped, and the network may drop any.
- `unix.c`, `win32.c`, `callbacks.c`: system calls. Allocation does not fail.
- The arithmetic of `enet_host_bandwidth_throttle`: without bandwidth limits, which
  the proxy does not set, it computes nothing; who is told of a limit and when is
  in `EnetHost`.
- Data: the layout of datagrams, the checksum's polynomial, the generic
  intrusive lists (sequences here), packet resizing.
- `enet_host_broadcast`, `enet_host_bandwidth_limit`, `enet_host_channel_limit`,
  `enet_host_check_events`, `enet_host_destroy`, `toggleProtocol`, `disconnectNow`:
  the proxy calls none of them.
- The web client, which keeps no protocol state beyond its open WebSocket; the
  cluster master, which logs; the CORS helper, which is stateless.

## 6. Plan

Done, in this order: `EnetHost` and its contract `EnetPeerLife`; `ProxySession`
over that contract; the invariant of `EnetHost`; `ReliableChannel` and its contract
`ReliableFifo`, later with packets in fragments; `UnreliableChannel`;
`EnetHandshake`; `EnetRetransmit`.

Then the proofs: `EnetHost`, counters and queue first, the slots and the refinement of
`EnetPeerLife` after them; `ProxySession`; `ReliableChannel` with the refinement of
`ReliableFifo`; `EnetHandshake`; `EnetRetransmit`; `UnreliableChannel`.

No invariant or action property of a passing run is left unproved. What is left is what
section 4 leaves to TLC, and the composition below.

`EnetHandshake` and `EnetHost` overlap in the state machine of a peer. A single
module of two whole `EnetHost` records and a network of datagrams would contain both,
but two peers' event machinery alone has the states of `host_pair`.

## 7. Running it

    tlc -config MCEnetHostPair.cfg MCEnetHost.tla
    tlapm EnetHostProofs.tla            # counters, dispatch queue, one slot
    tlapm EnetHostSafetyProofs.tla      # events, slots, refinement
    tlapm EnetHandshakeProofs.tla
    tlapm ReliableChannelProofs.tla     # numbers and windows
    tlapm ReliableDeliveryProofs.tla    # the channel, refinement
    tlapm UnreliableChannelProofs.tla
    tlapm ProxySessionProofs.tla
    tlapm EnetRetransmitProofs.tla

`PROJECT.json` names the module and the configuration of each run and, under "map",
the source lines each definition stands for.
