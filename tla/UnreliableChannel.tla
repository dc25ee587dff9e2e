-------------------------- MODULE UnreliableChannel --------------------------
(***************************************************************************)
(* The packets of an ENet channel that are not sent again                  *)
(* (proxy/lib/src/{protocol,peer}.c): unreliable ones, whole or in         *)
(* fragments, which are numbered after the reliable packet they follow,    *)
(* and unsequenced ones, which have a group of their own.                  *)
(*                                                                         *)
(* The packets of the sender are 1, 2, 3... in the order of                *)
(* enet_peer_send.  The reliable ones among them are what ReliableChannel  *)
(* shows: each is dispatched once, in order, some of them together.  All   *)
(* others may be lost (the throttle of the sender included), repeated, and *)
(* overtake each other, as long as no datagram is older than Lifetime more *)
(* packets.  Both peers are connected and stay so.                         *)
(*                                                                         *)
(* Operators named after another with a suffix are slips that the          *)
(* properties must notice; no action uses them.                            *)
(***************************************************************************)
EXTENDS Naturals, FiniteSets, SequencesExt

CONSTANTS
    ReliableWindows,        \* ENET_PEER_RELIABLE_WINDOWS (16)
    ReliableWindowSize,     \* ENET_PEER_RELIABLE_WINDOW_SIZE (4096)
    FreeReliableWindows,    \* ENET_PEER_FREE_RELIABLE_WINDOWS (8)
    UnsequencedWindows,     \* windows of unsequenced groups (64)
    UnsequencedWindowSize,  \* ENET_PEER_UNSEQUENCED_WINDOW_SIZE (1024)
    FreeUnsequencedWindows, \* ENET_PEER_FREE_UNSEQUENCED_WINDOWS (32)
    MaximumUnreliable,      \* the last unreliable sequence number (0xFFFF)
    MaximumWaiting,         \* host -> maximumWaitingData, in fragments
    InTransit,              \* bound: reliable commands sent and not dispatched
    Lifetime,               \* bound: age of a datagram, in packets sent since
    Workloads               \* bound: what the application sends: the flags and
                            \* the lengths of packets, in fragments

Flags == {"RELIABLE", "NONE", "UNSEQUENCED", "UNRELIABLE_FRAGMENT"}

ASSUME WindowsAssumption ==
    /\ ReliableWindowSize \in Nat \ {0} /\ UnsequencedWindowSize \in Nat \ {0}
    /\ FreeReliableWindows \in Nat \ {0, 1}
    /\ FreeUnsequencedWindows \in Nat \ {0}
    /\ ReliableWindows \in Nat /\ ReliableWindows >= 2 * FreeReliableWindows
    /\ UnsequencedWindows \in Nat
    /\ UnsequencedWindows >= 2 * FreeUnsequencedWindows
    /\ MaximumUnreliable \in Nat \ {0} /\ MaximumWaiting \in Nat \ {0}
ASSUME BoundsAssumption ==
    /\ InTransit \in Nat \ {0} /\ Lifetime \in Nat
    /\ Workloads \subseteq Seq([flags : Flags, length : Nat \ {0}])

Number(n) == n % (ReliableWindows * ReliableWindowSize)
Window(number) == number \div ReliableWindowSize
Groups == UnsequencedWindows * UnsequencedWindowSize

VARIABLES
    workload,   \* the packets that will be sent
    packets,    \* those that were, with their numbers (ENetOutgoingCommand)
    reliables,  \* the reliable commands dispatched: the low bits of this are
                \* incomingReliableSequenceNumber
    incomingUnreliable,     \* incomingUnreliableSequenceNumber
    commands,               \* incomingUnreliableCommands
    incomingGroup,          \* incomingUnsequencedGroup
    unsequencedWindow,      \* the indexes whose bit is set
    totalWaitingData,
    dispatched, \* dispatchedCommands: entries of commands, and reliable packets
    newest,     \* the newest packet the application got, of the sequenced ones
    taken       \* the unsequenced ones it got, as long as copies may arrive

receiver == <<reliables, incomingUnreliable, commands, incomingGroup,
              unsequencedWindow, totalWaitingData, dispatched>>
vars == <<workload, packets, receiver, newest, taken>>

Kinds == {"SEND_RELIABLE", "SEND_UNRELIABLE", "SEND_UNRELIABLE_FRAGMENT",
          "SEND_UNSEQUENCED"}

\* reliable counts the reliable commands up to this one (a reliable packet in
\* fragments is as many); group, the unsequenced ones.
OutgoingCommands ==
    [kind : Kinds, length : Nat \ {0}, reliable : Nat,
     unreliable : 0 .. MaximumUnreliable, group : Nat]

IncomingCommands ==
    [packet : Nat \ {0}, fragments : SUBSET Nat, fragmentsRemaining : Nat]

TypeOK ==
    /\ workload \in Workloads
    /\ packets \in Seq(OutgoingCommands)
    /\ reliables \in Nat
    /\ incomingUnreliable \in 0 .. MaximumUnreliable
    /\ commands \in Seq(IncomingCommands)
    /\ incomingGroup \in 0 .. Groups - 1
    /\ incomingGroup % UnsequencedWindowSize = 0
    /\ unsequencedWindow \subseteq 0 .. UnsequencedWindowSize - 1
    /\ totalWaitingData \in Nat
    /\ dispatched \in Seq(IncomingCommands)
    /\ newest \in 0 .. Len(packets) /\ taken \subseteq 1 .. Len(packets)

\* enet_peer_reset and enet_host_connect
Init ==
    /\ workload \in Workloads
    /\ packets = <<>>
    /\ reliables = 0 /\ incomingUnreliable = 0 /\ commands = <<>>
    /\ incomingGroup = 0 /\ unsequencedWindow = {}
    /\ totalWaitingData = 0 /\ dispatched = <<>>
    /\ newest = 0 /\ taken = {}

-----------------------------------------------------------------------------
(***************************************************************************)
(* The sender.                                                             *)
(***************************************************************************)

\* What enet_peer_send makes of a packet's flags: unreliable numbers run out.
KindOf(packet, unreliable) ==
    CASE packet.length > 1 /\ packet.flags = "UNRELIABLE_FRAGMENT"
             /\ unreliable < MaximumUnreliable -> "SEND_UNRELIABLE_FRAGMENT"
      [] packet.length = 1 /\ packet.flags = "UNSEQUENCED" -> "SEND_UNSEQUENCED"
      [] packet.length = 1 /\ packet.flags \in {"NONE", "UNRELIABLE_FRAGMENT"}
             /\ unreliable < MaximumUnreliable -> "SEND_UNRELIABLE"
      [] OTHER -> "SEND_RELIABLE"

\* The packets sent up to now, in numbers: outgoingReliableSequenceNumber,
\* outgoingUnreliableSequenceNumber and outgoingUnsequencedGroup.
Outgoing ==
    IF packets = <<>> THEN [reliable |-> 0, unreliable |-> 0, group |-> 0]
    ELSE packets[Len(packets)]

\* enet_peer_setup_outgoing_command
Numbered(kind, length) ==
    [kind |-> kind, length |-> length,
     reliable |-> Outgoing.reliable
                     + (IF kind = "SEND_RELIABLE" THEN length ELSE 0),
     unreliable |-> CASE kind = "SEND_RELIABLE" -> 0
                      [] kind = "SEND_UNSEQUENCED" -> Outgoing.unreliable
                      [] OTHER -> Outgoing.unreliable + 1,
     group |-> Outgoing.group + (IF kind = "SEND_UNSEQUENCED" THEN 1 ELSE 0)]

Alive(p) == Len(packets) - p < Lifetime

\* enet_peer_send
Send ==
    /\ Len(packets) < Len(workload)
    /\ Outgoing.reliable - reliables < InTransit
    /\ LET packet == workload[Len(packets) + 1]
       IN  packets' = Append(packets, Numbered(KindOf(packet, Outgoing.unreliable),
                                               packet.length))
    /\ taken' = {p \in taken : Len(packets) + 1 - p < Lifetime}
    /\ UNCHANGED <<workload, receiver, newest>>

-----------------------------------------------------------------------------
(***************************************************************************)
(* The lists of the receiver.                                              *)
(***************************************************************************)

\* The numbers of an entry.  Those of an unsequenced command are 0.
IsUnsequenced(entry) == packets[entry.packet].kind = "SEND_UNSEQUENCED"
Reliable(entry) ==
    IF IsUnsequenced(entry) THEN 0 ELSE Number(packets[entry.packet].reliable)
Unreliable(entry) ==
    IF IsUnsequenced(entry) THEN 0 ELSE packets[entry.packet].unreliable

\* Whether a reliable number is taken for one still to come.
InWindow(number, incoming) ==
    LET window == Window(number)
                      + (IF number < incoming THEN ReliableWindows ELSE 0)
    IN  window < Window(incoming) + FreeReliableWindows - 1

\* The loop of enet_peer_dispatch_incoming_unreliable_commands is at list[i]:
\* start and dropped are startCommand and droppedCommand, moved is what was
\* moved to dispatchedCommands, end is where the loop ends.
Moved(loop, i) ==
    IF loop.start = i THEN loop.moved ELSE loop.moved \cup loop.start .. i - 1

DroppedAtIncompleteSelf(loop, i) ==
    IF loop.start # i \/ loop.dropped # i THEN i ELSE loop.dropped

DroppedAtIncomplete(loop, i) ==
    IF loop.start # i THEN i
    ELSE IF loop.dropped # i THEN i - 1 ELSE loop.dropped

DispatchOne(list, incoming, loop, i) ==
    LET entry == list[i]
    IN  CASE IsUnsequenced(entry) -> loop
          [] ~IsUnsequenced(entry) /\ Reliable(entry) = incoming ->
                IF entry.fragmentsRemaining = 0
                THEN [loop EXCEPT !.unreliable = Unreliable(entry)]
                ELSE [loop EXCEPT !.moved = Moved(loop, i),
                                  !.dropped = DroppedAtIncomplete(loop, i),
                                  !.start = i + 1]
          [] ~IsUnsequenced(entry) /\ Reliable(entry) # incoming ->
                IF InWindow(Reliable(entry), incoming)
                THEN [loop EXCEPT !.end = i]
                ELSE [loop EXCEPT !.moved = Moved(loop, i),
                                  !.dropped = i + 1, !.start = i + 1]

DroppedAtEndStale(loop) == loop.dropped

DroppedAtEnd(loop) == IF loop.start # loop.end THEN loop.end ELSE loop.dropped

\* The entries of a list at some of its places, in their order.
Picked(list, places) ==
    LET picked[i \in 0 .. Len(list)] ==
            IF i = 0 THEN <<>>
            ELSE IF i \in places THEN Append(picked[i - 1], list[i])
            ELSE picked[i - 1]
    IN  picked[Len(list)]

\* After the loop: what was moved, and what is left of the list.  What is
\* dropped is freed; totalWaitingData keeps it.
DispatchedFrom(list, incoming, unreliable) ==
    LET n == Len(list)
        loop[i \in 0 .. n] ==
            IF i = 0
            THEN [start |-> 1, dropped |-> 1, moved |-> {}, end |-> n + 1,
                  unreliable |-> unreliable]
            ELSE LET before == loop[i - 1]
                 IN  IF before.end < i THEN before
                     ELSE DispatchOne(list, incoming, before, i)
        moved == Moved(loop[n], loop[n].end)
        left == {i \in DroppedAtEnd(loop[n]) .. n : i \notin moved}
    IN  [moved |-> Picked(list, moved), left |-> Picked(list, left),
         unreliable |-> loop[n].unreliable]

DispatchUnreliable(list) ==
    LET result == DispatchedFrom(list, Number(reliables), incomingUnreliable)
    IN  /\ commands' = result.left
        /\ dispatched' = dispatched \o result.moved
        /\ incomingUnreliable' = result.unreliable

\* The search from the end of the list goes past an entry.
Past(entry, reliable, unreliable) ==
    LET incoming == Number(reliables)
        later == \/ Reliable(entry) > reliable
                 \/ Reliable(entry) = reliable /\ Unreliable(entry) > unreliable
    IN  IF reliable >= incoming THEN Reliable(entry) < incoming \/ later
        ELSE Reliable(entry) < incoming /\ later

Position(reliable, unreliable) ==
    Max({0} \cup {i \in DOMAIN commands : ~Past(commands[i], reliable, unreliable)})

IsQueued(reliable, unreliable) ==
    LET i == Position(reliable, unreliable)
    IN  /\ i # 0
        /\ Reliable(commands[i]) = reliable
        /\ Unreliable(commands[i]) = unreliable

LateReliableOnly(reliable, unreliable) == ~InWindow(reliable, Number(reliables))

\* Too old, or not of the windows that are still to come.
Late(reliable, unreliable) ==
    \/ ~InWindow(reliable, Number(reliables))
    \/ reliable = Number(reliables) /\ unreliable <= incomingUnreliable

-----------------------------------------------------------------------------
(***************************************************************************)
(* The handlers of the receiver.                                           *)
(***************************************************************************)

Entry(p, fragments) ==
    [packet |-> p, fragments |-> fragments,
     fragmentsRemaining |-> packets[p].length - Cardinality(fragments)]

\* What the packets of a list count in totalWaitingData.
Waits(list) ==
    LET waits[i \in 0 .. Len(list)] ==
            IF i = 0 THEN 0 ELSE waits[i - 1] + packets[list[i].packet].length
    IN  waits[Len(list)]

\* enet_peer_dispatch_incoming_reliable_commands moves the reliable packets up
\* to p, and then looks at the unreliable list, once.
ReceiveReliable(p) ==
    LET whole == [q \in DOMAIN packets |-> Entry(q, 1 .. packets[q].length)]
        next == Picked(whole, {q \in DOMAIN packets :
                                  /\ packets[q].kind = "SEND_RELIABLE"
                                  /\ reliables < packets[q].reliable
                                  /\ packets[q].reliable <= packets[p].reliable})
        result == DispatchedFrom(commands, Number(packets[p].reliable), 0)
    IN  /\ packets[p].kind = "SEND_RELIABLE" /\ reliables < packets[p].reliable
        /\ totalWaitingData < MaximumWaiting
        /\ totalWaitingData' = totalWaitingData + Waits(next)
        /\ reliables' = packets[p].reliable
        /\ commands' = result.left
        /\ dispatched' = dispatched \o next \o result.moved
        /\ incomingUnreliable' = result.unreliable
        /\ UNCHANGED <<workload, packets, incomingGroup, unsequencedWindow, newest,
                       taken>>

Arrives(p, kind) == p \in DOMAIN packets /\ Alive(p) /\ packets[p].kind = kind

\* enet_protocol_handle_send_unreliable.  What is late, or queued already, is
\* discarded; what finds no room is in error.
ReceiveUnreliable(p) ==
    /\ Arrives(p, "SEND_UNRELIABLE")
    /\ LET reliable == Number(packets[p].reliable)
           unreliable == packets[p].unreliable
       IN  /\ ~Late(reliable, unreliable) /\ ~IsQueued(reliable, unreliable)
           /\ totalWaitingData < MaximumWaiting
           /\ totalWaitingData' = totalWaitingData + 1
           /\ DispatchUnreliable(InsertAt(commands,
                                          Position(reliable, unreliable) + 1,
                                          Entry(p, {1})))
    /\ UNCHANGED <<workload, packets, reliables, incomingGroup, unsequencedWindow,
                   newest, taken>>

CopiedAgain(entry, fragment) ==
    [entry EXCEPT !.fragments = @ \cup {fragment}, !.fragmentsRemaining = @ - 1]

\* A fragment is copied into its packet, unless it was before.
Copied(entry, fragment) ==
    IF fragment \in entry.fragments THEN entry
    ELSE [entry EXCEPT !.fragments = @ \cup {fragment}, !.fragmentsRemaining = @ - 1]

\* The first fragment of a packet to arrive queues an entry, and the dispatch
\* that enet_peer_queue_incoming_command ends with may drop it at once.
QueuedFor(p) ==
    LET reliable == Number(packets[p].reliable)
        position == Position(reliable, packets[p].unreliable)
    IN  DispatchedFrom(InsertAt(commands, position + 1, Entry(p, {})),
                       Number(reliables), incomingUnreliable)

IsKept(p) == \E i \in DOMAIN QueuedFor(p).left : QueuedFor(p).left[i].packet = p

\* enet_protocol_handle_send_unreliable_fragment, when the packet has an entry...
ReceiveFurtherFragment(p, fragment) ==
    LET reliable == Number(packets[p].reliable)
        unreliable == packets[p].unreliable
        i == Position(reliable, unreliable)
        copied == [commands EXCEPT ![i] = Copied(@, fragment)]
    IN  /\ Arrives(p, "SEND_UNRELIABLE_FRAGMENT") /\ fragment \in 1 .. packets[p].length
        /\ ~Late(reliable, unreliable) /\ IsQueued(reliable, unreliable)
        /\ packets[commands[i].packet].kind = "SEND_UNRELIABLE_FRAGMENT"
        /\ packets[commands[i].packet].length = packets[p].length
        /\ copied # commands
        /\ IF copied[i].fragmentsRemaining = 0
           THEN DispatchUnreliable(copied)
           ELSE /\ commands' = copied
                /\ UNCHANGED <<dispatched, incomingUnreliable>>
        /\ UNCHANGED <<workload, packets, reliables, incomingGroup,
                       unsequencedWindow, totalWaitingData, newest, taken>>

\* ... and when it has none yet.  If the new entry is dropped at once, the code
\* goes on with memory that was freed; the behaviours of the model end before.
ReceiveFirstFragment(p, fragment) ==
    LET reliable == Number(packets[p].reliable)
        unreliable == packets[p].unreliable
        queued == QueuedFor(p)
    IN  /\ Arrives(p, "SEND_UNRELIABLE_FRAGMENT") /\ fragment \in 1 .. packets[p].length
        /\ ~Late(reliable, unreliable) /\ ~IsQueued(reliable, unreliable)
        /\ totalWaitingData < MaximumWaiting
        /\ IsKept(p)
        /\ totalWaitingData' = totalWaitingData + packets[p].length
        /\ commands' = [i \in DOMAIN queued.left |->
                           IF queued.left[i].packet = p
                           THEN Copied(queued.left[i], fragment) ELSE queued.left[i]]
        /\ dispatched' = dispatched \o queued.moved
        /\ incomingUnreliable' = queued.unreliable
        /\ UNCHANGED <<workload, packets, reliables, incomingGroup,
                       unsequencedWindow, newest, taken>>

InUnsequencedWindowUnwrapped(group) ==
    group < incomingGroup + FreeUnsequencedWindows * UnsequencedWindowSize

InUnsequencedWindow(group) ==
    group + (IF group < incomingGroup THEN Groups ELSE 0)
        < incomingGroup + FreeUnsequencedWindows * UnsequencedWindowSize

GroupWindowAtGroup(group) == group

\* Where the window of a group begins.
GroupWindow(group) == group - (group % UnsequencedWindowSize)

\* enet_protocol_handle_send_unsequenced: a group of another window moves the
\* window, even if there is no room for the packet.
ReceiveUnsequenced(p) ==
    LET group == packets[p].group % Groups
        index == group % UnsequencedWindowSize
        window == IF GroupWindow(group) = incomingGroup THEN unsequencedWindow ELSE {}
    IN  /\ Arrives(p, "SEND_UNSEQUENCED")
        /\ InUnsequencedWindow(group)
        /\ index \notin window
        /\ incomingGroup' = GroupWindow(group)
        /\ \/ /\ totalWaitingData < MaximumWaiting
              /\ unsequencedWindow' = window \cup {index}
              /\ totalWaitingData' = totalWaitingData + 1
              /\ DispatchUnreliable(<<Entry(p, {1})>> \o commands)
           \/ /\ totalWaitingData >= MaximumWaiting
              /\ unsequencedWindow' = window
              /\ UNCHANGED <<totalWaitingData, commands, dispatched,
                             incomingUnreliable>>
        /\ UNCHANGED <<workload, packets, reliables, newest, taken>>

\* enet_peer_receive
Receive ==
    /\ dispatched # <<>>
    /\ LET p == Head(dispatched).packet
       IN  /\ totalWaitingData' = totalWaitingData - packets[p].length
           /\ IF packets[p].kind = "SEND_UNSEQUENCED"
              THEN taken' = {q \in taken \cup {p} : Alive(q)} /\ UNCHANGED newest
              ELSE newest' = p /\ UNCHANGED taken
    /\ dispatched' = Tail(dispatched)
    /\ UNCHANGED <<workload, packets, reliables, incomingUnreliable, commands,
                   incomingGroup, unsequencedWindow>>

Next ==
    \/ Send \/ Receive
    \/ \E p \in DOMAIN packets :
          \/ ReceiveReliable(p) \/ ReceiveUnreliable(p) \/ ReceiveUnsequenced(p)
          \/ \E fragment \in 1 .. packets[p].length :
                \/ ReceiveFirstFragment(p, fragment)
                \/ ReceiveFurtherFragment(p, fragment)

Spec == Init /\ [][Next]_vars

-----------------------------------------------------------------------------
(***************************************************************************)
(* Properties.                                                             *)
(***************************************************************************)

\* The places of dispatchedCommands with sequenced packets (the reliable and the
\* unreliable ones), and with unsequenced ones.
Unsequenced == {i \in DOMAIN dispatched : IsUnsequenced(dispatched[i])}
Sequenced == DOMAIN dispatched \ Unsequenced

\* A channel never goes back: what is delivered was sent after all that was
\* delivered before, reliable or not, whatever arrives late or twice; so an
\* unreliable packet comes neither twice nor before a reliable one it follows.
SequencedInOrder ==
    \A i \in Sequenced :
        /\ newest < dispatched[i].packet
        /\ \A j \in Sequenced :
              i < j => dispatched[i].packet < dispatched[j].packet

\* An unsequenced packet is not delivered twice, neither within the window of its
\* group, nor when the window has moved on, nor across the wrap of the groups.
UnsequencedOnce ==
    \A i \in Unsequenced :
        /\ dispatched[i].packet \notin taken
        /\ \A j \in Unsequenced \ {i} : dispatched[i].packet # dispatched[j].packet

\* A packet in fragments is delivered whole.
Whole ==
    \A i \in DOMAIN dispatched :
        dispatched[i].fragments = 1 .. packets[dispatched[i].packet].length

\* What waits in the list may still be delivered: it follows a reliable packet
\* still to come, or is incomplete and newer than what was delivered.
NothingStranded ==
    \A i \in DOMAIN commands :
        LET packet == packets[commands[i].packet]
        IN  \/ packet.reliable > reliables
            \/ /\ packet.reliable = reliables
               /\ commands[i].fragmentsRemaining > 0
               /\ packet.unreliable > incomingUnreliable

\* The handler of a fragment goes on with the entry it queued, which the dispatch
\* in between must not have dropped.  That holds as long as fewer than two other
\* packets are incomplete.
FragmentUsable ==
    LET incomplete == {i \in DOMAIN commands :
                          /\ packets[commands[i].packet].reliable = reliables
                          /\ commands[i].fragmentsRemaining > 0}
    IN  Cardinality(incomplete) < 2 =>
            \A p \in DOMAIN packets :
                /\ Arrives(p, "SEND_UNRELIABLE_FRAGMENT")
                /\ ~Late(Number(packets[p].reliable), packets[p].unreliable)
                /\ ~IsQueued(Number(packets[p].reliable), packets[p].unreliable)
                => IsKept(p)

\* totalWaitingData is what maximumWaitingData limits, "the maximum aggregate
\* amount of buffer space a peer may use waiting for packets to be delivered".
WaitingDataExact == totalWaitingData = Waits(commands) + Waits(dispatched)
=============================================================================
