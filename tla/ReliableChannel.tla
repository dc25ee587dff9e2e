--------------------------- MODULE ReliableChannel ---------------------------
(***************************************************************************)
(* The reliable commands of one ENet channel, from one peer to the other   *)
(* (proxy/lib/src/{protocol,peer}.c): sequence numbers that wrap, windows, *)
(* acknowledgements, retransmission, reordering.                           *)
(*                                                                         *)
(* The commands are 1, 2, 3... in the order of their set-up; the code only *)
(* ever sees a command's Number.  A packet is one command or, when it is   *)
(* longer than the MTU, one for each of its fragments: consecutive ones.   *)
(* Packets are numbered too, and a packet's content is the set of its      *)
(* commands.  Both peers are connected, and stay so (giving a peer up is   *)
(* EnetHost's subject); enet_malloc does not fail.                         *)
(*                                                                         *)
(* The network loses, repeats and reorders datagrams.  A command that is   *)
(* outstanding is sent again whenever its timeout, an estimate, chooses:   *)
(* a copy of it may arrive at any time, any number of times or never.      *)
(* Copies of a command, or of an acknowledgement, that nobody sends again  *)
(* are gone once Lifetime more commands have been sent; those of a fragment *)
(* in a later window than the first of its packet, at once: the receiver   *)
(* judges it by the first, and that costs the whole margin there is.       *)
(*                                                                         *)
(* Operators named after another with a suffix are slips that the          *)
(* properties must notice; no action uses them.                            *)
(***************************************************************************)
EXTENDS Naturals, FiniteSets, SequencesExt

CONSTANTS
    ReliableWindows,        \* ENET_PEER_RELIABLE_WINDOWS (16)
    ReliableWindowSize,     \* ENET_PEER_RELIABLE_WINDOW_SIZE (4096)
    FreeReliableWindows,    \* ENET_PEER_FREE_RELIABLE_WINDOWS (8)
    InTransit,              \* bound: commands outstanding at a time
    MaximumWaiting,         \* host -> maximumWaitingData, in commands
    Lifetime,               \* bound: age of a datagram, in commands sent since
    Backlog,                \* bound: no new packet while so many commands wait
    MaxCommands,            \* bound: commands sent altogether
    Workloads               \* bound: what the application sends, as sequences
                            \* of the lengths of packets, in commands

ASSUME WindowsAssumption ==
    /\ ReliableWindowSize \in Nat \ {0}
    /\ FreeReliableWindows \in Nat \ {0, 1, 2}
    /\ ReliableWindows \in Nat /\ ReliableWindows >= 2 * FreeReliableWindows
ASSUME LimitsAssumption == InTransit \in Nat \ {0} /\ MaximumWaiting \in Nat \ {0}
ASSUME BoundsAssumption ==
    /\ MaxCommands \in Nat /\ Backlog \in Nat \ {0}
    /\ Lifetime \in 0 .. ReliableWindowSize
    /\ Workloads # {} /\ Workloads \subseteq Seq(Nat \ {0})

Commands == 1 .. MaxCommands

\* Sequence numbers are enet_uint16: 16 windows of 4096.
Numbers == 0 .. ReliableWindows * ReliableWindowSize - 1
Number(command) == command % (ReliableWindows * ReliableWindowSize)
Following(number, n) == (number + n) % (ReliableWindows * ReliableWindowSize)

Window(number) == number \div ReliableWindowSize
Windows == 0 .. ReliableWindows - 1

VARIABLES
    lengths,    \* the lengths of the packets that will be sent
    ends,       \* of each packet given to enet_peer_send: its last command
    attempted,  \* commands that were sent at least once
    outstanding,            \* those in sentReliableCommands, or put back into
                            \* outgoingReliableCommands by their timeout
    reliableWindows,        \* commands outstanding per window
    usedReliableWindows,    \* the windows whose bit is set
    incoming,   \* incomingReliableSequenceNumber
    commands,   \* incomingReliableCommands: packets, in the order of the list
    dispatched, \* dispatchedCommands, as contents of packets
    received,   \* what enet_host_service returned to the application
    late,       \* for a command no longer outstanding: the value of attempted
                \* when its last copy left, until Lifetime has passed, then 0
    acks        \* the commands of which there are acknowledgements on the way

sender == <<lengths, ends, attempted, outstanding, reliableWindows,
            usedReliableWindows>>
receiver == <<incoming, commands, dispatched, received>>
vars == <<sender, receiver, late, acks>>

\* The last command of the packets up to the n-th, and of all.
End(n) == IF n = 0 THEN 0 ELSE ends[n]
queued == End(Len(ends))

\* The packet that a command belongs to, and the packet's content.
PacketOf(command) == CHOOSE n \in DOMAIN ends : command \in End(n - 1) + 1 .. End(n)
First(n) == End(n - 1) + 1
Content(n) == First(n) .. End(n)
StartsEarlier(command) ==
    Window(Number(First(PacketOf(command)))) # Window(Number(command))
IsFragment(command) == Cardinality(Content(PacketOf(command))) > 1

\* ENetIncomingCommand: of a packet that was not fragmented, nothing remains.
IncomingCommands ==
    [packet : Nat \ {0}, fragments : SUBSET Commands, fragmentsRemaining : Nat]

TypeOK ==
    /\ lengths \in Workloads
    /\ ends \in Seq(Commands) /\ attempted \in 0 .. queued
    /\ outstanding \in SUBSET (1 .. attempted)
    /\ reliableWindows \in [Windows -> 0 .. ReliableWindowSize]
    /\ usedReliableWindows \in SUBSET Windows
    /\ incoming \in Numbers
    /\ commands \in Seq(IncomingCommands)
    /\ dispatched \in Seq(SUBSET Commands) /\ received \in Seq(SUBSET Commands)
    /\ late \in [Commands -> 0 .. attempted]
    /\ acks \in SUBSET (1 .. attempted)

\* enet_peer_reset and enet_host_connect
Init ==
    /\ lengths \in Workloads
    /\ ends = <<>> /\ attempted = 0
    /\ outstanding = {}
    /\ reliableWindows = [w \in Windows |-> 0]
    /\ usedReliableWindows = {}
    /\ incoming = 0
    /\ commands = <<>> /\ dispatched = <<>> /\ received = <<>>
    /\ late = [command \in Commands |-> 0]
    /\ acks = {}

-----------------------------------------------------------------------------
(***************************************************************************)
(* The sender.                                                             *)
(***************************************************************************)

\* enet_peer_send: the command, or one for each fragment, goes to the end of
\* outgoingReliableCommands.
Send ==
    /\ Len(ends) < Len(lengths)
    /\ queued - attempted < Backlog
    /\ LET end == queued + lengths[Len(ends) + 1]
       IN  /\ end <= MaxCommands
           /\ ends' = Append(ends, end)
    /\ UNCHANGED <<lengths, attempted, outstanding, reliableWindows,
                   usedReliableWindows, receiver, late, acks>>

WindowWrapIfFull(number) ==
    /\ number % ReliableWindowSize = 0
    /\ reliableWindows[(Window(number) + ReliableWindows - 1) % ReliableWindows]
          >= ReliableWindowSize

\* The first command of a window waits until the window before it has been
\* acknowledged in part, and this one and those that follow it altogether.
WindowWrap(number) ==
    /\ number % ReliableWindowSize = 0
    /\ \/ reliableWindows[(Window(number) + ReliableWindows - 1) % ReliableWindows]
             >= ReliableWindowSize
       \/ \E i \in 0 .. FreeReliableWindows - 1 :
             (Window(number) + i) % ReliableWindows \in usedReliableWindows

\* A command leaves for the first time.
Transmit ==
    LET command == attempted + 1
        w == Window(Number(command))
    IN  /\ attempted < queued
        /\ ~WindowWrap(Number(command))
        /\ Cardinality(outstanding) < InTransit
        /\ attempted' = command
        /\ outstanding' = outstanding \cup {command}
        /\ usedReliableWindows' = usedReliableWindows \cup {w}
        /\ reliableWindows' = [reliableWindows EXCEPT ![w] = @ + 1]
        /\ late' = [c \in Commands |->
                       IF command - late[c] > Lifetime THEN 0 ELSE late[c]]
        /\ acks' = {c \in acks : c \in outstanding \/ late'[c] # 0}
        /\ UNCHANGED <<lengths, ends, receiver>>

\* Copies on their way: of what enet_protocol_check_timeouts sends again, and
\* the late ones of what it sent until its acknowledgement came.
Arriving == outstanding \cup {command \in Commands : late[command] # 0}

RemoveSentUncounted(command) ==
    /\ outstanding' = outstanding \ {command}
    /\ UNCHANGED <<reliableWindows, usedReliableWindows>>

\* enet_protocol_remove_sent_reliable_command
RemoveSent(command) ==
    LET w == Window(Number(command))
        left == reliableWindows[w] - 1
    IN  /\ outstanding' = outstanding \ {command}
        /\ IF reliableWindows[w] > 0
           THEN /\ reliableWindows' = [reliableWindows EXCEPT ![w] = left]
                /\ usedReliableWindows' = IF left = 0
                                          THEN usedReliableWindows \ {w}
                                          ELSE usedReliableWindows
           ELSE UNCHANGED <<reliableWindows, usedReliableWindows>>

\* An acknowledgement arrives: it names a command by its number, and does
\* nothing when no command of that number is outstanding.
ReceiveAcknowledge(command) ==
    /\ command \in acks
    /\ \E named \in outstanding :
          /\ Number(named) = Number(command)
          /\ RemoveSent(named)
          /\ late' = IF StartsEarlier(named) THEN late
                     ELSE [late EXCEPT ![named] = attempted]
    /\ UNCHANGED <<lengths, ends, attempted, receiver, acks>>

-----------------------------------------------------------------------------
(***************************************************************************)
(* The receiver.                                                           *)
(***************************************************************************)

\* How many windows ahead of the next expected one a number seems to be.
Ahead(number, expected) ==
    Window(number) + (IF number < expected THEN ReliableWindows ELSE 0)
        - Window(expected)

\* enet_peer_queue_incoming_command takes numbers up to this many windows ahead.
InWindow(number) == Ahead(number, incoming) < FreeReliableWindows - 1

AcknowledgeableAlways(number, expected) == TRUE

\* enet_peer_queue_acknowledgement, after the command was handled.
Acknowledgeable(number, expected) ==
    Ahead(number, expected) \notin {FreeReliableWindows - 1, FreeReliableWindows}

\* The search from the end of incomingReliableCommands goes past an entry.
PastUnwrapped(entry, number) == entry > number

Past(entry, number) ==
    IF number >= incoming THEN entry < incoming \/ entry > number
    ELSE entry < incoming /\ entry > number

EntryNumber(entry) == Number(First(entry.packet))

\* The entry after which a command is inserted, 0 for the head of the list.
Position(number) ==
    Max({0} \cup {i \in DOMAIN commands : ~Past(EntryNumber(commands[i]), number)})

IsQueued(number) ==
    Position(number) # 0 /\ EntryNumber(commands[Position(number)]) = number

Duplicate(number) == number = incoming \/ IsQueued(number)

\* After the first n entries of a list, the last number they stand for.
NumberAfter(list, n) ==
    IF n = 0 THEN incoming ELSE Number(End(list[n].packet))

ReadyOnlyFirst(list) ==
    IF /\ list # <<>>
       /\ Head(list).fragmentsRemaining = 0
       /\ EntryNumber(Head(list)) = Following(incoming, 1)
    THEN 1 ELSE 0

\* How many entries of a list are, from its head, complete and the next ones
\* expected.
Ready(list) ==
    Max({0} \cup {n \in DOMAIN list :
        \A i \in 1 .. n :
            /\ list[i].fragmentsRemaining = 0
            /\ EntryNumber(list[i]) = Following(NumberAfter(list, i - 1), 1)})

\* enet_peer_dispatch_incoming_reliable_commands
Dispatch(list) ==
    LET n == Ready(list)
    IN  /\ incoming' = NumberAfter(list, n)
        /\ commands' = SubSeq(list, n + 1, Len(list))
        /\ dispatched' = dispatched \o [i \in 1 .. n |-> list[i].fragments]

WaitingData ==
    Cardinality(UNION {Content(commands[i].packet) : i \in DOMAIN commands})
        + Cardinality(UNION ToSet(dispatched))

Acknowledge(command) ==
    acks' = IF Acknowledgeable(Number(command), incoming')
            THEN acks \cup {command} ELSE acks

\* enet_protocol_handle_send_reliable
HandleReliable(command) ==
    LET number == Number(command)
        entry == [packet |-> PacketOf(command), fragments |-> {command},
                  fragmentsRemaining |-> 0]
    IN  IF ~InWindow(number) \/ Duplicate(number)
        THEN UNCHANGED receiver
        ELSE /\ WaitingData < MaximumWaiting
             /\ Dispatch(InsertAt(commands, Position(number) + 1, entry))
             /\ UNCHANGED received

CopiedAgain(entry, command) ==
    [entry EXCEPT !.fragments = @ \cup {command}, !.fragmentsRemaining = @ - 1]

\* The fragment is copied into its packet, unless it was before.
Copied(entry, command) ==
    IF command \in entry.fragments THEN entry
    ELSE [entry EXCEPT !.fragments = @ \cup {command},
                       !.fragmentsRemaining = @ - 1]

\* enet_protocol_handle_send_fragment: the place of a packet, and whether there
\* is room for it, are its first command's.
HandleFragment(command) ==
    LET packet == PacketOf(command)
        number == Number(First(packet))
        position == Position(number)
        entry == [packet |-> packet, fragments |-> {},
                  fragmentsRemaining |-> Cardinality(Content(packet))]
    IN  \/ /\ ~InWindow(number)
           /\ UNCHANGED receiver
        \/ /\ InWindow(number)
           /\ IsQueued(number)
           /\ Cardinality(Content(commands[position].packet))
                 = Cardinality(Content(packet))
           /\ Dispatch([commands EXCEPT ![position] = Copied(@, command)])
           /\ UNCHANGED received
        \/ /\ InWindow(number)
           /\ ~Duplicate(number)
           /\ WaitingData < MaximumWaiting
           /\ Dispatch(InsertAt(commands, position + 1, Copied(entry, command)))
           /\ UNCHANGED received

\* A copy arrives, is handled, and then acknowledged.  When too much data is
\* waiting, or a fragment belongs to no packet that fits it, it is in error, and
\* neither happens.
ReceiveCommand(command) ==
    /\ command \in Arriving
    /\ IF IsFragment(command) THEN HandleFragment(command)
                              ELSE HandleReliable(command)
    /\ Acknowledge(command)
    /\ UNCHANGED <<sender, late>>

\* enet_peer_receive, by the dispatch of enet_host_service.
Receive ==
    /\ dispatched # <<>>
    /\ received' = Append(received, Head(dispatched))
    /\ dispatched' = Tail(dispatched)
    /\ UNCHANGED <<sender, incoming, commands, late, acks>>

Next ==
    \/ Send \/ Transmit \/ Receive
    \/ \E command \in Commands :
          ReceiveAcknowledge(command) \/ ReceiveCommand(command)

Spec == Init /\ [][Next]_vars

-----------------------------------------------------------------------------
(***************************************************************************)
(* Properties.                                                             *)
(***************************************************************************)

\* What the receiver has, whether or not the application got it.
Held == UNION (ToSet(received) \cup ToSet(dispatched)
                  \cup {commands[i].fragments : i \in DOMAIN commands})

\* The last command of the packets that were dispatched.
Expected == End(Len(received) + Len(dispatched))

\* The sender forgets a command only when the receiver has it: no
\* acknowledgement is queued for a command that was refused, nor removes another
\* command whose number is the same; of a packet in fragments, each is kept.
AcknowledgedIsHeld ==
    acks \cup ((1 .. attempted) \ outstanding) \subseteq Held

\* reliableWindows counts the outstanding commands of each window, and
\* usedReliableWindows has a bit for each that is not zero, whatever was
\* acknowledged twice, late or out of order: a window is not blocked for ever.
WindowsCounted ==
    \A w \in Windows :
        /\ reliableWindows[w] =
               Cardinality({c \in outstanding : Window(Number(c)) = w})
        /\ w \in usedReliableWindows <=> reliableWindows[w] # 0

\* The list is in the order of sending, across the wrap of the numbers, and the
\* packet at its head is incomplete or not the one that is expected next.
ListInOrder ==
    /\ \A i \in 1 .. Len(commands) - 1 :
          commands[i].packet < commands[i + 1].packet
    /\ commands # <<>> => \/ First(Head(commands).packet) > Expected + 1
                          \/ Head(commands).fragmentsRemaining > 0
    /\ incoming = Number(Expected)

Fifo == INSTANCE ReliableFifo WITH
            queue <- [i \in 1 .. Len(ends) - Len(received) |->
                          Content(Len(received) + i)]

\* The application gets every packet once, whole, and in the order they were
\* sent.
ImplementsFifo == Fifo!Spec

\* What the receiver waits for, and the oldest command the sender keeps.
Awaited(command) ==
    /\ PacketOf(command) = Len(received) + Len(dispatched) + 1
    /\ command \notin Held
Oldest(command) == command \in outstanding /\ \A c \in outstanding : command <= c

\* Both loops of enet_host_service run; the network may lose a datagram but not
\* every copy of what is sent, or acknowledged, again and again.
Fairness ==
    /\ WF_vars(Transmit) /\ WF_vars(Receive)
    /\ SF_vars(\E c \in outstanding : Awaited(c) /\ ReceiveCommand(c))
    /\ SF_vars(\E c \in outstanding : Oldest(c) /\ ReceiveCommand(c))
    /\ SF_vars(\E c \in Commands : Oldest(c) /\ ReceiveAcknowledge(c))

LiveSpec == Spec /\ Fairness

\* ENET_PACKET_FLAG_RELIABLE: "packet must be received by the target peer and
\* resend attempts should be made until the packet is delivered".  A Workload is
\* finite, so every packet is delivered if the receiver catches up now and again.
Delivered == []<>(Len(received) = Len(ends))
=============================================================================
