---------------------------- MODULE EnetRetransmit ----------------------------
(***************************************************************************)
(* The outgoing side of one connected ENet peer under its 32-bit           *)
(* millisecond clock: the queues of reliable and unreliable commands, the  *)
(* packets they refer to, the data in transit, the retransmission timers   *)
(* with their back-off, the round trip times, the packet throttle, and the *)
(* decision that the other end is gone (protocol.c, peer.c, packet.c).     *)
(*                                                                         *)
(*   - Clock is 2^32 and Half 2^16, scaled down together with the time-out *)
(*     constants; `now' is the true time, which the code does not know.    *)
(*   - The network is a set of acknowledgements on their way, one for each *)
(*     transmission: any of them is lost, late or repeated.  They do not   *)
(*     get older than MaxDelay.                                            *)
(*   - A pass may break off at a full datagram and goes on with the next   *)
(*     one at once (continueSending), so it sends what the window permits; *)
(*     an error of the socket is a loss.                                   *)
(*   - A number stands for the channel and the sequence number of a        *)
(*     reliable command.  The windows of a channel are ReliableChannel's   *)
(*     matter.  What decides the way of the throttle, and how long ago the *)
(*     last acknowledgement must be for a ping, are choices.               *)
(* RoomOfWindow and the other operators that no action uses are slips the  *)
(* properties must notice.                                                 *)
(***************************************************************************)
EXTENDS Integers, FiniteSets, SequencesExt

CONSTANTS
    Clock, Overflow, \* the range of the clock and ENET_TIME_OVERFLOW
    Half,            \* the range of the sent time in a datagram's header
    TimeoutLimit, TimeoutMinimum, TimeoutMaximum,
    DefaultRoundTripTime,
    Share,           \* the weight of one measurement, 8 and 4 in the code
    WindowSize, Mtu, \* in units of a fragment
    ThrottleScale, ThrottleCounter, ThrottleStep,
    Start, End,      \* the span of time
    Packets,         \* the packets the application sends, <<reliable, fragments>>
    MaxDelay,        \* bound: the age of an acknowledgement
    MaxIdle,         \* bound: the time without a pass
    MaxPackets,      \* bound: calls of enet_peer_send
    MaxPings         \* bound: calls of enet_peer_ping

ASSUME ClockAssumption ==
    /\ Half \in Nat \ {0} /\ Clock \in Nat \ {0}
    /\ Half % 2 = 0 /\ Clock % Half = 0
    /\ Overflow \in Half .. Clock - Half
ASSUME TimeoutAssumption ==
    /\ {TimeoutLimit, TimeoutMinimum, TimeoutMaximum, DefaultRoundTripTime,
        Share} \subseteq Nat \ {0}
    /\ TimeoutMinimum <= TimeoutMaximum /\ TimeoutMinimum <= Overflow
ASSUME WindowAssumption ==
    /\ WindowSize \in Nat /\ Mtu \in Nat \ {0}
    /\ ThrottleScale \in Nat \ {0} /\ ThrottleCounter \in Nat /\ ThrottleStep \in Nat
ASSUME BoundsAssumption ==
    /\ Packets \subseteq BOOLEAN \X (1 .. 2)
    /\ Start \in Nat \ {0} /\ End \in Nat /\ Start <= End
    /\ {MaxDelay, MaxIdle, MaxPackets, MaxPings} \subseteq Nat

VARIABLES
    peer,       \* the outgoing side of the ENetPeer
    references, \* referenceCount of each packet; at 0 it is destroyed
    now,        \* the true time
    idle,       \* the time since the last pass
    flights,    \* the acknowledgements on their way
    fate,       \* whether the peer is connected, was closed or was given up
    numbers,    \* the numbers given to reliable commands
    pings       \* the pings queued

vars == <<peer, references, now, idle, flights, fate, numbers, pings>>

Times == Start .. End
Ticks == 0 .. Clock - 1
NoPacket == 0
Numbers == 1 .. 2 * MaxPackets + MaxPings

\* ENetOutgoingCommand; `first' is when it was first sent, 0 as long as
\* sendAttempts is 0.
Outgoing ==
    [packet : 0 .. MaxPackets, number : 0 .. 2 * MaxPackets + MaxPings,
     offset : 0 .. 1, length : 0 .. Mtu, sentTime : Ticks,
     timeout : Nat,     \* roundTripTimeout
     limit : Nat,       \* roundTripTimeoutLimit
     first : {0} \cup Times]

PeerType ==
    [outgoing : Seq(Outgoing),      \* outgoingReliableCommands
     unreliable : Seq(Outgoing),    \* outgoingUnreliableCommands
     sent : Seq(Outgoing),          \* sentReliableCommands
     inTransit : Int,               \* reliableDataInTransit
     nextTimeout : Ticks, earliestTimeout : Ticks,
     roundTripTime : Nat, variance : Nat,
     throttle : 0 .. ThrottleScale, counter : 0 .. ThrottleScale - 1]

TypeOK ==
    /\ peer \in PeerType
    /\ references \in Seq(Nat) /\ Len(references) <= MaxPackets
    /\ now \in Times /\ idle \in 0 .. MaxIdle
    /\ flights \subseteq [number : Numbers, sent : Times]
    /\ fate \in {"connected", "closed", "abandoned"}
    /\ numbers \in 0 .. 2 * MaxPackets + MaxPings
    /\ pings \in 0 .. MaxPings

\* enet_peer_reset
FreshPeer ==
    [outgoing |-> <<>>, unreliable |-> <<>>, sent |-> <<>>, inTransit |-> 0,
     nextTimeout |-> 0, earliestTimeout |-> 0,
     roundTripTime |-> DefaultRoundTripTime, variance |-> 0,
     throttle |-> ThrottleScale, counter |-> 0]

Init ==
    /\ peer = FreshPeer
    /\ references = <<>>
    /\ now = Start
    /\ idle = 0
    /\ flights = {}
    /\ fate = "connected"
    /\ numbers = 0
    /\ pings = 0

-----------------------------------------------------------------------------
(***************************************************************************)
(* The clock (time2.h): differences wrap, and a difference of Overflow or  *)
(* more is negative.                                                       *)
(***************************************************************************)

serviceTime == now % Clock

Minus(a, b) == (a - b) % Clock
Less(a, b) == Minus(a, b) >= Overflow
Difference(a, b) == IF Less(a, b) THEN Minus(b, a) ELSE Minus(a, b)

Expiry(c) == (c.sentTime + c.timeout) % Clock
Expired(c) == Difference(serviceTime, c.sentTime) >= c.timeout

-----------------------------------------------------------------------------
(***************************************************************************)
(* Packets: each command that refers to one holds a reference.             *)
(***************************************************************************)

Holding(commands, p) == Cardinality({i \in DOMAIN commands : commands[i].packet = p})

\* The reference counts when `commands' are freed.
Release(refs, commands) ==
    [p \in DOMAIN refs |-> refs[p] - Holding(commands, p)]

\* What the commands of a list take.
Length(commands) ==
    LET sum[i \in 0 .. Len(commands)] ==
            IF i = 0 THEN 0 ELSE sum[i - 1] + commands[i].length
    IN  sum[Len(commands)]

\* The commands of a list that are in the set `some', in the list's order.
Those(commands, some) ==
    LET among[i \in 0 .. Len(commands)] ==
            IF i = 0 THEN <<>>
            ELSE IF commands[i] \in some THEN Append(among[i - 1], commands[i])
            ELSE among[i - 1]
    IN  among[Len(commands)]

Queued(packet, number, offset) ==
    [packet |-> packet, number |-> number, offset |-> offset,
     length |-> IF packet = NoPacket THEN 0 ELSE Mtu,
     sentTime |-> 0, timeout |-> 0, limit |-> 0, first |-> 0]

\* enet_peer_send: a packet in one or two fragments, on the reliable or the
\* unreliable queue.  The fragments of an unreliable packet share a number.
Send(reliable, fragments) ==
    LET p == Len(references) + 1
        Fragment(i) == Queued(p, IF reliable THEN numbers + i ELSE 0, i - 1)
        commands == [i \in 1 .. fragments |-> Fragment(i)]
    IN  /\ fate = "connected"
        /\ p <= MaxPackets
        /\ references' = Append(references, fragments)
        /\ IF reliable
           THEN /\ peer' = [peer EXCEPT !.outgoing = @ \o commands]
                /\ numbers' = numbers + fragments
           ELSE /\ peer' = [peer EXCEPT !.unreliable = @ \o commands]
                /\ UNCHANGED numbers
        /\ UNCHANGED <<now, idle, flights, fate, pings>>

-----------------------------------------------------------------------------
(***************************************************************************)
(* A pass of enet_protocol_send_outgoing_commands over the peer.           *)
(***************************************************************************)

\* earliestTimeout after the expiry of c; 0 says that nothing has expired.
Earliest(earliest, c) ==
    IF earliest = 0 \/ Less(c.sentTime, earliest) THEN c.sentTime ELSE earliest

\* The sent commands that have expired, and the others.
ExpiredOf(commands) == Those(commands, {c \in Range(commands) : Expired(c)})
RestOf(commands) == Those(commands, {c \in Range(commands) : ~ Expired(c)})

\* enet_protocol_check_timeouts goes through the expired commands in order.
EarliestBy(expired, i) ==
    LET earliest[j \in 0 .. Len(expired)] ==
            IF j = 0 THEN peer.earliestTimeout
            ELSE Earliest(earliest[j - 1], expired[j])
    IN  earliest[i]

Hopeless(expired, i) ==
    LET earliest == EarliestBy(expired, i)
        silence == Difference(serviceTime, earliest)
    IN  /\ earliest # 0
        /\ \/ silence >= TimeoutMaximum
           \/ /\ expired[i].timeout >= expired[i].limit
              /\ silence >= TimeoutMinimum

\* Timers are looked at when the first one of the list has run out.
Due == peer.sent # <<>> /\ ~ Less(serviceTime, peer.nextTimeout)

GivesUp ==
    LET expired == ExpiredOf(peer.sent)
    IN  Due /\ \E i \in DOMAIN expired : Hopeless(expired, i)

\* The expired commands go to the front of the queue, to be sent again with
\* twice the timeout.
CheckTimeouts ==
    LET expired == ExpiredOf(peer.sent)
        rest == RestOf(peer.sent)
        again == [i \in DOMAIN expired |-> [expired[i] EXCEPT !.timeout = 2 * @]]
    IN  IF ~ Due THEN peer
        ELSE [peer EXCEPT
                !.sent = rest,
                !.outgoing = again \o @,
                !.inTransit = @ - Length(expired),
                !.earliestTimeout = EarliestBy(expired, Len(expired)),
                !.nextTimeout = IF Expired(Head(peer.sent)) /\ rest # <<>>
                                THEN Expiry(Head(rest)) ELSE @]

Window(p) == (p.throttle * WindowSize) \div ThrottleScale

RoomOfWindow(p) == Window(p)

\* However small the window, one datagram is let through.
Room(p) == IF Window(p) > Mtu THEN Window(p) ELSE Mtu

\* A command is sent: its timeout is that of the peer the first time.
Transmitted(p, c) ==
    LET timeout == IF c.timeout = 0 THEN p.roundTripTime + 4 * p.variance
                   ELSE c.timeout
        sent == [c EXCEPT
                   !.timeout = timeout,
                   !.limit = IF c.timeout = 0 THEN TimeoutLimit * timeout ELSE @,
                   !.sentTime = serviceTime,
                   !.first = IF @ = 0 THEN now ELSE @]
    IN  [p EXCEPT !.sent = Append(@, sent),
                  !.inTransit = @ + c.length,
                  !.nextTimeout = IF p.sent = <<>> THEN Expiry(sent) ELSE @]

\* The next command of the queue: after the first packet that does not fit no
\* other packet is sent in this pass.
SendNext(done, c) ==
    LET exceeded == \/ done.exceeded
                    \/ done.peer.inTransit + c.length > Room(done.peer)
    IN  IF c.packet # NoPacket /\ exceeded
         THEN [peer |-> [done.peer EXCEPT !.outgoing = Append(@, c)],
               exceeded |-> TRUE]
        ELSE [done EXCEPT !.peer = Transmitted(@, c)]

\* enet_protocol_send_reliable_outgoing_commands
SendReliable(p) ==
    LET done[i \in 0 .. Len(p.outgoing)] ==
            IF i = 0 THEN [peer |-> [p EXCEPT !.outgoing = <<>>], exceeded |-> FALSE]
            ELSE SendNext(done[i - 1], p.outgoing[i])
    IN  done[Len(p.outgoing)].peer

PacketsIn(commands) == Cardinality({i \in DOMAIN commands : commands[i].offset = 0})

\* enet_protocol_send_unreliable_outgoing_commands and the freeing of what it
\* sent: every command leaves the queue, sent or dropped by the throttle.
SendUnreliable(p) ==
    [p EXCEPT !.unreliable = <<>>,
              !.counter = (@ + PacketsIn(p.unreliable) * ThrottleCounter)
                          % ThrottleScale]

\* The acknowledgements that what p has just sent may get.
Flights(p) ==
    {[number |-> p.sent[i].number, sent |-> now] :
        i \in {j \in DOMAIN p.sent : p.sent[j].sentTime = serviceTime}}

\* A pass that does not give the peer up; `check' is FALSE in enet_host_flush.
Pass(check) ==
    LET checked == IF check THEN CheckTimeouts ELSE peer
        sent == SendReliable(checked)
        mayPing == sent.sent = <<>> /\ pings < MaxPings
        pinged == SendReliable([sent EXCEPT
                      !.outgoing = Append(@, Queued(NoPacket, numbers + 1, 0))])
    IN  /\ fate = "connected"
        /\ check => ~ GivesUp
        /\ \/ /\ peer' = SendUnreliable(sent)
              /\ UNCHANGED <<numbers, pings>>
           \/ /\ mayPing
              /\ peer' = SendUnreliable(pinged)
              /\ numbers' = numbers + 1
              /\ pings' = pings + 1
        /\ references' = Release(references, peer.unreliable)
        /\ flights' = flights \cup Flights(peer')
        /\ idle' = IF check THEN 0 ELSE idle
        /\ UNCHANGED <<now, fate>>

\* enet_peer_reset, with every queue freed.
Reset(how) ==
    /\ fate' = how
    /\ peer' = FreshPeer
    /\ references' = Release(Release(Release(references, peer.sent),
                                     peer.outgoing), peer.unreliable)
    /\ flights' = {}
    /\ idle' = 0
    /\ UNCHANGED <<now, numbers, pings>>

\* enet_protocol_notify_disconnect out of enet_protocol_check_timeouts.
GiveUp == fate = "connected" /\ GivesUp /\ Reset("abandoned")

\* The peer is reset for any other reason.
Close == fate = "connected" /\ Reset("closed")

-----------------------------------------------------------------------------
(***************************************************************************)
(* enet_protocol_handle_acknowledge.                                       *)
(***************************************************************************)

SentTimeUncorrected(low) == serviceTime - (serviceTime % Half) + low

\* The sent time out of its lower half.
SentTime(low) ==
    LET guess == serviceTime - (serviceTime % Half) + low
    IN  IF low >= Half \div 2 /\ serviceTime % Half < Half \div 2
        THEN Minus(guess, Half) ELSE guess

Counts(f) == ~ Less(serviceTime, SentTime(f.sent % Half))
RoundTrip(f) == Difference(serviceTime, SentTime(f.sent % Half))

\* The smoothed round trip time and its variance after a measurement.
Measured(p, time) ==
    LET calmer == p.variance - p.variance \div Share
        rtt == IF time >= p.roundTripTime
               THEN p.roundTripTime + (time - p.roundTripTime) \div Share
               ELSE p.roundTripTime - (p.roundTripTime - time) \div Share
        off == IF time >= rtt THEN time - rtt ELSE rtt - time
    IN  [p EXCEPT !.roundTripTime = rtt, !.variance = calmer + off \div Share]

\* enet_peer_throttle
Throttles(t) ==
    {t, ThrottleScale,
     IF t + ThrottleStep > ThrottleScale THEN ThrottleScale ELSE t + ThrottleStep,
     IF t > ThrottleStep THEN t - ThrottleStep ELSE 0}

Without(commands, n) == Those(commands, {c \in Range(commands) : c.number # n})
Numbered(commands, n) == Those(commands, {c \in Range(commands) : c.number = n})

\* Where the command with number n is: `sent', or among the commands at the
\* front of `outgoing' that have been sent before.
IsSent(n) == \E i \in DOMAIN peer.sent : peer.sent[i].number = n
IsWaiting(n) ==
    \E i \in DOMAIN peer.outgoing :
       /\ peer.outgoing[i].number = n
       /\ \A j \in 1 .. i : peer.outgoing[j].first # 0

RemoveSentAlways(p, n) ==
    LET of == Numbered(p.sent \o p.outgoing, n)
        left == [p EXCEPT !.sent = Without(@, n), !.outgoing = Without(@, n),
                          !.inTransit = @ - Length(of)]
    IN  IF ~ (IsSent(n) \/ IsWaiting(n)) \/ left.sent = <<>> THEN left
        ELSE [left EXCEPT !.nextTimeout = Expiry(Head(left.sent))]

\* enet_protocol_remove_sent_reliable_command: only what is `sent' counts as
\* in transit.
RemoveSent(p, n) ==
    LET left == IF IsSent(n)
                THEN [p EXCEPT !.sent = Without(@, n),
                               !.inTransit = @ - Length(Numbered(p.sent, n))]
                ELSE [p EXCEPT !.outgoing = Without(@, n)]
    IN  IF ~ (IsSent(n) \/ IsWaiting(n)) THEN p
        ELSE IF left.sent = <<>> THEN left
        ELSE [left EXCEPT !.nextTimeout = Expiry(Head(left.sent))]

Found(n) ==
    LET queue == IF IsSent(n) THEN peer.sent
                 ELSE IF IsWaiting(n) THEN peer.outgoing ELSE <<>>
    IN  Numbered(queue, n)

HandleAcknowledgeKeeping(f) ==
    /\ fate = "connected" /\ Counts(f)
    /\ \E t \in Throttles(peer.throttle) :
          peer' = RemoveSent([Measured(peer, RoundTrip(f)) EXCEPT
                                 !.throttle = t], f.number)
    /\ references' = Release(references, Found(f.number))
    /\ UNCHANGED <<now, idle, flights, fate, numbers, pings>>

\* An acknowledgement that seems to come from the future is ignored.
HandleAcknowledge(f) ==
    /\ fate = "connected" /\ Counts(f)
    /\ \E t \in Throttles(peer.throttle) :
          peer' = RemoveSent([Measured(peer, RoundTrip(f)) EXCEPT
                                 !.throttle = t, !.earliestTimeout = 0], f.number)
    /\ references' = Release(references, Found(f.number))
    /\ UNCHANGED <<now, idle, flights, fate, numbers, pings>>

\* Time goes by, and what is too old in the network is gone.
Tick ==
    /\ now < End /\ idle < MaxIdle /\ fate = "connected"
    /\ now' = now + 1
    /\ idle' = idle + 1
    /\ flights' = {f \in flights : now' - f.sent <= MaxDelay}
    /\ UNCHANGED <<peer, references, fate, numbers, pings>>

Next ==
    \/ \E packet \in Packets : Send(packet[1], packet[2])
    \/ \E check \in BOOLEAN : Pass(check)
    \/ \E f \in flights : HandleAcknowledge(f)
    \/ GiveUp
    \/ Close
    \/ Tick

Spec == Init /\ [][Next]_vars

-----------------------------------------------------------------------------
(***************************************************************************)
(* Properties.                                                             *)
(***************************************************************************)

Reliable == peer.sent \o peer.outgoing
Unacknowledged == {Reliable[i] : i \in DOMAIN Reliable}

\* The window counts what is on its way, and only that.
InTransitExact == peer.inTransit = Length(peer.sent)

\* A packet lives as long as a command refers to it.
ReferencesExact ==
    \A p \in DOMAIN references :
       references[p] = Holding(Reliable, p) + Holding(peer.unreliable, p)

\* The timer is that of the first command in the list.
TimerExact == peer.sent # <<>> => peer.nextTimeout = Expiry(Head(peer.sent))

\* What was sent before is sent again before anything new: a late
\* acknowledgement finds its command at the front of the queue.
RetransmitsFirst ==
    \A i, j \in DOMAIN peer.outgoing :
       i < j /\ peer.outgoing[j].first # 0 => peer.outgoing[i].first # 0

\* The counts that the code keeps by hand, across sending, expiry, late
\* acknowledgements and the end of the connection, are right.
Accounted == InTransitExact /\ ReferencesExact /\ TimerExact /\ RetransmitsFirst

\* A connection is given up only when something that was sent has been without
\* an acknowledgement for TimeoutMinimum, however the clock wraps.
Patience ==
    [][fate' = "abandoned" =>
          \E c \in Unacknowledged :
             c.first # 0 /\ now - c.first >= TimeoutMinimum]_vars

\* No pass leaves the queue waiting for nothing: what stays in it waits for an
\* acknowledgement of something that is sent, whatever the throttle.
SendingGoesOn ==
    [][peer'.outgoing # <<>> /\ peer'.sent = <<>> =>
          ~ \E check \in BOOLEAN : Pass(check)]_vars

\* A round trip of less than half the header's range is measured as it was,
\* and an older acknowledgement is ignored or measured too short, never long.
RoundTripRight ==
    \A f \in flights :
       IF now - f.sent < Half \div 2
       THEN Counts(f) /\ RoundTrip(f) = now - f.sent
       ELSE Counts(f) => RoundTrip(f) <= now - f.sent

=============================================================================
