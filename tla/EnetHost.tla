------------------------------ MODULE EnetHost ------------------------------
(***************************************************************************)
(* One ENet host (proxy/lib/src/{protocol,peer,host}.c) with PeerCount     *)
(* peer slots: the life of every peer from enet_host_connect or an         *)
(* incoming CONNECT to its DISCONNECT event, the dispatch queue, the       *)
(* host's counters and the phases of enet_host_service.                    *)
(*                                                                         *)
(* The fields of ENetHost and ENetPeer that decide control are one record, *)
(* "host"; each C function that changes them is an operator from the       *)
(* record before the call to the record after it.  Abstracted:             *)
(*   - a reliable command is its kind; at most one DATA and one CONTROL    *)
(*     (ping, bandwidth limit) command are outstanding per peer;           *)
(*   - time: whether a command has expired, or the ping or the throttle    *)
(*     interval has elapsed, is a choice of the step; strikes counts the   *)
(*     retransmission timeouts since the last acknowledgement;             *)
(*   - the network: a datagram holds any sequence of the commands an ENet  *)
(*     peer can send, stale and repeated ones included.                    *)
(* Operators named after another with a suffix (OnDisconnectUnguarded)     *)
(* are slips that the properties below must notice; no action uses them.   *)
(***************************************************************************)
EXTENDS Integers, FiniteSets, SequencesExt

CONSTANTS
    PeerCount,      \* host -> peerCount
    MaxStrikes,     \* bound: timeouts in a row before a peer must be given up
    MaxDispatched,  \* bound: packets waiting in a peer's dispatchedCommands
    EventArgs,      \* whether enet_host_service gets an event (TRUE) or NULL
    Limits,         \* whether a foreign host announces a bandwidth (TRUE) or 0
    Sends,          \* whether the application sends reliably (TRUE) or not
    Aborts          \* whether the application calls enet_peer_disconnect_now

ASSUME PeerCountAssumption == PeerCount \in Nat \ {0}
ASSUME BoundsAssumption == MaxStrikes \in Nat \ {0} /\ MaxDispatched \in Nat
ASSUME EventArgsAssumption == EventArgs \subseteq BOOLEAN /\ EventArgs # {}
ASSUME LimitsAssumption == Limits \subseteq BOOLEAN /\ Limits # {}
ASSUME SendsAssumption == Sends \subseteq BOOLEAN
ASSUME AbortsAssumption == Aborts \in BOOLEAN

Peers == 0 .. PeerCount - 1

States == {"DISCONNECTED", "CONNECTING", "ACKNOWLEDGING_CONNECT",
           "CONNECTION_PENDING", "CONNECTION_SUCCEEDED", "CONNECTED",
           "DISCONNECT_LATER", "DISCONNECTING", "ACKNOWLEDGING_DISCONNECT",
           "ZOMBIE"}

\* The two states in which a peer counts as connected.
Live == {"CONNECTED", "DISCONNECT_LATER"}

Kinds == {"CONNECT", "VERIFY_CONNECT", "DISCONNECT", "DATA", "CONTROL"}

NoEvent == [type |-> "NONE", peer |-> -1]
Event(t, p) == [type |-> t, peer |-> p]
Events == {NoEvent} \cup
          [type : {"CONNECT", "RECEIVE", "DISCONNECT"}, peer : Peers]

NoPeer == -1

Phases == {"idle", "dispatch1", "throttle", "send1", "receive", "send2",
           "dispatch2", "deliver", "flush"}

VARIABLES
    host,       \* the record described by HostType
    phase,      \* where enet_host_service, or enet_host_flush, is
    wantsEvent, \* the call in progress was given an event (not NULL)
    cursor,     \* currentPeer of the loop in send_outgoing_commands
    rx,         \* the peer whose datagram is being handled, or NoPeer
    doomed,     \* the peer enet_host_flush returns to reset, or NoPeer
    told,       \* history: the events the application got, per connection
    initiator,  \* history: the connection was opened by enet_host_connect
    asked       \* history: the application asked for a disconnection

vars == <<host, phase, wantsEvent, cursor, rx, doomed, told, initiator, asked>>
history == <<told, initiator, asked>>

HostType ==
    [state : [Peers -> States],
     needsDispatch : [Peers -> BOOLEAN],
     limited : [Peers -> BOOLEAN],           \* incomingBandwidth # 0
     ready : [Peers -> SUBSET Kinds],        \* outgoing, sendAttempts = 0
     resend : [Peers -> SUBSET Kinds],       \* outgoing, sendAttempts > 0
     sent : [Peers -> SUBSET Kinds],         \* sentReliableCommands
     unreliable : [Peers -> BOOLEAN],        \* outgoingUnreliableCommands
     acks : [Peers -> SUBSET {"DISCONNECT", "OTHER"}],
     dispatched : [Peers -> 0 .. MaxDispatched],
     strikes : [Peers -> 0 .. MaxStrikes],
     dispatchQueue : Seq(Peers),
     connectedPeers : Nat,                   \* size_t
     bandwidthLimitedPeers : Nat,            \* size_t
     recalculate : BOOLEAN,                  \* recalculateBandwidthLimits
     event : Events]

TypeOK ==
    /\ host \in HostType
    /\ phase \in Phases
    /\ wantsEvent \in BOOLEAN
    /\ cursor \in 0 .. PeerCount
    /\ rx \in Peers \cup {NoPeer}
    /\ doomed \in Peers \cup {NoPeer}
    /\ told \in [Peers -> SUBSET {"CONNECT", "DISCONNECT"}]
    /\ initiator \in [Peers -> BOOLEAN]
    /\ asked \in [Peers -> BOOLEAN]

\* enet_host_create: every slot is reset.
Init ==
    /\ host = [state |-> [p \in Peers |-> "DISCONNECTED"],
               needsDispatch |-> [p \in Peers |-> FALSE],
               limited |-> [p \in Peers |-> FALSE],
               ready |-> [p \in Peers |-> {}],
               resend |-> [p \in Peers |-> {}],
               sent |-> [p \in Peers |-> {}],
               unreliable |-> [p \in Peers |-> FALSE],
               acks |-> [p \in Peers |-> {}],
               dispatched |-> [p \in Peers |-> 0],
               strikes |-> [p \in Peers |-> 0],
               dispatchQueue |-> <<>>,
               connectedPeers |-> 0,
               bandwidthLimitedPeers |-> 0,
               recalculate |-> FALSE,
               event |-> NoEvent]
    /\ phase = "idle"
    /\ wantsEvent = FALSE
    /\ cursor = 0
    /\ rx = NoPeer
    /\ doomed = NoPeer
    /\ told = [p \in Peers |-> {}]
    /\ initiator = [p \in Peers |-> FALSE]
    /\ asked = [p \in Peers |-> FALSE]

-----------------------------------------------------------------------------
(***************************************************************************)
(* The functions that change a peer's state.                               *)
(***************************************************************************)

One(b) == IF b THEN 1 ELSE 0

OnConnect(h, p) ==
    IF h.state[p] \in Live THEN h
    ELSE [h EXCEPT !.bandwidthLimitedPeers = @ + One(h.limited[p]),
                   !.connectedPeers = @ + 1]

OnDisconnectUnguarded(h, p) ==
    [h EXCEPT !.bandwidthLimitedPeers = @ - One(h.limited[p]),
              !.connectedPeers = @ - 1]

OnDisconnect(h, p) ==
    IF h.state[p] \notin Live THEN h
    ELSE [h EXCEPT !.bandwidthLimitedPeers = @ - One(h.limited[p]),
                   !.connectedPeers = @ - 1]

ChangeState(h, p, s) ==
    [(IF s \in Live THEN OnConnect(h, p) ELSE OnDisconnect(h, p))
        EXCEPT !.state[p] = s]

EnqueueTwice(h, p) ==
    [h EXCEPT !.dispatchQueue = Append(@, p), !.needsDispatch[p] = TRUE]

\* A peer is linked into the dispatch queue at most once.
Enqueue(h, p) ==
    IF h.needsDispatch[p] THEN h
    ELSE [h EXCEPT !.dispatchQueue = Append(@, p), !.needsDispatch[p] = TRUE]

DispatchState(h, p, s) == Enqueue(ChangeState(h, p, s), p)

\* enet_list_remove of a peer's dispatchList.
Unlink(queue, p) ==
    RemoveAt(queue, CHOOSE i \in DOMAIN queue : queue[i] = p)

ResetQueues(h, p) ==
    [h EXCEPT
        !.dispatchQueue = IF h.needsDispatch[p] THEN Unlink(@, p) ELSE @,
        !.needsDispatch[p] = FALSE,
        !.acks[p] = {},
        !.sent[p] = {}, !.ready[p] = {}, !.resend[p] = {},
        !.unreliable[p] = FALSE,
        !.dispatched[p] = 0]

PeerResetKeepingQueues(h, p) ==
    [OnDisconnect(h, p) EXCEPT !.state[p] = "DISCONNECTED",
                               !.limited[p] = FALSE, !.strikes[p] = 0]

PeerReset(h, p) ==
    ResetQueues([OnDisconnect(h, p) EXCEPT !.state[p] = "DISCONNECTED",
                                           !.limited[p] = FALSE,
                                           !.strikes[p] = 0], p)

NotifyConnectUnqueued(h, p, ev) ==
    LET g == [h EXCEPT !.recalculate = TRUE]
    IN  IF ev
        THEN [ChangeState(g, p, "CONNECTED") EXCEPT
                 !.event = Event("CONNECT", p)]
        ELSE ChangeState(g, p, IF h.state[p] = "CONNECTING"
                               THEN "CONNECTION_SUCCEEDED"
                               ELSE "CONNECTION_PENDING")

\* enet_protocol_notify_connect; ev: the caller's event is not NULL.
NotifyConnect(h, p, ev) ==
    LET g == [h EXCEPT !.recalculate = TRUE]
    IN  IF ev
        THEN [ChangeState(g, p, "CONNECTED") EXCEPT
                 !.event = Event("CONNECT", p)]
        ELSE DispatchState(g, p, IF h.state[p] = "CONNECTING"
                                 THEN "CONNECTION_SUCCEEDED"
                                 ELSE "CONNECTION_PENDING")

NotifyDisconnectAlways(h, p, ev) ==
    IF ev THEN PeerReset([h EXCEPT !.event = Event("DISCONNECT", p)], p)
    ELSE DispatchState(h, p, "ZOMBIE")

NotifyDisconnect(h, p, ev) ==
    LET g == [h EXCEPT !.recalculate =
                 @ \/ h.state[p] \notin {"DISCONNECTED", "CONNECTING",
                                         "ACKNOWLEDGING_CONNECT"}]
    IN  CASE h.state[p] \in {"DISCONNECTED", "ACKNOWLEDGING_CONNECT",
                             "CONNECTION_PENDING"} -> PeerReset(g, p)
          [] OTHER ->
                IF ev
                THEN PeerReset([g EXCEPT !.event = Event("DISCONNECT", p)], p)
                ELSE DispatchState(g, p, "ZOMBIE")

\* Nothing is left to send to p or to be acknowledged by it.
Drained(h, p) == h.ready[p] \cup h.resend[p] \cup h.sent[p] = {}

DisconnectLiveUncounted(h, p) ==
    [ResetQueues(h, p) EXCEPT !.ready[p] = {"DISCONNECT"},
                              !.state[p] = "DISCONNECTING"]

\* enet_peer_disconnect of a live peer: it ends with the acknowledged DISCONNECT.
DisconnectLive(h, p) ==
    LET g == OnDisconnect(ResetQueues(h, p), p)
    IN  [g EXCEPT !.ready[p] = {"DISCONNECT"}, !.state[p] = "DISCONNECTING"]

DisconnectNever(h, p) == h

\* The check after a list of a DISCONNECT_LATER peer may have become empty.
DisconnectIfDrained(h, p) ==
    IF h.state[p] = "DISCONNECT_LATER" /\ Drained(h, p) /\ ~h.unreliable[p]
    THEN DisconnectLive(h, p)
    ELSE h

-----------------------------------------------------------------------------
(***************************************************************************)
(* The application's calls.  The program has one thread: they come between *)
(* two calls of enet_host_service.                                         *)
(***************************************************************************)

Idle == phase = "idle"

\* A new connection in slot p: what was said of the previous one is forgotten.
NewConnection(p, mine) ==
    /\ told' = [told EXCEPT ![p] = {}]
    /\ initiator' = [initiator EXCEPT ![p] = mine]
    /\ asked' = [asked EXCEPT ![p] = FALSE]

\* The first slot, in array order, that is DISCONNECTED.
IsFirstFree(p) ==
    /\ host.state[p] = "DISCONNECTED"
    /\ \A q \in Peers : q < p => host.state[q] # "DISCONNECTED"

\* enet_host_connect
Connect(p) ==
    /\ Idle
    /\ IsFirstFree(p)
    /\ host' = [host EXCEPT !.state[p] = "CONNECTING",
                            !.ready[p] = @ \cup {"CONNECT"}]
    /\ NewConnection(p, TRUE)
    /\ UNCHANGED <<phase, wantsEvent, cursor, rx, doomed>>

Outstanding(h, p) == h.ready[p] \cup h.resend[p] \cup h.sent[p]

\* enet_peer_send; any other state is refused.
Send(p, reliable) ==
    /\ Idle
    /\ host.state[p] = "CONNECTED"
    /\ IF reliable
       THEN /\ "DATA" \notin Outstanding(host, p)
            /\ host' = [host EXCEPT !.ready[p] = @ \cup {"DATA"}]
       ELSE host' = [host EXCEPT !.unreliable[p] = TRUE]
    /\ UNCHANGED <<phase, wantsEvent, cursor, rx, doomed, history>>

\* Queue the unsequenced DISCONNECT, flush, and reset p when the flush is over.
FlushAndReset(p) ==
    /\ host' = [ResetQueues(host, p) EXCEPT !.unreliable[p] = TRUE]
    /\ phase' = "flush"
    /\ cursor' = 0
    /\ doomed' = p
    /\ UNCHANGED <<wantsEvent, rx>>

Disconnect(p) ==
    /\ Idle
    /\ host.state[p] \notin {"DISCONNECTING", "DISCONNECTED",
                             "ACKNOWLEDGING_DISCONNECT", "ZOMBIE"}
    /\ asked' = [asked EXCEPT ![p] = TRUE]
    /\ UNCHANGED <<told, initiator>>
    /\ \/ /\ host.state[p] \in Live
          /\ host' = DisconnectLive(host, p)
          /\ UNCHANGED <<phase, wantsEvent, cursor, rx, doomed>>
       \/ /\ host.state[p] \notin Live
          /\ FlushAndReset(p)

DisconnectLater(p) ==
    IF host.state[p] \in Live /\ ~(Drained(host, p) /\ ~host.unreliable[p])
    THEN /\ Idle
         /\ host' = [host EXCEPT !.state[p] = "DISCONNECT_LATER"]
         /\ asked' = [asked EXCEPT ![p] = TRUE]
         /\ UNCHANGED <<phase, wantsEvent, cursor, rx, doomed, told, initiator>>
    ELSE Disconnect(p)

DisconnectNow(p) ==
    /\ Idle
    /\ Aborts
    /\ host.state[p] # "DISCONNECTED"
    /\ asked' = [asked EXCEPT ![p] = FALSE]
    /\ UNCHANGED <<told, initiator>>
    /\ \/ /\ host.state[p] \in {"ZOMBIE", "DISCONNECTING"}
          /\ host' = PeerReset(host, p)
          /\ UNCHANGED <<phase, wantsEvent, cursor, rx, doomed>>
       \/ /\ host.state[p] \notin {"ZOMBIE", "DISCONNECTING"}
          /\ FlushAndReset(p)

Application(p) ==
    \/ Connect(p)
    \/ \E reliable \in Sends : Send(p, reliable)
    \/ Disconnect(p)
    \/ DisconnectLater(p)
    \/ DisconnectNow(p)

-----------------------------------------------------------------------------
(***************************************************************************)
(* enet_host_service: dispatch, send, receive, send, dispatch.             *)
(***************************************************************************)

Return ==
    /\ phase' = "idle"
    /\ wantsEvent' = FALSE
    /\ cursor' = 0

Service ==
    /\ Idle
    /\ \E ev \in EventArgs :
          /\ wantsEvent' = ev
          /\ phase' = IF ev THEN "dispatch1" ELSE "throttle"
    /\ UNCHANGED <<host, cursor, rx, doomed, history>>

\* enet_host_bandwidth_throttle, when its interval has elapsed: every live peer
\* is sent the bandwidth limit that must be recalculated.
BandwidthThrottle ==
    /\ phase = "throttle"
    /\ phase' = "send1"
    /\ \/ UNCHANGED host
       \/ /\ host.connectedPeers # 0
          /\ host.recalculate
          /\ host' = [host EXCEPT
                 !.recalculate = FALSE,
                 !.ready = [p \in Peers |->
                     IF /\ host.state[p] \in Live
                        /\ "CONTROL" \notin Outstanding(host, p)
                     THEN @[p] \cup {"CONTROL"}
                     ELSE @[p]]]
    /\ UNCHANGED <<wantsEvent, cursor, rx, doomed, history>>

\* enet_protocol_dispatch_incoming_commands, one iteration of its loop.
DispatchNext(p) ==
    /\ phase \in {"dispatch1", "dispatch2"}
    /\ host.dispatchQueue # <<>>
    /\ p = Head(host.dispatchQueue)
    /\ LET g == [host EXCEPT !.dispatchQueue = Tail(@),
                             !.needsDispatch[p] = FALSE]
       IN  \/ /\ host.state[p] \in {"CONNECTION_PENDING", "CONNECTION_SUCCEEDED"}
              /\ host' = [ChangeState(g, p, "CONNECTED") EXCEPT
                             !.event = Event("CONNECT", p)]
              /\ phase' = "deliver"
           \/ /\ host.state[p] = "ZOMBIE"
              /\ host' = PeerReset([g EXCEPT !.recalculate = TRUE,
                                             !.event = Event("DISCONNECT", p)], p)
              /\ phase' = "deliver"
           \/ /\ host.state[p] = "CONNECTED" /\ host.dispatched[p] > 0
              /\ LET r == [g EXCEPT !.dispatched[p] = @ - 1,
                                    !.event = Event("RECEIVE", p)]
                 IN  host' = IF r.dispatched[p] > 0 THEN Enqueue(r, p) ELSE r
              /\ phase' = "deliver"
           \/ /\ \/ host.state[p] \notin {"CONNECTION_PENDING", "ZOMBIE",
                                          "CONNECTION_SUCCEEDED", "CONNECTED"}
                 \/ host.state[p] = "CONNECTED" /\ host.dispatched[p] = 0
              /\ host' = g
              /\ UNCHANGED phase
    /\ UNCHANGED <<wantsEvent, cursor, rx, doomed, history>>

DispatchDone ==
    /\ host.dispatchQueue = <<>>
    /\ \/ /\ phase = "dispatch1"
          /\ phase' = "throttle"
          /\ UNCHANGED <<wantsEvent, cursor>>
       \/ phase = "dispatch2" /\ Return
    /\ UNCHANGED <<host, rx, doomed, history>>

\* The application gets the event of the call that returns 1.
Deliver(p) ==
    /\ phase = "deliver"
    /\ host.event.peer = p
    /\ told' = IF host.event.type = "RECEIVE" THEN told
               ELSE [told EXCEPT ![p] = @ \cup {host.event.type}]
    /\ host' = [host EXCEPT !.event = NoEvent]
    /\ Return
    /\ UNCHANGED <<rx, doomed, initiator, asked>>

-----------------------------------------------------------------------------
(***************************************************************************)
(* enet_protocol_send_outgoing_commands, one peer at a time.               *)
(***************************************************************************)

SendAcknowledgementsOnly(h, p) == [h EXCEPT !.acks[p] = {}]

\* The acknowledgement of a DISCONNECT ends the connection.
SendAcknowledgements(h, p) ==
    LET g == IF "DISCONNECT" \in h.acks[p] THEN DispatchState(h, p, "ZOMBIE")
             ELSE h
    IN  [g EXCEPT !.acks[p] = {}]

\* Commands whose timeout expired go back to the outgoing list.
CheckTimeouts(h, p, expired) ==
    IF expired = {} THEN h
    ELSE [h EXCEPT !.sent[p] = @ \ expired,
                   !.resend[p] = @ \cup expired,
                   !.strikes[p] = @ + 1]

SendReliable(h, p) ==
    [h EXCEPT !.sent[p] = @ \cup h.ready[p] \cup h.resend[p],
              !.ready[p] = {}, !.resend[p] = {}]

\* enet_peer_ping, for a peer that nothing is awaited from.
Ping(h, p) ==
    IF h.sent[p] = {} /\ h.state[p] = "CONNECTED"
    THEN SendReliable([h EXCEPT !.ready[p] = {"CONTROL"}], p)
    ELSE h

\* Sending and enet_protocol_remove_sent_unreliable_commands.
SendUnreliable(h, p) ==
    IF ~h.unreliable[p] THEN h
    ELSE DisconnectIfDrained([h EXCEPT !.unreliable[p] = FALSE], p)

Sending == phase \in {"send1", "send2", "flush"} /\ cursor < PeerCount

SkipPeer(p) ==
    /\ Sending
    /\ cursor = p
    /\ host.state[p] \in {"DISCONNECTED", "ZOMBIE"}
    /\ cursor' = cursor + 1
    /\ UNCHANGED <<host, phase, wantsEvent, rx, doomed, history>>

\* The packet for p leaves, or enet_socket_send fails and the pass ends there.
SendTo(p, expired, ping, fails) ==
    /\ Sending
    /\ cursor = p
    /\ host.state[p] \notin {"DISCONNECTED", "ZOMBIE"}
    /\ phase = "flush" \/ host.strikes[p] = MaxStrikes => expired = {}
    /\ LET reliable == SendReliable(CheckTimeouts(SendAcknowledgements(host, p),
                                                  p, expired), p)
       IN  host' = SendUnreliable(IF ping THEN Ping(reliable, p) ELSE reliable, p)
    /\ fails => host' # host
    /\ IF fails /\ phase # "flush"
       THEN Return
       ELSE /\ cursor' = IF fails THEN PeerCount ELSE cursor + 1
            /\ UNCHANGED <<phase, wantsEvent>>
    /\ UNCHANGED <<rx, doomed, history>>

GiveUpConnectedOnly(p) ==
    /\ Sending
    /\ phase # "flush"
    /\ cursor = p
    /\ host.state[p] \in Live \cup {"DISCONNECTING"}
    /\ host.sent[p] # {}
    /\ host' = NotifyDisconnect(SendAcknowledgements(host, p), p, wantsEvent)
    /\ IF host'.event # NoEvent
       THEN phase' = "deliver" /\ cursor' = 0
       ELSE cursor' = cursor + 1 /\ UNCHANGED phase
    /\ UNCHANGED <<wantsEvent, rx, doomed, history>>

\* A command of p was not acknowledged for too long: the peer is given up.
GiveUp(p) ==
    /\ Sending
    /\ phase # "flush"
    /\ cursor = p
    /\ host.state[p] \notin {"DISCONNECTED", "ZOMBIE"}
    /\ host.sent[p] # {}
    /\ host' = NotifyDisconnect(SendAcknowledgements(host, p), p, wantsEvent)
    /\ IF host'.event # NoEvent
       THEN phase' = "deliver" /\ cursor' = 0
       ELSE cursor' = cursor + 1 /\ UNCHANGED phase
    /\ UNCHANGED <<wantsEvent, rx, doomed, history>>

SendDone ==
    /\ cursor = PeerCount
    /\ \/ /\ phase = "send1"
          /\ phase' = "receive" /\ cursor' = 0
          /\ UNCHANGED <<host, wantsEvent, doomed>>
       \/ /\ phase = "send2" /\ wantsEvent
          /\ phase' = "dispatch2" /\ cursor' = 0
          /\ UNCHANGED <<host, wantsEvent, doomed>>
       \/ /\ phase = "send2" /\ ~wantsEvent
          /\ Return
          /\ UNCHANGED <<host, doomed>>
       \/ /\ phase = "flush"
          /\ host' = PeerReset(host, doomed)
          /\ doomed' = NoPeer
          /\ Return
    /\ UNCHANGED <<rx, history>>

-----------------------------------------------------------------------------
(***************************************************************************)
(* enet_protocol_receive_incoming_commands: a datagram is checked once,    *)
(* when it arrives; its commands are then handled one after the other.     *)
(***************************************************************************)

Receiving == phase = "receive" /\ rx = NoPeer

ReceiveDatagram(p) ==
    /\ Receiving
    /\ host.state[p] \notin {"DISCONNECTED", "ZOMBIE"}
    /\ rx' = p
    /\ UNCHANGED <<host, phase, wantsEvent, cursor, doomed, history>>

EndOfDatagramOnly(h) == rx' = NoPeer /\ phase' = "receive"

\* The datagram is over, or a command was in error and the rest is dropped.
EndOfDatagram(h) ==
    /\ rx' = NoPeer
    /\ phase' = IF h.event # NoEvent THEN "deliver" ELSE "receive"

EndDatagram ==
    /\ rx # NoPeer
    /\ EndOfDatagram(host)
    /\ UNCHANGED <<host, wantsEvent, cursor, doomed, history>>

\* The socket is empty, or fails, or 256 datagrams were handled (-1).
ReceiveDone ==
    /\ Receiving
    /\ \/ /\ phase' = "send2"
          /\ UNCHANGED <<wantsEvent, cursor>>
       \/ Return
    /\ UNCHANGED <<host, rx, doomed, history>>

\* Which handled commands are acknowledged.
QueueAcknowledgement(h, p, kind) ==
    IF \/ h.state[p] \in {"DISCONNECTING", "ACKNOWLEDGING_CONNECT",
                          "DISCONNECTED", "ZOMBIE"}
       \/ h.state[p] = "ACKNOWLEDGING_DISCONNECT" /\ kind # "DISCONNECT"
    THEN h
    ELSE [h EXCEPT !.acks[p] = @ \cup {kind}]

\* enet_protocol_handle_connect of a CONNECT that is not a duplicate.
HandleConnect(p, lim) ==
    /\ Receiving
    /\ IsFirstFree(p)
    /\ host' = [host EXCEPT !.state[p] = "ACKNOWLEDGING_CONNECT",
                            !.limited[p] = lim,
                            !.ready[p] = @ \cup {"VERIFY_CONNECT"}]
    /\ rx' = p
    /\ NewConnection(p, FALSE)
    /\ UNCHANGED <<phase, wantsEvent, cursor, doomed>>

\* enet_protocol_remove_sent_reliable_command: a command counts as acknowledged
\* only once it has been sent.
RemoveSentReliable(h, p, kind) ==
    [h EXCEPT !.sent[p] = @ \ {kind}, !.resend[p] = @ \ {kind}]

\* kind: the command the acknowledgement names (never CONNECT: a host that
\* handles one is ACKNOWLEDGING_CONNECT, which queues no acknowledgement).
HandleAcknowledge(p, kind) ==
    /\ rx = p
    /\ host.state[p] \notin {"DISCONNECTED", "ZOMBIE"}
    /\ LET removed == kind \in host.sent[p] \cup host.resend[p]
           g == RemoveSentReliable([host EXCEPT !.strikes[p] = 0], p, kind)
       IN  \/ /\ host.state[p] = "ACKNOWLEDGING_CONNECT"
              /\ removed /\ kind = "VERIFY_CONNECT"
              /\ host' = NotifyConnect(g, p, wantsEvent)
              /\ UNCHANGED <<rx, phase>>
           \/ /\ host.state[p] = "DISCONNECTING"
              /\ removed /\ kind = "DISCONNECT"
              /\ host' = NotifyDisconnect(g, p, wantsEvent)
              /\ UNCHANGED <<rx, phase>>
           \/ /\ \/ /\ host.state[p] = "ACKNOWLEDGING_CONNECT"
                    /\ ~(removed /\ kind = "VERIFY_CONNECT")
                 \/ /\ host.state[p] = "DISCONNECTING"
                    /\ ~(removed /\ kind = "DISCONNECT")
              /\ host' = g
              /\ EndOfDatagram(g)
           \/ /\ host.state[p] \notin {"ACKNOWLEDGING_CONNECT", "DISCONNECTING"}
              /\ host' = DisconnectIfDrained(g, p)
              /\ UNCHANGED <<rx, phase>>
    /\ UNCHANGED <<wantsEvent, cursor, doomed, history>>

HandleVerifyConnectAnyState(p, good, lim) ==
    /\ rx = p
    /\ LET g == [RemoveSentReliable(host, p, "CONNECT") EXCEPT !.limited[p] = lim]
       IN  host' = QueueAcknowledgement(NotifyConnect(g, p, wantsEvent), p, "OTHER")
    /\ UNCHANGED <<rx, phase, wantsEvent, cursor, doomed, history>>

\* good: the parameters are those the CONNECT asked for, and its connectID.
HandleVerifyConnect(p, good, lim) ==
    /\ rx = p
    /\ \/ /\ host.state[p] # "CONNECTING"
          /\ host' = QueueAcknowledgement(host, p, "OTHER")
          /\ UNCHANGED <<rx, phase>>
       \/ /\ host.state[p] = "CONNECTING" /\ good
          /\ "CONNECT" \notin host.ready[p]
          /\ LET g == [RemoveSentReliable(host, p, "CONNECT") EXCEPT
                           !.limited[p] = lim]
             IN  host' = QueueAcknowledgement(NotifyConnect(g, p, wantsEvent),
                                              p, "OTHER")
          /\ UNCHANGED <<rx, phase>>
       \/ /\ host.state[p] = "CONNECTING" /\ ~good
          /\ host' = DispatchState(host, p, "ZOMBIE")
          /\ EndOfDatagram(host)
    /\ UNCHANGED <<wantsEvent, cursor, doomed, history>>

\* The state a DISCONNECT leads to; ack: it asks for an acknowledgement.
Disconnected(h, p, ack) ==
    LET g == ResetQueues(h, p)
    IN  CASE h.state[p] \in {"CONNECTION_SUCCEEDED", "DISCONNECTING",
                             "CONNECTING"} -> DispatchState(g, p, "ZOMBIE")
          [] h.state[p] \in {"ACKNOWLEDGING_CONNECT", "CONNECTION_PENDING"} ->
                PeerReset([g EXCEPT !.recalculate =
                              @ \/ h.state[p] = "CONNECTION_PENDING"], p)
          [] h.state[p] \in Live /\ ack ->
                ChangeState(g, p, "ACKNOWLEDGING_DISCONNECT")
          [] h.state[p] \in Live /\ ~ack -> DispatchState(g, p, "ZOMBIE")
          [] OTHER -> h

HandleDisconnect(p, ack) ==
    /\ rx = p
    /\ LET g == Disconnected(host, p, ack)
       IN  host' = IF ack THEN QueueAcknowledgement(g, p, "DISCONNECT") ELSE g
    /\ UNCHANGED <<phase, rx, wantsEvent, cursor, doomed, history>>

\* A command that a peer which is not live answers with an error.
HandleLive(p, h) ==
    /\ rx = p
    /\ IF host.state[p] \in Live
       THEN host' = h /\ UNCHANGED <<rx, phase>>
       ELSE EndOfDatagram(host) /\ UNCHANGED host
    /\ UNCHANGED <<wantsEvent, cursor, doomed, history>>

HandlePing(p) == HandleLive(p, QueueAcknowledgement(host, p, "OTHER"))

HandleBandwidthLimitTwice(p, lim) ==
    HandleLive(p,
        QueueAcknowledgement(
            [host EXCEPT !.bandwidthLimitedPeers = @ + One(lim),
                         !.limited[p] = lim], p, "OTHER"))

HandleBandwidthLimit(p, lim) ==
    HandleLive(p,
        QueueAcknowledgement(
            [host EXCEPT !.bandwidthLimitedPeers =
                             @ - One(host.limited[p]) + One(lim),
                         !.limited[p] = lim], p, "OTHER"))

\* Packets that become dispatchable: the one that arrived and those it unblocks.
DispatchPackets(h, p, n) ==
    IF n = 0 THEN h ELSE Enqueue([h EXCEPT !.dispatched[p] = @ + n], p)

\* SEND_RELIABLE, SEND_UNRELIABLE, ...; a DISCONNECT_LATER peer discards them.
HandleSend(p, n, ack) ==
    /\ n <= MaxDispatched - host.dispatched[p]
    /\ host.state[p] = "DISCONNECT_LATER" => n = 0
    /\ HandleLive(p,
           LET g == DispatchPackets(host, p, n)
           IN  IF ack THEN QueueAcknowledgement(g, p, "OTHER") ELSE g)

Handle(p) ==
    \/ \E kind \in Kinds \ {"CONNECT"} : HandleAcknowledge(p, kind)
    \/ \E good \in BOOLEAN, lim \in Limits : HandleVerifyConnect(p, good, lim)
    \/ \E ack \in BOOLEAN : HandleDisconnect(p, ack)
    \/ HandlePing(p)
    \/ \E lim \in Limits : HandleBandwidthLimit(p, lim)
    \/ \E n \in 0 .. MaxDispatched, ack \in BOOLEAN : HandleSend(p, n, ack)

Receive ==
    \/ \E p \in Peers :
          \/ ReceiveDatagram(p)
          \/ \E lim \in Limits : HandleConnect(p, lim)
          \/ Handle(p)
    \/ EndDatagram
    \/ ReceiveDone

SendOutgoing ==
    \/ \E p \in Peers :
          \/ SkipPeer(p)
          \/ \E expired \in SUBSET host.sent[p], ping, fails \in BOOLEAN :
                SendTo(p, expired, ping, fails)
          \/ GiveUp(p)
    \/ SendDone

Dispatch == DispatchDone \/ \E p \in Peers : DispatchNext(p) \/ Deliver(p)

Next ==
    \/ \E p \in Peers : Application(p)
    \/ Service \/ BandwidthThrottle \/ Dispatch \/ SendOutgoing \/ Receive

Spec == Init /\ [][Next]_vars

-----------------------------------------------------------------------------
(***************************************************************************)
(* Properties.                                                             *)
(***************************************************************************)

LivePeers(h) == {p \in Peers : h.state[p] \in Live}

LimitedPeers(h) == {p \in LivePeers(h) : h.limited[p]}

\* connectedPeers, which enet_host_bandwidth_throttle divides the host's
\* bandwidth by, is the number of peers in a live state, whichever of the dozen
\* paths into and out of those states was taken.
ConnectedCount == host.connectedPeers = Cardinality(LivePeers(host))

\* bandwidthLimitedPeers is the number of live peers with an incoming bandwidth,
\* although the bandwidth changes both before and after a peer becomes live.
LimitedCount == host.bandwidthLimitedPeers = Cardinality(LimitedPeers(host))

\* dispatchQueue is an intrusive list: a peer is linked once, exactly while its
\* needsDispatch is set, so that no function unlinks or links it twice.
DispatchQueueLinked ==
    /\ IsInjective(host.dispatchQueue)
    /\ ToSet(host.dispatchQueue) = {p \in Peers : host.needsDispatch[p]}

\* A peer that owes the application an event, a connection, a disconnection or
\* a received packet, is in the dispatch queue: its event cannot be forgotten.
OwedEventIsQueued ==
    \A p \in Peers :
        \/ host.state[p] \in {"CONNECTION_PENDING", "CONNECTION_SUCCEEDED",
                              "ZOMBIE"}
        \/ host.state[p] = "CONNECTED" /\ host.dispatched[p] > 0
        => host.needsDispatch[p] \/ doomed = p

\* A slot that is DISCONNECTED carries nothing over to the connection that
\* reuses it: no queue, no acknowledgement, no dispatch, no bandwidth limit.
DisconnectedIsClean ==
    \A p \in Peers :
        host.state[p] = "DISCONNECTED" =>
            /\ Outstanding(host, p) = {} /\ host.acks[p] = {}
            /\ ~host.unreliable[p] /\ ~host.limited[p]
            /\ host.dispatched[p] = 0 /\ ~host.needsDispatch[p]
            /\ host.strikes[p] = 0

\* A peer that disconnects "later" still waits for something: the moment its
\* last queued command leaves or is acknowledged, the disconnection starts.
LaterIsWaiting ==
    \A p \in Peers :
        host.state[p] = "DISCONNECT_LATER" =>
            host.unreliable[p] \/ ~Drained(host, p)

\* The events of a connection come in order: at most one CONNECT, RECEIVE only
\* after it, at most one DISCONNECT and nothing after it; a DISCONNECT without
\* a CONNECT only for a connection this host opened.
EventOrder ==
    LET e == host.event
        heard == told[e.peer]
    IN  e # NoEvent =>
            /\ "DISCONNECT" \notin heard
            /\ e.type = "CONNECT" => "CONNECT" \notin heard
            /\ e.type = "RECEIVE" => "CONNECT" \in heard
            /\ e.type = "DISCONNECT" =>
                   "CONNECT" \in heard \/ initiator[e.peer]

\* An event that was set is what the call returns: the commands that follow in
\* the same datagram do not overwrite it, and it is there until delivered.
EventKept ==
    [][host.event # NoEvent =>
           host'.event = host.event \/ (phase = "deliver" /\ phase' = "idle")]_vars

\* A peer that is on its way out comes back to life only as a new connection.
NoResurrection ==
    [][\A p \in Peers :
          /\ host.state[p] \in {"DISCONNECTING", "ACKNOWLEDGING_DISCONNECT",
                                "ZOMBIE", "DISCONNECTED"}
          /\ host'.state[p] \notin {"DISCONNECTING", "ACKNOWLEDGING_DISCONNECT",
                                    "ZOMBIE", "DISCONNECTED"}
          => /\ host.state[p] = "DISCONNECTED"
             /\ host'.state[p] \in {"CONNECTING", "ACKNOWLEDGING_CONNECT"}]_vars

\* peer.c: "An ENET_EVENT_DISCONNECT event will be generated by
\* enet_host_service() once the disconnection is complete."
DisconnectAnswered ==
    \A p \in Peers :
        asked[p] /\ host.state[p] = "DISCONNECTED" =>
            \/ "DISCONNECT" \in told[p]
            \/ host.event = Event("DISCONNECT", p)

-----------------------------------------------------------------------------
(***************************************************************************)
(* Liveness.  The program calls enet_host_service in a loop, every loop of *)
(* it ends, and time passes: a command that is never acknowledged expires  *)
(* in one of infinitely many passes over its peer.                         *)
(***************************************************************************)

Expire(p) ==
    \/ GiveUp(p)
    \/ \E expired \in (SUBSET host.sent[p]) \ {{}}, ping, fails \in BOOLEAN :
          SendTo(p, expired, ping, fails)

Sent(p) == \E ping \in BOOLEAN, expired \in SUBSET host.sent[p] :
               SendTo(p, expired, ping, FALSE)

Fairness ==
    /\ WF_vars(Service) /\ SF_vars(Service /\ wantsEvent')
    /\ WF_vars(BandwidthThrottle) /\ WF_vars(Dispatch)
    /\ WF_vars(SendOutgoing) /\ WF_vars(EndDatagram)
    /\ SF_vars(ReceiveDone)     \* the loop ends after 256 datagrams
    /\ \A p \in Peers : SF_vars(Expire(p)) /\ SF_vars(Sent(p))

\* An acknowledgement of nothing that p is waited for: it is a late duplicate,
\* of which the network holds finitely many.
StaleAcknowledge(p) ==
    \E kind \in Kinds \ {"CONNECT"} :
        /\ kind \notin host.sent[p] \cup host.resend[p]
        /\ HandleAcknowledge(p, kind)

StaleSettles == <>[][\A p \in Peers : ~StaleAcknowledge(p)]_vars

\* What the application sees of a peer's state.
LifeOf(state) ==
    CASE state = "DISCONNECTED" -> "free"
      [] state \in {"CONNECTING", "ACKNOWLEDGING_CONNECT", "CONNECTION_PENDING",
                    "CONNECTION_SUCCEEDED"} -> "opening"
      [] state = "CONNECTED" -> "open"
      [] state \in {"DISCONNECT_LATER", "DISCONNECTING",
                    "ACKNOWLEDGING_DISCONNECT"} -> "closing"
      [] state = "ZOMBIE" -> "lost"

Life == INSTANCE EnetPeerLife WITH
            life <- [p \in Peers |-> LifeOf(host.state[p])],
            event <- host.event

\* The host implements the contract of EnetPeerLife: in particular an open
\* connection never ends without a DISCONNECT event, nor opens without CONNECT.
ImplementsLife == Life!Spec

LiveSpec == Spec /\ Fairness /\ StaleSettles

\* A disconnection the application asked for completes: the foreign host
\* acknowledges it, or the peer is given up after enough timeouts.
DisconnectCompletes ==
    \A p \in Peers : asked[p] ~> host.state[p] = "DISCONNECTED"

\* A connection attempt, in either direction, ends.
HandshakeEnds ==
    \A p \in Peers :
        host.state[p] \in {"CONNECTING", "ACKNOWLEDGING_CONNECT"} ~>
            host.state[p] \notin {"CONNECTING", "ACKNOWLEDGING_CONNECT"}

\* The slot of a peer that is gone is freed by the dispatch of its event.
ZombieIsBuried ==
    \A p \in Peers :
        host.state[p] \in {"ACKNOWLEDGING_DISCONNECT", "ZOMBIE"} ~>
            host.state[p] = "DISCONNECTED"
=============================================================================
