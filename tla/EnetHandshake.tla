---------------------------- MODULE EnetHandshake ----------------------------
(***************************************************************************)
(* The two ends of an ENet connection, and of the ones before and after it *)
(* between the same hosts: enet_host_connect, the CONNECT, VERIFY_CONNECT  *)
(* and DISCONNECT commands with their acknowledgements, and what tells the *)
(* datagrams of one connection from those of another: the peer ID and the  *)
(* 2-bit session ID of the header, the address, the connectID that the     *)
(* checksum is seeded with and the sequence number of what is acknowledged *)
(* (protocol.c, peer.c, host.c).  EnetHost has one host and any network;   *)
(* here the network holds what the two hosts have sent, nothing else.      *)
(*                                                                         *)
(*   - A datagram holds one command and stays in the network for ever, so  *)
(*     it may be lost, repeated (which is what a retransmission does) and  *)
(*     overtaken, by datagrams of later connections too.  Only the copies  *)
(*     of a CONNECT do not outlive the next connection (InTime): the       *)
(*     session IDs of a slot come back with its second next connection,    *)
(*     and then an old CONNECT and an old acknowledgement together open    *)
(*     what is over.                                                       *)
(*   - The application always passes an event to enet_host_service, as     *)
(*     client.cc does, so a peer is CONNECTED as soon as it is known to    *)
(*     be; enet_peer_disconnect_later with nothing queued is               *)
(*     enet_peer_disconnect.  Time is a choice: GiveUp may come whenever   *)
(*     the peer has, or could have, something unacknowledged.              *)
(*   - A new connectID is one that was never used: they count up from a    *)
(*     random 32-bit number.                                               *)
(* NewSessionKeeping and the other operators that no action uses are slips *)
(* the properties must notice.                                             *)
(***************************************************************************)
EXTENDS Integers, FiniteSets, SequencesExt

CONSTANTS
    Client, Server, \* the two hosts, and their addresses
    Slots,          \* the number of peers of each host
    Abrupt,         \* the hosts whose application calls enet_peer_disconnect_now
    MaxConnects,    \* bound: calls of enet_host_connect
    MaxRestarts,    \* bound: times the client's process starts anew
    MaxCopies       \* times a CONNECT is accepted: it and its late copies

Hosts == {Client, Server}

NoPeerID == 4095            \* ENET_PROTOCOL_MAXIMUM_PEER_ID

ASSUME HostsAssumption == Client # Server
\* enet_host_create refuses a host of more peers.
ASSUME SlotsAssumption == Slots \in [Hosts -> 1 .. NoPeerID]
ASSUME BoundsAssumption ==
    MaxConnects \in Nat /\ MaxRestarts \in Nat /\ MaxCopies \in Nat \ {0}

Other(h) == IF h = Client THEN Server ELSE Client
Peers(h) == 0 .. Slots[h] - 1

PeerIDs == (UNION {Peers(h) : h \in Hosts}) \cup {NoPeerID}
NoSession == 255            \* 0xFF: the peer never had a connection
Sessions == 0 .. 3 \cup {NoSession}
ConnectIDs == 0 .. MaxConnects
Numbers == 0 .. 3           \* a connection has at most three commands

VARIABLES
    peers,      \* the ENetPeers of each host
    network,    \* the datagrams that were sent
    connects,   \* the connectIDs given out
    restarts,   \* the restarts of the client
    accepted,   \* history: the connections of the CONNECTs that were accepted
    events,     \* history: the connections of each host's CONNECT events
    ended       \* history: the connections some host has ended

vars == <<peers, network, connects, restarts, accepted, events, ended>>

Kinds == {"CONNECT", "VERIFY_CONNECT", "DISCONNECT", "ACKNOWLEDGE"}

\* ENetProtocol: peerID, in and out are outgoingPeerID, incomingSessionID and
\* outgoingSessionID of CONNECT and VERIFY_CONNECT.
Commands ==
    [kind : Kinds, number : Numbers, acknowledge : BOOLEAN,
     connectID : ConnectIDs, peerID : PeerIDs, in : Sessions, out : Sessions]

Datagrams ==
    [to : Hosts, peerID : PeerIDs, session : Sessions, seed : ConnectIDs,
     command : Commands]

States == {"DISCONNECTED", "CONNECTING", "ACKNOWLEDGING_CONNECT", "CONNECTED",
           "DISCONNECTING", "ACKNOWLEDGING_DISCONNECT", "ZOMBIE"}

PeerType ==
    [state : States, connectID : ConnectIDs, outgoingPeerID : PeerIDs,
     in : Sessions,                 \* incomingSessionID
     out : Sessions,                \* outgoingSessionID
     number : Numbers,              \* outgoingReliableSequenceNumber
     waiting : SUBSET Commands,     \* outgoing and sent reliable commands
     acks : SUBSET Commands]        \* acknowledgements: what to acknowledge

TypeOK ==
    /\ \A h \in Hosts : peers[h] \in [Peers(h) -> PeerType]
    /\ network \subseteq Datagrams
    /\ connects \in ConnectIDs
    /\ restarts \in 0 .. MaxRestarts
    /\ accepted \in Seq(ConnectIDs)
    /\ events \in [Hosts -> Seq(ConnectIDs)]
    /\ ended \subseteq ConnectIDs

\* enet_host_create
NewPeer ==
    [state |-> "DISCONNECTED", connectID |-> 0, outgoingPeerID |-> NoPeerID,
     in |-> NoSession, out |-> NoSession, number |-> 0, waiting |-> {},
     acks |-> {}]

Init ==
    /\ peers = [h \in Hosts |-> [p \in Peers(h) |-> NewPeer]]
    /\ network = {}
    /\ connects = 0
    /\ restarts = 0
    /\ accepted = <<>>
    /\ events = [h \in Hosts |-> <<>>]
    /\ ended = {}

-----------------------------------------------------------------------------
(***************************************************************************)
(* Peers and what they send.                                               *)
(***************************************************************************)

Command(kind, number) ==
    [kind |-> kind, number |-> number, acknowledge |-> TRUE, connectID |-> 0,
     peerID |-> NoPeerID, in |-> NoSession, out |-> NoSession]

ResetQueues(peer) == [peer EXCEPT !.waiting = {}, !.acks = {}]

\* enet_peer_reset: the session IDs stay, for the next connection of the slot.
Reset(peer) == [NewPeer EXCEPT !.in = peer.in, !.out = peer.out]

\* The command gets the next number of the peer.
Numbered(peer, command) ==
    [peer EXCEPT !.number = @ + 1,
                 !.waiting = @ \cup {[command EXCEPT !.number = peer.number + 1]}]

\* The header of enet_protocol_send_outgoing_commands: a peer that does not
\* know the other end's peer yet has neither a session nor a seed.
Datagram(h, peer, command) ==
    LET known == peer.outgoingPeerID # NoPeerID
    IN  [to |-> Other(h), peerID |-> peer.outgoingPeerID,
         session |-> IF known THEN peer.out ELSE 0,
         seed |-> IF known THEN peer.connectID ELSE 0,
         command |-> command]

Acknowledgement(command) ==
    [Command("ACKNOWLEDGE", command.number) EXCEPT !.acknowledge = FALSE]

\* What enet_protocol_send_outgoing_commands sends for one peer, ...
Sent(h, peer) ==
    IF peer.state \in {"DISCONNECTED", "ZOMBIE"} THEN {}
    ELSE {Datagram(h, peer, Acknowledgement(c)) : c \in peer.acks}
         \cup {Datagram(h, peer, c) : c \in peer.waiting}

\* ... and the peer after it: the acknowledgement of a DISCONNECT buries it.
AfterSend(peer) ==
    IF peer.state \in {"DISCONNECTED", "ZOMBIE"} THEN peer
    ELSE [peer EXCEPT
            !.acks = {},
            !.state = IF \E c \in peer.acks : c.kind = "DISCONNECT"
                      THEN "ZOMBIE" ELSE @]

\* The network with more datagrams: the ones without a peer ID are handled if
\* they are CONNECTs (protocol.c:1090), and otherwise are as good as lost.
With(sent) ==
    network \cup {d \in sent : d.peerID # NoPeerID \/ d.command.kind = "CONNECT"}

\* enet_protocol_send_outgoing_commands
SendOutgoing(h) ==
    /\ \E p \in Peers(h) : AfterSend(peers[h][p]) # peers[h][p]
                           \/ ~ Sent(h, peers[h][p]) \subseteq network
    /\ peers' = [peers EXCEPT ![h] = [p \in Peers(h) |-> AfterSend(@[p])]]
    /\ network' = With(UNION {Sent(h, peers[h][p]) : p \in Peers(h)})
    /\ UNCHANGED <<connects, restarts, accepted, events, ended>>

\* A peer of h changes, and at most its CONNECT event is reported.
Becomes(h, p, peer) == peers' = [peers EXCEPT ![h][p] = peer]

Report(h, c) == events' = [events EXCEPT ![h] = Append(@, c)]

IsFirstFree(h, p) ==
    /\ peers[h][p].state = "DISCONNECTED"
    /\ \A q \in Peers(h) : q < p => peers[h][q].state # "DISCONNECTED"

-----------------------------------------------------------------------------
(***************************************************************************)
(* The application and time.                                               *)
(***************************************************************************)

\* enet_host_connect
Connect(p) ==
    /\ connects < MaxConnects
    /\ IsFirstFree(Client, p)
    /\ LET peer == peers[Client][p]
       IN  Becomes(Client, p,
             Numbered([peer EXCEPT !.state = "CONNECTING",
                                   !.connectID = connects + 1],
                      [Command("CONNECT", 0) EXCEPT
                          !.connectID = connects + 1, !.peerID = p,
                          !.in = peer.in, !.out = peer.out]))
    /\ connects' = connects + 1
    /\ UNCHANGED <<network, restarts, accepted, events, ended>>

Unsequenced(peer) ==
    [Command("DISCONNECT", peer.number + 1) EXCEPT !.acknowledge = FALSE]

\* An unsequenced DISCONNECT, enet_host_flush and enet_peer_reset: the end of
\* enet_peer_disconnect for a peer without a connection, and of
\* enet_peer_disconnect_now.
Abort(h, p) ==
    /\ peers' = [peers EXCEPT ![h] =
                   [q \in Peers(h) |-> IF q = p THEN Reset(@[p]) ELSE AfterSend(@[q])]]
    /\ network' = With({Datagram(h, peers[h][p], Unsequenced(peers[h][p]))}
                       \cup UNION {Sent(h, peers[h][q]) : q \in Peers(h) \ {p}})

\* enet_peer_disconnect
Disconnect(h, p) ==
    /\ \/ /\ peers[h][p].state = "CONNECTED"
          /\ Becomes(h, p, [Numbered(ResetQueues(peers[h][p]),
                                     Command("DISCONNECT", 0))
                              EXCEPT !.state = "DISCONNECTING"])
          /\ UNCHANGED network
       \/ /\ peers[h][p].state \in {"CONNECTING", "ACKNOWLEDGING_CONNECT"}
          /\ Abort(h, p)
    /\ ended' = ended \cup {peers[h][p].connectID}
    /\ UNCHANGED <<connects, restarts, accepted, events>>

\* enet_peer_disconnect_now
DisconnectNow(h, p) ==
    /\ h \in Abrupt
    /\ peers[h][p].state # "DISCONNECTED"
    /\ IF peers[h][p].state \in {"ZOMBIE", "DISCONNECTING"}
       THEN Becomes(h, p, Reset(peers[h][p])) /\ UNCHANGED network
       ELSE Abort(h, p)
    /\ ended' = ended \cup {peers[h][p].connectID}
    /\ UNCHANGED <<connects, restarts, accepted, events>>

\* enet_protocol_check_timeouts and notify_disconnect: a command, perhaps one
\* of the pings the model leaves out, was never acknowledged.
GiveUp(h, p) ==
    /\ peers[h][p].state \in {"CONNECTING", "ACKNOWLEDGING_CONNECT",
                              "CONNECTED", "DISCONNECTING"}
    /\ Becomes(h, p, Reset(peers[h][p]))
    /\ ended' = ended \cup {peers[h][p].connectID}
    /\ UNCHANGED <<network, connects, restarts, accepted, events>>

\* enet_protocol_dispatch_incoming_commands: the DISCONNECT event of a ZOMBIE.
DispatchZombie(h, p) ==
    /\ peers[h][p].state = "ZOMBIE"
    /\ Becomes(h, p, Reset(peers[h][p]))
    /\ UNCHANGED <<network, connects, restarts, accepted, events, ended>>

\* The client's process ends and a new one takes its port: nothing is kept.
Restart ==
    /\ restarts < MaxRestarts
    /\ restarts' = restarts + 1
    /\ peers' = [peers EXCEPT ![Client] = [p \in Peers(Client) |-> NewPeer]]
    /\ ended' = ended \cup {peers[Client][p].connectID : p \in Peers(Client)}
    /\ UNCHANGED <<network, connects, accepted, events>>

-----------------------------------------------------------------------------
(***************************************************************************)
(* enet_protocol_handle_incoming_commands.                                 *)
(***************************************************************************)

AcceptsAnySession(h, p, d) ==
    /\ peers[h][p].state \notin {"DISCONNECTED", "ZOMBIE"}
    /\ d.seed = peers[h][p].connectID

AcceptsUnseeded(h, p, d) ==
    /\ peers[h][p].state \notin {"DISCONNECTED", "ZOMBIE"}
    /\ \/ peers[h][p].outgoingPeerID = NoPeerID
       \/ d.session = peers[h][p].in

\* The header of d, which names the peer p of h, and the checksum.  The
\* datagrams come from the only address there is.
Accepts(h, p, d) ==
    /\ peers[h][p].state \notin {"DISCONNECTED", "ZOMBIE"}
    /\ \/ peers[h][p].outgoingPeerID = NoPeerID
       \/ d.session = peers[h][p].in
    /\ d.seed = peers[h][p].connectID

NewSessionUnmasked(given, own) ==
    LET next == ((IF given = NoSession THEN own ELSE given) % 4) + 1
    IN  IF next = own THEN next + 1 ELSE next

NewSessionKeeping(given, own) == ((IF given = NoSession THEN own ELSE given) + 1) % 4

\* A session ID of a new connection: the one after the last one the other end
\* had, or this end if the other had none, but never the last one of this end.
NewSession(given, own) ==
    LET next == ((IF given = NoSession THEN own ELSE given) + 1) % 4
    IN  IF next = own THEN (next + 1) % 4 ELSE next

\* The network: a CONNECT that was accepted arrives again at most MaxCopies - 1
\* times, and before any other is accepted.
InTime(c) ==
    \/ c \notin Range(accepted)
    \/ /\ c \in Range(accepted) /\ c = Last(accepted)
       /\ Cardinality({i \in DOMAIN accepted : accepted[i] = c}) < MaxCopies

\* enet_protocol_handle_connect; a CONNECT that is refused changes nothing.
HandleConnect(p, d) ==
    LET peer == peers[Server][p]
        out == NewSession(d.command.in, peer.out)
        in == NewSession(d.command.out, peer.in)
        c == d.command.connectID
    IN  /\ InTime(c)
        /\ IsFirstFree(Server, p)
        /\ \A q \in Peers(Server) :
              peers[Server][q].state # "DISCONNECTED" => peers[Server][q].connectID # c
        /\ Becomes(Server, p,
             Numbered([peer EXCEPT !.state = "ACKNOWLEDGING_CONNECT",
                                   !.connectID = c,
                                   !.outgoingPeerID = d.command.peerID,
                                   !.in = in, !.out = out],
                      [Command("VERIFY_CONNECT", 0) EXCEPT
                          !.connectID = c, !.peerID = p, !.in = out, !.out = in]))
        /\ accepted' = Append(accepted, c)
        /\ UNCHANGED events

\* The acknowledgement a handled command gets depends on the state after it.
Acknowledged(peer, command) ==
    IF /\ command.acknowledge
       /\ \/ peer.state \in {"CONNECTING", "CONNECTED"}
          \/ peer.state = "ACKNOWLEDGING_DISCONNECT" /\ command.kind = "DISCONNECT"
    THEN [peer EXCEPT !.acks = @ \cup {command}]
    ELSE peer

\* enet_protocol_handle_verify_connect
HandleVerifyConnect(h, p, command) ==
    LET peer == peers[h][p]
        connected == [peer EXCEPT
                        !.waiting = {c \in @ : c.number # 1},
                        !.outgoingPeerID = command.peerID,
                        !.in = command.in, !.out = command.out,
                        !.state = "CONNECTED"]
    IN  IF peer.state # "CONNECTING"
        THEN Becomes(h, p, Acknowledged(peer, command)) /\ UNCHANGED events
        ELSE IF command.connectID # peer.connectID
        THEN Becomes(h, p, [peer EXCEPT !.state = "ZOMBIE"]) /\ UNCHANGED events
        ELSE /\ Becomes(h, p, Acknowledged(connected, command))
             /\ Report(h, peer.connectID)

\* enet_protocol_handle_disconnect
HandleDisconnect(h, p, command) ==
    LET peer == ResetQueues(peers[h][p])
        after == CASE peer.state \in {"DISCONNECTING", "CONNECTING"} ->
                          [peer EXCEPT !.state = "ZOMBIE"]
                   [] peer.state = "ACKNOWLEDGING_CONNECT" -> Reset(peer)
                   [] peer.state = "CONNECTED" ->
                          [peer EXCEPT !.state = IF command.acknowledge
                                                 THEN "ACKNOWLEDGING_DISCONNECT"
                                                 ELSE "ZOMBIE"]
                   [] OTHER -> peers[h][p]
    IN  /\ Becomes(h, p, Acknowledged(after, command))
        /\ UNCHANGED events

\* The command an acknowledgement is for, if it is still unacknowledged.
Removed(peer, command) == {c \in peer.waiting : c.number = command.number}

HandleAcknowledgeAny(h, p, command) ==
    LET peer == [peers[h][p] EXCEPT !.waiting = @ \ Removed(peers[h][p], command)]
    IN  CASE peer.state = "ACKNOWLEDGING_CONNECT" ->
                 /\ Becomes(h, p, [peer EXCEPT !.state = "CONNECTED"])
                 /\ Report(h, peer.connectID)
          [] peer.state = "DISCONNECTING" ->
                 Becomes(h, p, Reset(peer)) /\ UNCHANGED events
          [] OTHER -> Becomes(h, p, peer) /\ UNCHANGED events

\* enet_protocol_handle_acknowledge
HandleAcknowledge(h, p, command) ==
    LET peer == [peers[h][p] EXCEPT !.waiting = @ \ Removed(peers[h][p], command)]
        Is(kind) == \E c \in Removed(peers[h][p], command) : c.kind = kind
    IN  CASE peer.state = "ACKNOWLEDGING_CONNECT" /\ Is("VERIFY_CONNECT") ->
                 /\ Becomes(h, p, [peer EXCEPT !.state = "CONNECTED"])
                 /\ Report(h, peer.connectID)
          [] peer.state = "DISCONNECTING" /\ Is("DISCONNECT") ->
                 Becomes(h, p, Reset(peer)) /\ UNCHANGED events
          [] OTHER -> Becomes(h, p, peer) /\ UNCHANGED events

\* One datagram for host h.
Receive(h) ==
    \E d \in network :
       /\ d.to = h
       /\ \/ /\ d.peerID = NoPeerID /\ d.command.kind = "CONNECT" /\ h = Server
             /\ \E p \in Peers(h) : HandleConnect(p, d)
          \/ \E p \in Peers(h) :
                /\ d.peerID = p
                /\ Accepts(h, p, d)
                /\ \/ /\ d.command.kind = "VERIFY_CONNECT"
                      /\ HandleVerifyConnect(h, p, d.command)
                   \/ /\ d.command.kind = "DISCONNECT"
                      /\ HandleDisconnect(h, p, d.command)
                   \/ /\ d.command.kind = "ACKNOWLEDGE"
                      /\ HandleAcknowledge(h, p, d.command)
                /\ UNCHANGED accepted
       /\ UNCHANGED <<network, connects, restarts, ended>>

Next ==
    \/ \E p \in Peers(Client) : Connect(p)
    \/ \E h \in Hosts : \E p \in Peers(h) :
          \/ Disconnect(h, p)
          \/ DisconnectNow(h, p)
          \/ GiveUp(h, p)
          \/ DispatchZombie(h, p)
    \/ \E h \in Hosts : SendOutgoing(h) \/ Receive(h)
    \/ Restart

Spec == Init /\ [][Next]_vars

-----------------------------------------------------------------------------
(***************************************************************************)
(* Properties.                                                             *)
(***************************************************************************)

\* Two ends are of one connection when they have its connectID.
Ends(p, s) ==
    /\ peers[Client][p].connectID = peers[Server][s].connectID
    /\ peers[Client][p].connectID # 0

\* Each application hears of a connection once, the server's only after the
\* client's had its CONNECT event: no repeated CONNECT and no late
\* acknowledgement opens it on one side only, or again after its end.
EstablishedOnce ==
    /\ \A h \in Hosts : IsInjective(events[h])
    /\ Range(events[Server]) \subseteq Range(events[Client])

\* When both ends are connected, each addresses the other's slot with the
\* session ID that the other expects: neither can be talking to a slot of an
\* earlier connection.
EndsAgree ==
    \A p \in Peers(Client), s \in Peers(Server) :
       /\ Ends(p, s)
       /\ peers[Client][p].state = "CONNECTED"
       /\ peers[Server][s].state = "CONNECTED"
       => /\ peers[Client][p].outgoingPeerID = s
          /\ peers[Server][s].outgoingPeerID = p
          /\ peers[Client][p].in = peers[Server][s].out
          /\ peers[Client][p].out = peers[Server][s].in

\* A peer that leaves because the other end said so leaves a connection that
\* an application or a timeout of one of the two ends has ended: datagrams of
\* other connections do not end it.
EndedByItsEnds ==
    \A h \in Hosts : \A p \in Peers(h) :
       peers[h][p].state \in {"ACKNOWLEDGING_DISCONNECT", "ZOMBIE"}
       => peers[h][p].connectID \in ended

\* A disconnection that completes by its acknowledgement has ended the
\* connection at the other end: an acknowledgement of something else, or of an
\* earlier connection, does not complete it.
AcknowledgedIsOver ==
    [][\A h \in Hosts : \A p \in Peers(h) :
          /\ peers[h][p].state = "DISCONNECTING"
          /\ peers'[h][p].state = "DISCONNECTED"
          /\ Receive(h)
          => \A q \in Peers(Other(h)) :
                peers[Other(h)][q].connectID = peers[h][p].connectID
                => peers[Other(h)][q].state # "CONNECTED"]_vars

=============================================================================
