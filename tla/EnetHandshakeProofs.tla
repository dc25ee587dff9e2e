-------------------------- MODULE EnetHandshakeProofs --------------------------
(***************************************************************************)
(* Proofs about EnetHandshake: what every value of a peer, and every       *)
(* datagram of the network, says of the connection it belongs to, from     *)
(* which the five properties of the two ends follow.                       *)
(***************************************************************************)
EXTENDS EnetHandshake, FiniteSetTheorems, SequenceTheorems, TLAPS

-----------------------------------------------------------------------------
(***************************************************************************)
(* The inductive invariant: a peer.                                        *)
(***************************************************************************)

\* The peer knows the other end's peer: it has a session and a seed.
Knows(peer) == peer.outgoingPeerID # NoPeerID

Live(peer) == peer.state # "DISCONNECTED"

\* The connections whose CONNECT event host h has reported, and the ones the
\* server has accepted.
Heard(h) == Range(events[h])
Taken == Range(accepted)

\* What the fields of a peer of h say of each other.  The two ends of a
\* handshake never change sides; the second command of a connection is a
\* DISCONNECT.
Local(h, peer) ==
    /\ ~ Live(peer) => /\ peer.connectID = 0 /\ ~ Knows(peer)
                       /\ peer.number = 0 /\ peer.waiting = {} /\ peer.acks = {}
    /\ Live(peer) => peer.connectID # 0 /\ peer.number \in {1, 2}
    /\ peer.number = 2 => peer.state \in {"DISCONNECTING", "ZOMBIE"}
    /\ h = Client => peer.state # "ACKNOWLEDGING_CONNECT"
    /\ h = Server => peer.state # "CONNECTING"
    /\ h = Server /\ Live(peer) => Knows(peer)
    /\ peer.state = "CONNECTING" => ~ Knows(peer)
    /\ peer.state \in {"CONNECTED", "DISCONNECTING", "ACKNOWLEDGING_DISCONNECT"}
       => Knows(peer)
    /\ Knows(peer) => peer.outgoingPeerID \in Peers(Other(h))

\* What the history says of the connection of a peer of h.
Told(h, peer) ==
    /\ peer.connectID <= connects
    /\ peer.state = "CONNECTING" => peer.connectID \notin Heard(Client)
    /\ h = Client /\ Knows(peer) => peer.connectID \in Heard(Client)
    /\ h = Server /\ Live(peer) => peer.connectID \in Taken
    /\ /\ h = Server
       /\ peer.state \in {"CONNECTED", "DISCONNECTING", "ACKNOWLEDGING_DISCONNECT"}
       => peer.connectID \in Heard(Server)

\* What a peer has to send, when gone are the connections that were ended: the
\* commands of its own connection, in the states that send them.
CommandFits(h, p, peer, c, gone) ==
    \/ /\ c.kind = "CONNECT" /\ h = Client /\ peer.state = "CONNECTING"
       /\ c.number = 1 /\ c.connectID = peer.connectID /\ c.peerID = p
    \/ /\ c.kind = "VERIFY_CONNECT" /\ h = Server /\ c.number = 1
       /\ c.connectID = peer.connectID /\ c.peerID = p
       /\ c.in = peer.out /\ c.out = peer.in
    \/ /\ c.kind = "DISCONNECT" /\ c.number = 2 /\ peer.number = 2
       /\ peer.connectID \in gone

AckFits(h, peer, c) ==
    /\ Knows(peer)
    /\ \/ /\ c.kind = "VERIFY_CONNECT" /\ c.number = 1
          /\ h = Client /\ peer.state = "CONNECTED"
       \/ /\ c.kind = "DISCONNECT" /\ c.number = 2
          /\ peer.state = "ACKNOWLEDGING_DISCONNECT"

\* Whoever leaves because the other end said so, or waits for it to agree, has
\* a connection that was ended.
Gone(h, p, peer, gone) ==
    /\ peer.state \in {"ACKNOWLEDGING_DISCONNECT", "ZOMBIE", "DISCONNECTING"}
       => peer.connectID \in gone
    /\ \A c \in peer.waiting : CommandFits(h, p, peer, c, gone)
    /\ \A c \in peer.acks : AckFits(h, peer, c)

PeerFits(h, p, peer, gone) ==
    peer \in PeerType /\ Local(h, peer) /\ Told(h, peer) /\ Gone(h, p, peer, gone)

PeersFit == \A h \in Hosts : \A p \in Peers(h) : PeerFits(h, p, peers[h][p], ended)

Shape == peers = [h \in Hosts |-> [p \in Peers(h) |-> peers[h][p]]]

-----------------------------------------------------------------------------
(***************************************************************************)
(* The inductive invariant: datagrams, and the two ends together.          *)
(***************************************************************************)

\* A CONNECT names the peer that sent it, for as long as it has the connection.
ConnectFits(d) ==
    /\ d.to = Server /\ d.peerID = NoPeerID
    /\ d.command.connectID \in 1 .. connects
    /\ d.command.peerID \in Peers(Client)
    /\ \A p \in Peers(Client) :
          peers[Client][p].connectID = d.command.connectID => p = d.command.peerID

\* No peer of h is in the connection c.
NotOpen(h, c) ==
    \A q \in Peers(h) : peers[h][q].connectID = c => peers[h][q].state # "CONNECTED"

\* Every other datagram carries the connectID of a connection the server has
\* accepted, and the client heard of before it sent any.  The second
\* command of an end is a DISCONNECT, and who acknowledged it has left.
SettledFits(d) ==
    /\ d.peerID \in Peers(d.to)
    /\ d.seed \in Taken
    /\ d.to = Server => d.seed \in Heard(Client)
    /\ \/ /\ d.command.kind = "VERIFY_CONNECT" /\ d.to = Client
          /\ d.command.number = 1
          /\ d.command.connectID = d.seed /\ d.command.peerID \in Peers(Server)
       \/ /\ d.command.kind = "DISCONNECT" /\ d.seed \in ended
          /\ d.command.acknowledge => d.command.number = 2
       \/ /\ d.command.kind = "ACKNOWLEDGE"
          /\ d.command.number = 2
             => d.seed \in Heard(Other(d.to)) /\ NotOpen(Other(d.to), d.seed)

DatagramFits(d) ==
    IF d.command.kind = "CONNECT" THEN ConnectFits(d) ELSE SettledFits(d)

NetworkFits == \A d \in network : DatagramFits(d)

\* The client hears of a connection before the server does, and after the
\* server has accepted it.
History ==
    /\ \A h \in Hosts : IsInjective(events[h])
    /\ Heard(Server) \subseteq Heard(Client)
    /\ Heard(Client) \subseteq Taken
    /\ Taken \subseteq 1 .. connects

\* A host has one peer for a connection, and the server's addresses the
\* client's.
Apart ==
    /\ \A h \in Hosts : \A p, q \in Peers(h) :
          Live(peers[h][p]) /\ peers[h][p].connectID = peers[h][q].connectID => p = q
    /\ \A p \in Peers(Client), s \in Peers(Server) :
          Ends(p, s) => peers[Server][s].outgoingPeerID = p

\* The client says things in connection c to the given slot of the server, with
\* the given session ID: in the network, or in what it will send.
Spoke(c, slot, session) ==
    \E d \in network :
       /\ d.command.kind # "CONNECT" /\ d.to = Server
       /\ d.seed = c /\ d.peerID = slot /\ d.session = session

Speaks(c, slot, session) ==
    \E p \in Peers(Client) :
       /\ Knows(peers[Client][p])
       /\ peers[Client][p].connectID = c
       /\ peers[Client][p].outgoingPeerID = slot
       /\ peers[Client][p].out = session

Voice(c, slot, session) == Spoke(c, slot, session) \/ Speaks(c, slot, session)

\* For connection c the given slot of the server has, or had, the session IDs
\* in and out: so say its VERIFY_CONNECTs, the client and the slot itself.
Offered(c, slot, in, out) ==
    \E d \in network :
       /\ d.command.kind = "VERIFY_CONNECT" /\ d.seed = c
       /\ d.command.peerID = slot /\ d.command.out = in /\ d.command.in = out

Adopted(c, slot, in, out) ==
    \E p \in Peers(Client) :
       /\ Knows(peers[Client][p])
       /\ peers[Client][p].connectID = c
       /\ peers[Client][p].outgoingPeerID = slot
       /\ peers[Client][p].out = in /\ peers[Client][p].in = out

Held(c, slot, in, out) ==
    /\ slot \in Peers(Server)
    /\ Live(peers[Server][slot])
    /\ peers[Server][slot].connectID = c
    /\ peers[Server][slot].in = in /\ peers[Server][slot].out = out

Offer(c, slot, in, out) ==
    Offered(c, slot, in, out) \/ Adopted(c, slot, in, out) \/ Held(c, slot, in, out)

\* The client speaks to one slot, in one session, ...
OneVoice ==
    \A c \in ConnectIDs : \A s, t \in PeerIDs : \A x, y \in Sessions :
       Voice(c, s, x) /\ Voice(c, t, y) => s = t /\ x = y

\* ... and a slot with one session ID of a connection has one other.
OneOffer ==
    \A c \in ConnectIDs : \A s \in PeerIDs : \A x, y, z \in Sessions :
       Offer(c, s, x, y) /\ Offer(c, s, x, z) => y = z

\* c was accepted last, and only once.
Latest(c) ==
    /\ c \in Taken /\ c = Last(accepted)
    /\ \A i, j \in DOMAIN accepted : accepted[i] = c /\ accepted[j] = c => i = j

\* Then the slot still has the session IDs of that time, be it free again, so
\* that a copy of the CONNECT gets others.
LatestFits ==
    \A c \in ConnectIDs : \A s \in Peers(Server) : \A x, y \in Sessions :
       Latest(c)
       => /\ Voice(c, s, x) => peers[Server][s].in = x
          /\ Offer(c, s, x, y) => peers[Server][s].in = x /\ peers[Server][s].out = y

\* A peer that a copy opened after the application had heard of the connection
\* does not listen to what the client says in it.
Deaf ==
    \A s \in Peers(Server) :
       LET peer == peers[Server][s]
       IN  peer.state = "ACKNOWLEDGING_CONNECT" /\ peer.connectID \in Heard(Server)
           => ~ Voice(peer.connectID, s, peer.in)

\* A peer of the server is connected because the client said something to it.
Confirmed ==
    \A s \in Peers(Server) :
       peers[Server][s].state = "CONNECTED"
       => Spoke(peers[Server][s].connectID, s, peers[Server][s].in)

Sessioned == OneVoice /\ OneOffer /\ LatestFits /\ Deaf /\ Confirmed

IInv ==
    /\ TypeOK /\ Shape /\ PeersFit /\ NetworkFits /\ History /\ Apart
    /\ Sessioned

\* The copies of a CONNECT are at most two, itself included: with two more, the
\* session IDs of a slot come back within one connection.
FewCopies == MaxCopies <= 2

-----------------------------------------------------------------------------
(***************************************************************************)
(* Types.                                                                  *)
(***************************************************************************)

\* The hosts have peers, whose numbers are not ENET_PROTOCOL_MAXIMUM_PEER_ID.
LEMMA HostFacts ==
    /\ Client \in Hosts /\ Server \in Hosts /\ Client # Server
    /\ \A h \in Hosts : Other(h) \in Hosts /\ Other(h) # h /\ Other(Other(h)) = h
    /\ Other(Client) = Server /\ Other(Server) = Client
    /\ \A h \in Hosts : Peers(h) \subseteq PeerIDs /\ NoPeerID \notin Peers(h)
    /\ \A h \in Hosts : Peers(h) \subseteq Nat
    /\ NoPeerID \in PeerIDs /\ NoSession \in Sessions /\ 0 \in ConnectIDs
    /\ ConnectIDs \subseteq Nat
<1>1. \A h \in Hosts : NoPeerID \notin Peers(h) /\ Peers(h) \subseteq Nat
  <2> SUFFICES ASSUME NEW h \in Hosts
               PROVE  NoPeerID \notin Peers(h) /\ Peers(h) \subseteq Nat
    OBVIOUS
  <2>1. Slots[h] \in 1 .. NoPeerID
    BY SlotsAssumption
  <2>2. PICK k : k = Slots[h]
    OBVIOUS
  <2>3. Peers(h) = 0 .. k - 1
    BY <2>2 DEF Peers
  <2>4. k \in 1 .. 4095
    BY <2>1, <2>2 DEF NoPeerID
  <2> QED BY ONLY <2>3, <2>4 DEF NoPeerID
<1>2. \A h \in Hosts : Peers(h) \subseteq PeerIDs
  BY Zenon DEF PeerIDs
<1>3. NoPeerID \in PeerIDs
  BY Zenon DEF PeerIDs
<1>4. Client \in Hosts /\ Server \in Hosts /\ Client # Server
  BY HostsAssumption DEF Hosts
<1>5. /\ \A h \in Hosts : Other(h) \in Hosts /\ Other(h) # h /\ Other(Other(h)) = h
      /\ Other(Client) = Server /\ Other(Server) = Client
  BY HostsAssumption DEF Hosts, Other
<1>6. NoSession \in Sessions /\ 0 \in ConnectIDs /\ ConnectIDs \subseteq Nat
  BY BoundsAssumption DEF NoSession, Sessions, ConnectIDs
<1> QED BY <1>1, <1>2, <1>3, <1>4, <1>5, <1>6

\* A command, numbered or not, is one.
LEMMA CommandType ==
    ASSUME NEW kind \in Kinds, NEW n \in Numbers
    PROVE  /\ Command(kind, n) \in Commands
           /\ Command(kind, n).kind = kind
           /\ Command(kind, n).number = n
           /\ Command(kind, n).acknowledge = TRUE
BY HostFacts DEF Command, Commands, Numbers

\* The acknowledgement of a command has its number.
LEMMA AcknowledgementType ==
    ASSUME NEW c \in Commands
    PROVE  /\ Acknowledgement(c) \in Commands
           /\ Acknowledgement(c).kind = "ACKNOWLEDGE"
           /\ Acknowledgement(c).number = c.number
           /\ Acknowledgement(c).acknowledge = FALSE
BY HostFacts DEF Acknowledgement, Command, Commands, Numbers, Kinds

\* A new peer has nothing to say of any connection.
LEMMA NewPeerFits ==
    ASSUME NEW h \in Hosts, NEW p \in Peers(h), NEW gone,
           connects \in ConnectIDs
    PROVE  /\ PeerFits(h, p, NewPeer, gone)
           /\ ~ Live(NewPeer) /\ ~ Knows(NewPeer) /\ NewPeer.connectID = 0
<1>1. NewPeer \in PeerType
  BY HostFacts DEF NewPeer, PeerType, States, Numbers
<1>2. Local(h, NewPeer) /\ Told(h, NewPeer) /\ Gone(h, p, NewPeer, gone)
  BY HostFacts DEF NewPeer, Local, Told, Gone, Live, Knows, ConnectIDs
<1> QED BY <1>1, <1>2 DEF PeerFits, NewPeer, Live, Knows

-----------------------------------------------------------------------------
(***************************************************************************)
(* What a peer may become, by the functions that the handlers call.        *)
(***************************************************************************)

\* A peer of h stays what it is for everybody else, leaves, or is reset: no
\* connection begins and none is established.
FadesTo(h, old, new) ==
    \/ /\ ~ Live(new) /\ new.connectID = 0 /\ ~ Knows(new)
       /\ h = Server => new.in = old.in /\ new.out = old.out
    \/ /\ new.connectID = old.connectID
       /\ new.outgoingPeerID = old.outgoingPeerID
       /\ new.in = old.in /\ new.out = old.out
       /\ \/ new.state = old.state
          \/ /\ Live(old)
             /\ new.state \in {"DISCONNECTING", "ACKNOWLEDGING_DISCONNECT", "ZOMBIE"}

\* A peer that stays the same fits more connections that were ended.
LEMMA StaysFits ==
    ASSUME NEW h \in Hosts, NEW p \in Peers(h), NEW peer, NEW gone, NEW more,
           PeerFits(h, p, peer, gone), gone \subseteq more
    PROVE  PeerFits(h, p, peer, more) /\ FadesTo(h, peer, peer)
<1>1. FadesTo(h, peer, peer)
  BY DEF FadesTo
<1>2. Gone(h, p, peer, more)
  BY DEF PeerFits, Gone, CommandFits
<1> QED BY <1>1, <1>2 DEF PeerFits

\* enet_peer_reset
LEMMA ResetFits ==
    ASSUME NEW h \in Hosts, NEW p \in Peers(h), NEW peer \in PeerType, NEW gone,
           connects \in ConnectIDs
    PROVE  PeerFits(h, p, Reset(peer), gone) /\ FadesTo(h, peer, Reset(peer))
<1>1. peer.in \in Sessions /\ peer.out \in Sessions
  BY DEF PeerType
<1> DEFINE new == Reset(peer)
<1>2. /\ new.state = "DISCONNECTED" /\ new.connectID = 0
      /\ new.outgoingPeerID = NoPeerID /\ new.number = 0
      /\ new.waiting = {} /\ new.acks = {}
      /\ new.in = peer.in /\ new.out = peer.out
  BY DEF Reset, NewPeer
<1>3. new \in PeerType
  <2>1. NewPeer \in PeerType
    BY NewPeerFits DEF PeerFits
  <2>2. new = [NewPeer EXCEPT !.in = peer.in, !.out = peer.out]
    BY DEF Reset
  <2> HIDE DEF new
  <2> QED BY ONLY <1>1, <2>1, <2>2 DEF PeerType
<1>4. Local(h, new) /\ Told(h, new) /\ Gone(h, p, new, gone)
  BY <1>2, HostFacts DEF Local, Told, Gone, Live, Knows, ConnectIDs
<1>5. FadesTo(h, peer, new)
  BY <1>2 DEF FadesTo, Live, Knows
<1> QED BY <1>3, <1>4, <1>5 DEF PeerFits

\* Sending takes the acknowledgements, and buries who acknowledged a DISCONNECT.
LEMMA AfterSendFits ==
    ASSUME NEW h \in Hosts, NEW p \in Peers(h), NEW peer, NEW gone,
           PeerFits(h, p, peer, gone)
    PROVE  /\ PeerFits(h, p, AfterSend(peer), gone)
           /\ FadesTo(h, peer, AfterSend(peer))
<1>1. CASE peer.state \in {"DISCONNECTED", "ZOMBIE"}
  BY <1>1, StaysFits DEF AfterSend
<1>2. CASE peer.state \notin {"DISCONNECTED", "ZOMBIE"}
  <2> DEFINE new == AfterSend(peer)
  <2>1. peer \in PeerType /\ Live(peer)
    BY <1>2 DEF PeerFits, Live
  <2>2. PICK s : s = IF \E c \in peer.acks : c.kind = "DISCONNECT"
                     THEN "ZOMBIE" ELSE peer.state
    OBVIOUS
  <2>3. /\ s = "ZOMBIE" \/ s = peer.state
        /\ s = "ZOMBIE" => peer.state = "ACKNOWLEDGING_DISCONNECT"
    BY <1>2, <2>2 DEF PeerFits, Gone, AckFits
  <2>4. /\ new = [peer EXCEPT !.acks = {}, !.state = s]
    BY <1>2, <2>2 DEF AfterSend
  <2>5. new \in PeerType
    BY <2>1, <2>3, <2>4 DEF PeerType, States
  <2>6. /\ new.state = s /\ new.acks = {} /\ new.waiting = peer.waiting
        /\ new.connectID = peer.connectID /\ new.number = peer.number
        /\ new.outgoingPeerID = peer.outgoingPeerID
        /\ new.in = peer.in /\ new.out = peer.out
    BY <2>1, <2>4 DEF PeerType
  <2>7. FadesTo(h, peer, new)
    BY <2>1, <2>3, <2>6 DEF FadesTo
  <2>8. Local(h, new) /\ Told(h, new)
    BY <2>3, <2>6 DEF PeerFits, Local, Told, Live, Knows
  <2>9. \A c \in new.waiting : CommandFits(h, p, new, c, gone)
    BY <2>3, <2>6 DEF PeerFits, Gone, CommandFits
  <2>10. Gone(h, p, new, gone)
    BY <2>3, <2>6, <2>9 DEF PeerFits, Gone
  <2> QED BY <2>5, <2>7, <2>8, <2>10 DEF PeerFits
<1> QED BY <1>1, <1>2

\* enet_peer_disconnect of a connected peer.
LEMMA DisconnectFits ==
    ASSUME NEW h \in Hosts, NEW p \in Peers(h), NEW peer, NEW gone, NEW more,
           PeerFits(h, p, peer, gone), gone \subseteq more,
           peer.state = "CONNECTED", peer.connectID \in more
    PROVE  LET new == [Numbered(ResetQueues(peer), Command("DISCONNECT", 0))
                         EXCEPT !.state = "DISCONNECTING"]
           IN  PeerFits(h, p, new, more) /\ FadesTo(h, peer, new)
<1> DEFINE new == [Numbered(ResetQueues(peer), Command("DISCONNECT", 0))
                     EXCEPT !.state = "DISCONNECTING"]
           c == [Command("DISCONNECT", 0) EXCEPT !.number = peer.number + 1]
<1>1. peer \in PeerType /\ Live(peer) /\ Knows(peer) /\ peer.number = 1
  BY DEF PeerFits, Local, Live
<1>2. c \in Commands /\ c.kind = "DISCONNECT" /\ c.number = 2
  <2>1. /\ Command("DISCONNECT", 0) \in Commands
        /\ Command("DISCONNECT", 0).kind = "DISCONNECT"
    BY CommandType DEF Kinds, Numbers
  <2> QED BY <1>1, <2>1 DEF Commands, Numbers
<1>3. new = [peer EXCEPT !.acks = {}, !.waiting = {c}, !.number = 2,
                         !.state = "DISCONNECTING"]
  <2>1. ResetQueues(peer) = [peer EXCEPT !.acks = {}, !.waiting = {}]
    BY <1>1 DEF ResetQueues, PeerType
  <2>2. ResetQueues(peer).number = 1 /\ ResetQueues(peer).waiting = {}
    BY <1>1, <2>1 DEF PeerType
  <2>3. Numbered(ResetQueues(peer), Command("DISCONNECT", 0))
        = [ResetQueues(peer) EXCEPT !.number = 2, !.waiting = {c}]
    BY <1>1, <2>2 DEF Numbered
  <2> QED BY <1>1, <2>1, <2>3 DEF PeerType
<1> HIDE DEF new, c
<1>4. new \in PeerType
  <2>1. {c} \in SUBSET Commands /\ {} \in SUBSET Commands
    BY <1>2
  <2>2. 2 \in Numbers /\ "DISCONNECTING" \in States
    BY DEF Numbers, States
  <2> QED BY ONLY <1>1, <1>3, <2>1, <2>2 DEF PeerType
<1>5. /\ new.state = "DISCONNECTING" /\ new.acks = {} /\ new.waiting = {c}
      /\ new.connectID = peer.connectID /\ new.number = 2
      /\ new.outgoingPeerID = peer.outgoingPeerID
      /\ new.in = peer.in /\ new.out = peer.out
  BY <1>1, <1>3 DEF PeerType
<1>6. FadesTo(h, peer, new)
  BY <1>1, <1>5 DEF FadesTo
<1>7. Local(h, new) /\ Told(h, new)
  BY <1>1, <1>5 DEF PeerFits, Local, Told, Live, Knows
<1>8. Gone(h, p, new, more)
  BY <1>2, <1>5 DEF Gone, CommandFits
<1> QED BY <1>4, <1>6, <1>7, <1>8 DEF PeerFits, new

\* An acknowledgement is queued for a VERIFY_CONNECT of a connection that is
\* established, ...
LEMMA AcknowledgedVerifyFits ==
    ASSUME NEW p \in Peers(Client), NEW peer, NEW gone,
           PeerFits(Client, p, peer, gone),
           NEW c \in Commands, c.kind = "VERIFY_CONNECT", c.number = 1,
           peer.state # "CONNECTING"
    PROVE  /\ PeerFits(Client, p, Acknowledged(peer, c), gone)
           /\ FadesTo(Client, peer, Acknowledged(peer, c))
<1>1. CASE Acknowledged(peer, c) = peer
  BY <1>1, StaysFits, HostFacts
<1>2. CASE Acknowledged(peer, c) # peer
  <2> DEFINE new == Acknowledged(peer, c)
  <2>1. peer.state = "CONNECTED" /\ new = [peer EXCEPT !.acks = @ \cup {c}]
    BY <1>2 DEF Acknowledged
  <2>2. peer \in PeerType /\ Knows(peer)
    BY <2>1 DEF PeerFits, Local
  <2> HIDE DEF new
  <2>3. new \in PeerType
    BY <2>1, <2>2 DEF PeerType
  <2>4. /\ new.state = peer.state /\ new.acks = peer.acks \cup {c}
        /\ new.waiting = peer.waiting
        /\ new.connectID = peer.connectID /\ new.number = peer.number
        /\ new.outgoingPeerID = peer.outgoingPeerID
        /\ new.in = peer.in /\ new.out = peer.out
    BY <2>1, <2>2 DEF PeerType
  <2>5. FadesTo(Client, peer, new)
    BY <2>4 DEF FadesTo
  <2>6. Local(Client, new) /\ Told(Client, new)
    BY <2>1, <2>4 DEF PeerFits, Local, Told, Live, Knows
  <2>7. \A a \in new.acks : AckFits(Client, new, a)
    BY <2>1, <2>2, <2>4 DEF PeerFits, Gone, AckFits, Knows
  <2>8. \A a \in new.waiting : CommandFits(Client, p, new, a, gone)
    BY <2>1, <2>4 DEF PeerFits, Gone, CommandFits
  <2>9. Gone(Client, p, new, gone)
    BY <2>1, <2>4, <2>7, <2>8 DEF PeerFits, Gone
  <2> QED BY <2>3, <2>5, <2>6, <2>9 DEF PeerFits, new
<1> QED BY <1>1, <1>2

\* ... and for a DISCONNECT: the peer leaves, perhaps after it has acknowledged.
LEMMA ClosingFits ==
    ASSUME NEW h \in Hosts, NEW p \in Peers(h), NEW peer, NEW gone,
           PeerFits(h, p, peer, gone), Live(peer), peer.connectID \in gone,
           NEW s \in {"ACKNOWLEDGING_DISCONNECT", "ZOMBIE"},
           NEW waiting \in SUBSET peer.waiting, NEW acks \in SUBSET Commands,
           waiting = {} \/ s = peer.state,
           \A c \in acks : c.kind = "DISCONNECT" /\ c.number = 2
                           /\ s = "ACKNOWLEDGING_DISCONNECT",
           s = "ACKNOWLEDGING_DISCONNECT"
             => peer.state \in {"CONNECTED", "ACKNOWLEDGING_DISCONNECT"}
    PROVE  LET new == [peer EXCEPT !.waiting = waiting, !.acks = acks, !.state = s]
           IN  PeerFits(h, p, new, gone) /\ FadesTo(h, peer, new)
<1> DEFINE new == [peer EXCEPT !.waiting = waiting, !.acks = acks, !.state = s]
<1>1. peer \in PeerType
  BY DEF PeerFits
<1>2. new \in PeerType
  <2>1. s \in States
    BY DEF States
  <2>2. waiting \in SUBSET Commands
    BY <1>1 DEF PeerType
  <2> QED BY ONLY <1>1, <2>1, <2>2, acks \in SUBSET Commands DEF PeerType
<1>3. /\ new.state = s /\ new.acks = acks /\ new.waiting = waiting
      /\ new.connectID = peer.connectID /\ new.number = peer.number
      /\ new.outgoingPeerID = peer.outgoingPeerID
      /\ new.in = peer.in /\ new.out = peer.out
  BY <1>1 DEF PeerType
<1> HIDE DEF new
<1>4. FadesTo(h, peer, new)
  BY <1>3 DEF FadesTo
<1>5. Local(h, new) /\ Told(h, new)
  BY <1>3 DEF PeerFits, Local, Told, Live, Knows
<1>6. \A c \in new.waiting : CommandFits(h, p, new, c, gone)
  BY <1>3 DEF PeerFits, Gone, CommandFits
<1>7. \A c \in new.acks : AckFits(h, new, c)
  BY <1>3, <1>5 DEF Local, AckFits
<1>8. Gone(h, p, new, gone)
  BY <1>3, <1>6, <1>7 DEF Gone
<1> QED BY <1>2, <1>4, <1>5, <1>8 DEF PeerFits, new

\* The peer after enet_protocol_handle_disconnect, before the acknowledgement.
AfterDisconnect(old, command) ==
    LET peer == ResetQueues(old)
    IN  CASE peer.state \in {"DISCONNECTING", "CONNECTING"} ->
                 [peer EXCEPT !.state = "ZOMBIE"]
          [] peer.state = "ACKNOWLEDGING_CONNECT" -> Reset(peer)
          [] peer.state = "CONNECTED" ->
                 [peer EXCEPT !.state = IF command.acknowledge
                                        THEN "ACKNOWLEDGING_DISCONNECT"
                                        ELSE "ZOMBIE"]
          [] OTHER -> old

\* A DISCONNECT of the peer's own connection.
LEMMA DisconnectedFits ==
    ASSUME NEW h \in Hosts, NEW p \in Peers(h), NEW peer, NEW gone,
           connects \in ConnectIDs,
           PeerFits(h, p, peer, gone), Live(peer), peer.state # "ZOMBIE",
           peer.connectID \in gone,
           NEW c \in Commands, c.kind = "DISCONNECT",
           c.acknowledge => c.number = 2
    PROVE  LET new == Acknowledged(AfterDisconnect(peer, c), c)
           IN  PeerFits(h, p, new, gone) /\ FadesTo(h, peer, new)
<1> DEFINE after == AfterDisconnect(peer, c)
           new == Acknowledged(after, c)
<1>1. peer \in PeerType /\ c.acknowledge \in BOOLEAN
  BY DEF PeerFits, Commands
<1>2. /\ ResetQueues(peer) = [peer EXCEPT !.acks = {}, !.waiting = {}]
      /\ ResetQueues(peer).state = peer.state
      /\ ResetQueues(peer).in = peer.in /\ ResetQueues(peer).out = peer.out
      /\ ResetQueues(peer) \in PeerType
  BY <1>1 DEF ResetQueues, PeerType
<1>3. CASE peer.state \in {"DISCONNECTING", "CONNECTING"}
  <2>1. after = [ResetQueues(peer) EXCEPT !.state = "ZOMBIE"]
    BY <1>2, <1>3 DEF AfterDisconnect
  <2>2. after = [peer EXCEPT !.waiting = {}, !.acks = {}, !.state = "ZOMBIE"]
    BY <1>1, <1>2, <2>1 DEF PeerType
  <2>3. new = after
    BY <1>1, <2>2 DEF Acknowledged, PeerType
  <2> HIDE DEF after, new
  <2>4. PeerFits(h, p, after, gone) /\ FadesTo(h, peer, after)
    BY <2>2, ClosingFits
  <2> QED BY <2>3, <2>4 DEF new, after
<1>4. CASE peer.state = "ACKNOWLEDGING_CONNECT"
  <2>1. after = Reset(ResetQueues(peer))
    BY <1>2, <1>4 DEF AfterDisconnect
  <2>2. after.state = "DISCONNECTED"
    BY <2>1 DEF Reset, NewPeer
  <2>3. new = after
    BY <2>2 DEF Acknowledged
  <2> HIDE DEF after, new
  <2>4. PeerFits(h, p, after, gone) /\ FadesTo(h, ResetQueues(peer), after)
    BY <1>2, <2>1, ResetFits
  <2>5. /\ ~ Live(after) /\ after.connectID = 0 /\ ~ Knows(after)
        /\ h = Server => after.in = peer.in /\ after.out = peer.out
    <3>1. /\ after.state = "DISCONNECTED" /\ after.connectID = 0
          /\ after.outgoingPeerID = NoPeerID
          /\ after.in = ResetQueues(peer).in /\ after.out = ResetQueues(peer).out
      BY <2>1 DEF Reset, NewPeer
    <3> QED BY <1>2, <3>1 DEF Live, Knows
  <2>6. FadesTo(h, peer, after)
    BY <2>5 DEF FadesTo
  <2> QED BY <2>3, <2>4, <2>6 DEF new, after
<1>5. CASE peer.state = "CONNECTED"
  <2>1. CASE ~ c.acknowledge
    <3>1. after = [ResetQueues(peer) EXCEPT !.state = "ZOMBIE"]
      BY <1>2, <1>5, <2>1 DEF AfterDisconnect
    <3>2. after = [peer EXCEPT !.waiting = {}, !.acks = {}, !.state = "ZOMBIE"]
      BY <1>1, <1>2, <3>1 DEF PeerType
    <3>3. new = after
      BY <2>1 DEF Acknowledged
    <3> HIDE DEF after, new
    <3>4. PeerFits(h, p, after, gone) /\ FadesTo(h, peer, after)
      BY <3>2, ClosingFits
    <3> QED BY <3>3, <3>4 DEF new, after
  <2>2. CASE c.acknowledge
    <3>1. after = [ResetQueues(peer) EXCEPT !.state = "ACKNOWLEDGING_DISCONNECT"]
      BY <1>2, <1>5, <2>2 DEF AfterDisconnect
    <3>2. after = [peer EXCEPT !.waiting = {}, !.acks = {},
                               !.state = "ACKNOWLEDGING_DISCONNECT"]
      BY <1>1, <1>2, <3>1 DEF PeerType
    <3>3. after.state = "ACKNOWLEDGING_DISCONNECT" /\ after.acks = {}
      BY <1>1, <3>2 DEF PeerType
    <3>4. new = [after EXCEPT !.acks = {c}]
      BY <2>2, <3>3 DEF Acknowledged
    <3>5. new = [peer EXCEPT !.waiting = {}, !.acks = {c},
                             !.state = "ACKNOWLEDGING_DISCONNECT"]
      BY <1>1, <3>2, <3>4 DEF PeerType
    <3> HIDE DEF after, new
    <3>6. PeerFits(h, p, new, gone) /\ FadesTo(h, peer, new)
      BY <1>5, <2>2, <3>5, ClosingFits
    <3> QED BY <3>6 DEF new, after
  <2> QED BY <1>1, <2>1, <2>2
<1>6. CASE peer.state = "ACKNOWLEDGING_DISCONNECT"
  <2>1. after = peer
    BY <1>2, <1>6 DEF AfterDisconnect
  <2>2. CASE ~ c.acknowledge
    <3>1. new = peer
      BY <2>1, <2>2 DEF Acknowledged
    <3> QED BY <3>1, StaysFits
  <2>3. CASE c.acknowledge
    <3>1. new = [peer EXCEPT !.acks = @ \cup {c}]
      BY <1>6, <2>1, <2>3 DEF Acknowledged
    <3>2. new = [peer EXCEPT !.waiting = peer.waiting, !.acks = peer.acks \cup {c},
                             !.state = "ACKNOWLEDGING_DISCONNECT"]
      BY <1>1, <1>6, <3>1 DEF PeerType
    <3>3. /\ peer.acks \cup {c} \in SUBSET Commands
          /\ \A a \in peer.acks \cup {c} : a.kind = "DISCONNECT" /\ a.number = 2
      <4>1. peer.acks \in SUBSET Commands
        BY <1>1 DEF PeerType
      <4>2. \A a \in peer.acks : a.kind = "DISCONNECT" /\ a.number = 2
        BY <1>6 DEF PeerFits, Gone, AckFits
      <4> QED BY <2>3, <4>1, <4>2
    <3> HIDE DEF after, new
    <3>4. PeerFits(h, p, new, gone) /\ FadesTo(h, peer, new)
      BY <1>6, <3>2, <3>3, ClosingFits
    <3> QED BY <3>4 DEF new, after
  <2> QED BY <1>1, <2>2, <2>3
<1>7. peer.state \in {"DISCONNECTING", "CONNECTING", "ACKNOWLEDGING_CONNECT",
                      "CONNECTED", "ACKNOWLEDGING_DISCONNECT"}
  BY <1>1 DEF PeerType, States, Live
<1> QED BY <1>3, <1>4, <1>5, <1>6, <1>7

\* The command that an acknowledgement is for leaves the queue.
LEMMA RemovedFits ==
    ASSUME NEW h \in Hosts, NEW p \in Peers(h), NEW peer, NEW gone,
           PeerFits(h, p, peer, gone), NEW command
    PROVE  LET new == [peer EXCEPT !.waiting = @ \ Removed(peer, command)]
           IN  PeerFits(h, p, new, gone) /\ FadesTo(h, peer, new)
<1> DEFINE new == [peer EXCEPT !.waiting = @ \ Removed(peer, command)]
<1>1. peer \in PeerType
  BY DEF PeerFits
<1>2. PICK w : w = peer.waiting \ Removed(peer, command)
  OBVIOUS
<1>3. w \in SUBSET Commands /\ w \subseteq peer.waiting
  BY <1>1, <1>2 DEF PeerType
<1>4. new = [peer EXCEPT !.waiting = w]
  BY <1>2
<1> HIDE DEF new
<1>5. new \in PeerType
  BY <1>1, <1>3, <1>4 DEF PeerType
<1>6. /\ new.state = peer.state /\ new.acks = peer.acks /\ new.waiting = w
      /\ new.connectID = peer.connectID /\ new.number = peer.number
      /\ new.outgoingPeerID = peer.outgoingPeerID
      /\ new.in = peer.in /\ new.out = peer.out
  BY <1>1, <1>4 DEF PeerType
<1>7. FadesTo(h, peer, new)
  BY <1>6 DEF FadesTo
<1>8. Local(h, new) /\ Told(h, new)
  <2>1. ~ Live(peer) => w = {}
    BY <1>3 DEF PeerFits, Local
  <2> QED BY <1>6, <2>1 DEF PeerFits, Local, Told, Live, Knows
<1>9. /\ \A c \in new.waiting : CommandFits(h, p, new, c, gone)
      /\ \A c \in new.acks : AckFits(h, new, c)
  BY <1>3, <1>6 DEF PeerFits, Gone, CommandFits, AckFits, Knows
<1>10. Gone(h, p, new, gone)
  BY <1>6, <1>9 DEF PeerFits, Gone
<1> QED BY <1>5, <1>7, <1>8, <1>10 DEF PeerFits, new

-----------------------------------------------------------------------------
(***************************************************************************)
(* What a peer sends.                                                      *)
(***************************************************************************)

\* The datagram d is one that peer p of h has reason to send.
Spoken(h, p, d) ==
    LET peer == peers[h][p]
    IN  /\ d.to = Other(h)
        /\ \/ d.command.kind = "CONNECT"
           \/ /\ Knows(peer) /\ d.peerID = peer.outgoingPeerID
              /\ d.session = peer.out /\ d.seed = peer.connectID
              /\ d.command.kind = "VERIFY_CONNECT"
                 => /\ h = Server /\ d.command.peerID = p
                    /\ d.command.in = peer.out /\ d.command.out = peer.in

\* It says goodbye, unsequenced, for a connection in gone.
Farewell(d, gone) ==
    /\ d.peerID \in Peers(d.to)
    /\ d.seed \in Taken /\ d.seed \in gone
    /\ d.to = Server => d.seed \in Heard(Client)
    /\ d.command.kind = "DISCONNECT" /\ ~ d.command.acknowledge

\* The network keeps what it has: what has no peer ID and is no CONNECT is lost.
Carried(d) == d.peerID # NoPeerID \/ d.command.kind = "CONNECT"

\* The header of a datagram.
LEMMA DatagramIs ==
    ASSUME NEW h \in Hosts, NEW peer \in PeerType, NEW c \in Commands
    PROVE  LET d == Datagram(h, peer, c)
           IN  /\ d \in Datagrams /\ d.to = Other(h) /\ d.command = c
               /\ d.peerID = peer.outgoingPeerID
               /\ Knows(peer) => d.session = peer.out /\ d.seed = peer.connectID
<1>1. /\ Other(h) \in Hosts /\ peer.outgoingPeerID \in PeerIDs
      /\ peer.out \in Sessions /\ peer.connectID \in ConnectIDs
      /\ 0 \in Sessions /\ 0 \in ConnectIDs
  BY HostFacts DEF PeerType, Sessions
<1> QED BY <1>1 DEF Datagram, Datagrams, Knows

\* A peer whose fields fit knows the connections of its own end.
LEMMA KnownIsTaken ==
    ASSUME IInv, NEW h \in Hosts, NEW p \in Peers(h), Knows(peers[h][p])
    PROVE  /\ Live(peers[h][p])
           /\ peers[h][p].connectID \in Taken
           /\ h = Client => peers[h][p].connectID \in Heard(Client)
           /\ peers[h][p].outgoingPeerID \in Peers(Other(h))
<1>1. Local(h, peers[h][p]) /\ Told(h, peers[h][p])
  BY DEF IInv, PeersFit, PeerFits
<1>2. Live(peers[h][p]) /\ peers[h][p].outgoingPeerID \in Peers(Other(h))
  BY <1>1 DEF Local
<1>3. h = Client => peers[h][p].connectID \in Heard(Client)
  BY <1>1 DEF Told
<1>4. h = Server => peers[h][p].connectID \in Taken
  BY <1>1, <1>2 DEF Told
<1>5. Heard(Client) \subseteq Taken
  BY DEF IInv, History
<1> QED BY <1>2, <1>3, <1>4, <1>5 DEF Hosts

\* Whatever a sending pass sends for a peer fits the invariant.
LEMMA SentFits ==
    ASSUME IInv, NEW h \in Hosts, NEW p \in Peers(h),
           NEW d \in Sent(h, peers[h][p]), Carried(d)
    PROVE  d \in Datagrams /\ DatagramFits(d) /\ Spoken(h, p, d)
<1> DEFINE peer == peers[h][p]
<1>1. PeerFits(h, p, peer, ended) /\ peer \in PeerType
  BY DEF IInv, PeersFit, PeerFits
<1>2. peer.waiting \subseteq Commands /\ peer.acks \subseteq Commands
  BY <1>1 DEF PeerType
<1>3. \/ \E c \in peer.acks : d = Datagram(h, peer, Acknowledgement(c))
      \/ \E c \in peer.waiting : d = Datagram(h, peer, c)
  BY DEF Sent
<1>4. ASSUME NEW c \in peer.acks, d = Datagram(h, peer, Acknowledgement(c))
      PROVE  d \in Datagrams /\ DatagramFits(d) /\ Spoken(h, p, d)
  <2>1. AckFits(h, peer, c) /\ Knows(peer) /\ c \in Commands
    BY <1>1, <1>2 DEF PeerFits, Gone, AckFits
  <2>2. /\ d \in Datagrams /\ d.to = Other(h) /\ d.command = Acknowledgement(c)
        /\ d.peerID = peer.outgoingPeerID
        /\ d.session = peer.out /\ d.seed = peer.connectID
    BY <1>1, <1>4, <2>1, DatagramIs, AcknowledgementType
  <2>3. d.command.kind = "ACKNOWLEDGE" /\ d.command.number = c.number
    BY <2>1, <2>2, AcknowledgementType
  <2>4. Spoken(h, p, d)
    BY <2>1, <2>2, <2>3 DEF Spoken
  <2>5. d.peerID \in Peers(d.to) /\ d.seed \in Taken
        /\ (d.to = Server => d.seed \in Heard(Client))
    BY <2>1, <2>2, KnownIsTaken, HostFacts
  <2>6. ASSUME d.command.number = 2
        PROVE  d.seed \in Heard(Other(d.to)) /\ NotOpen(Other(d.to), d.seed)
    <3>1. peer.state = "ACKNOWLEDGING_DISCONNECT"
      BY <2>1, <2>3, <2>6 DEF AckFits
    <3>2. Other(d.to) = h
      BY <2>2, HostFacts
    <3>3. d.seed \in Heard(h)
      <4>1. Told(h, peer)
        BY <1>1 DEF PeerFits
      <4> QED BY <2>1, <2>2, <3>1, <4>1 DEF Told, Hosts
    <3>4. NotOpen(h, d.seed)
      <4>1. \A q \in Peers(h) : peers[h][q].connectID = peer.connectID => q = p
        BY <3>1 DEF IInv, Apart, Live
      <4> QED BY <2>2, <3>1, <4>1 DEF NotOpen
    <3> QED BY <3>2, <3>3, <3>4
  <2>7. DatagramFits(d)
    BY <2>3, <2>5, <2>6 DEF DatagramFits, SettledFits
  <2> QED BY <2>2, <2>4, <2>7
<1>5. ASSUME NEW c \in peer.waiting, d = Datagram(h, peer, c)
      PROVE  d \in Datagrams /\ DatagramFits(d) /\ Spoken(h, p, d)
  <2>1. CommandFits(h, p, peer, c, ended) /\ c \in Commands
    BY <1>1, <1>2 DEF PeerFits, Gone
  <2>2. /\ d \in Datagrams /\ d.to = Other(h) /\ d.command = c
        /\ d.peerID = peer.outgoingPeerID
        /\ Knows(peer) => d.session = peer.out /\ d.seed = peer.connectID
    BY <1>1, <1>5, <2>1, DatagramIs
  <2>3. CASE c.kind = "CONNECT"
    <3>1. /\ h = Client /\ c.connectID = peer.connectID /\ c.peerID = p
          /\ peer.state = "CONNECTING"
      BY <2>1, <2>3 DEF CommandFits
    <3>2. peer.connectID \in 1 .. connects
      BY <1>1, <3>1, HostFacts
         DEF PeerFits, Local, Told, Live, PeerType, IInv, TypeOK, ConnectIDs
    <3>3. \A q \in Peers(Client) :
             peers[Client][q].connectID = peer.connectID => p = q
      BY <3>1 DEF IInv, Apart, Live
    <3>4. ConnectFits(d)
      <4>1. ~ Knows(peer)
        BY <1>1, <3>1 DEF PeerFits, Local
      <4> QED BY <2>2, <3>1, <3>2, <3>3, <4>1, HostFacts DEF ConnectFits, Knows
    <3> QED BY <2>2, <2>3, <3>4 DEF DatagramFits, Spoken
  <2>4. CASE c.kind # "CONNECT"
    <3>1. Knows(peer)
      BY <2>2, <2>4 DEF Carried, Knows
    <3>2. d.peerID \in Peers(d.to) /\ d.seed \in Taken
          /\ (d.to = Server => d.seed \in Heard(Client))
      BY <2>2, <3>1, KnownIsTaken, HostFacts
    <3>3. SettledFits(d)
      BY <2>1, <2>2, <2>4, <3>1, <3>2, HostFacts DEF SettledFits, CommandFits
    <3>4. Spoken(h, p, d)
      BY <2>1, <2>2, <2>4, <3>1 DEF Spoken, CommandFits
    <3> QED BY <2>2, <2>4, <3>3, <3>4 DEF DatagramFits
  <2> QED BY <2>3, <2>4
<1> QED BY <1>3, <1>4, <1>5

\* The unsequenced DISCONNECT of a connection that is over.
LEMMA FarewellFits ==
    ASSUME IInv, NEW h \in Hosts, NEW p \in Peers(h), NEW gone, NEW d,
           d = Datagram(h, peers[h][p], Unsequenced(peers[h][p])), Carried(d),
           peers[h][p].connectID \in gone
    PROVE  d \in Datagrams /\ Farewell(d, gone) /\ Spoken(h, p, d)
<1> DEFINE peer == peers[h][p]
           c == Unsequenced(peer)
<1>1. PeerFits(h, p, peer, ended) /\ peer \in PeerType
  BY DEF IInv, PeersFit, PeerFits
<1>2. c \in Commands /\ c.kind = "DISCONNECT" /\ c.acknowledge = FALSE
  <2>1. peer.number + 1 \in Numbers
    BY <1>1 DEF PeerFits, Local, Numbers
  <2>2. Command("DISCONNECT", peer.number + 1) \in Commands
        /\ Command("DISCONNECT", peer.number + 1).kind = "DISCONNECT"
    BY <2>1, CommandType DEF Kinds
  <2> QED BY <2>2 DEF Unsequenced, Commands
<1>3. /\ d \in Datagrams /\ d.to = Other(h) /\ d.command = c
      /\ d.peerID = peer.outgoingPeerID
      /\ Knows(peer) => d.session = peer.out /\ d.seed = peer.connectID
  BY <1>1, <1>2, DatagramIs
<1>4. Knows(peer)
  BY <1>2, <1>3 DEF Carried, Knows
<1>5. d.peerID \in Peers(d.to) /\ d.seed \in Taken
      /\ (d.to = Server => d.seed \in Heard(Client))
  BY <1>3, <1>4, KnownIsTaken, HostFacts
<1> QED BY <1>2, <1>3, <1>4, <1>5 DEF Farewell, Spoken

-----------------------------------------------------------------------------
(***************************************************************************)
(* Steps in which no connection begins and none is established.            *)
(***************************************************************************)

\* The client says nothing new, no slot gets other session IDs, and the server
\* hears of nothing.
NothingNew ==
    /\ \A c \in ConnectIDs : \A s \in PeerIDs : \A x \in Sessions :
          Voice(c, s, x)' => Voice(c, s, x)
    /\ \A c \in ConnectIDs : \A s \in PeerIDs : \A x, y \in Sessions :
          Offer(c, s, x, y)' => Offer(c, s, x, y)
    /\ \A s \in Peers(Server) :
          /\ peers'[Server][s].in = peers[Server][s].in
          /\ peers'[Server][s].out = peers[Server][s].out
          /\ peers'[Server][s].state \in {"ACKNOWLEDGING_CONNECT", "CONNECTED"}
             => /\ peers'[Server][s].state = peers[Server][s].state
                /\ peers'[Server][s].connectID = peers[Server][s].connectID
    /\ network \subseteq network'
    /\ UNCHANGED <<accepted, events[Server]>>

\* The types of a peer's identity.
LEMMA PeerTyped ==
    ASSUME TypeOK, NEW h \in Hosts, NEW p \in Peers(h)
    PROVE  /\ peers[h][p] \in PeerType
           /\ peers[h][p].connectID \in ConnectIDs
           /\ peers[h][p].in \in Sessions /\ peers[h][p].out \in Sessions
           /\ peers[h][p].outgoingPeerID \in PeerIDs
<1>1. peers[h][p] \in PeerType
  BY DEF TypeOK
<1> QED BY <1>1 DEF PeerType

\* Then the slots and what is said to them agree as before.
LEMMA NothingNewKeeps ==
    ASSUME TypeOK, TypeOK', Sessioned, NothingNew
    PROVE  Sessioned'
<1>1. OneVoice'
  BY DEF Sessioned, OneVoice, NothingNew
<1>2. OneOffer'
  BY DEF Sessioned, OneOffer, NothingNew
<1>3. LatestFits'
  <2> SUFFICES ASSUME NEW c \in ConnectIDs, NEW s \in Peers(Server),
                      NEW x \in Sessions, NEW y \in Sessions, Latest(c)'
               PROVE  /\ Voice(c, s, x)' => peers'[Server][s].in = x
                      /\ Offer(c, s, x, y)'
                         => peers'[Server][s].in = x /\ peers'[Server][s].out = y
    BY DEF LatestFits
  <2>1. Latest(c) /\ s \in PeerIDs
    BY HostFacts DEF NothingNew, Latest, Taken
  <2>2. /\ Voice(c, s, x) => peers[Server][s].in = x
        /\ Offer(c, s, x, y)
           => peers[Server][s].in = x /\ peers[Server][s].out = y
    BY <2>1 DEF Sessioned, LatestFits
  <2> QED BY <2>1, <2>2 DEF NothingNew
<1>4. Deaf'
  <2> SUFFICES ASSUME NEW s \in Peers(Server),
                      peers'[Server][s].state = "ACKNOWLEDGING_CONNECT",
                      peers'[Server][s].connectID \in Heard(Server)',
                      Voice(peers[Server][s].connectID, s, peers[Server][s].in)'
               PROVE  FALSE
    BY DEF Deaf
  <2>1. PICK c : c = peers[Server][s].connectID
    OBVIOUS
  <2>2. PICK x : x = peers[Server][s].in
    OBVIOUS
  <2>3. peers'[Server][s].connectID = c /\ peers'[Server][s].in = x
        /\ peers[Server][s].state = "ACKNOWLEDGING_CONNECT"
    BY <2>1, <2>2 DEF NothingNew
  <2>4. c \in ConnectIDs /\ x \in Sessions /\ s \in PeerIDs
    BY <2>1, <2>2, PeerTyped, HostFacts
  <2>5. Voice(c, s, x)'
    BY <2>3 DEF Voice, Spoke, Speaks
  <2>6. Voice(c, s, x)
    BY <2>4, <2>5 DEF NothingNew
  <2>7. c \in Heard(Server)
    BY <2>3 DEF NothingNew, Heard
  <2> QED BY <2>1, <2>2, <2>3, <2>6, <2>7 DEF Sessioned, Deaf
<1>5. Confirmed'
  <2> SUFFICES ASSUME NEW s \in Peers(Server),
                      peers'[Server][s].state = "CONNECTED"
               PROVE  Spoke(peers[Server][s].connectID, s, peers[Server][s].in)'
    BY DEF Confirmed
  <2>1. PICK c : c = peers[Server][s].connectID
    OBVIOUS
  <2>2. PICK x : x = peers[Server][s].in
    OBVIOUS
  <2>3. peers'[Server][s].connectID = c /\ peers'[Server][s].in = x
        /\ peers[Server][s].state = "CONNECTED"
    BY <2>1, <2>2 DEF NothingNew
  <2>4. Spoke(c, s, x)
    BY <2>1, <2>2, <2>3 DEF Sessioned, Confirmed
  <2>5. Spoke(c, s, x)'
    BY <2>4 DEF Spoke, NothingNew
  <2> QED BY <2>3, <2>5 DEF Spoke
<1> QED BY <1>1, <1>2, <1>3, <1>4, <1>5 DEF Sessioned

\* What is sent on the way is what the peers had to send.
Fading ==
    /\ Shape'
    /\ \A h \in Hosts : \A p \in Peers(h) :
          /\ PeerFits(h, p, peers'[h][p], ended')
          /\ FadesTo(h, peers[h][p], peers'[h][p])
    /\ network \subseteq network' /\ network' \subseteq Datagrams
    /\ \A d \in network' :
          \/ d \in network
          \/ /\ \E h \in Hosts : \E p \in Peers(h) : Spoken(h, p, d)
             /\ DatagramFits(d) \/ Farewell(d, ended')
    /\ UNCHANGED <<connects, accepted, events>>
    /\ restarts' \in 0 .. MaxRestarts
    /\ ended \subseteq ended' /\ ended' \subseteq ConnectIDs

\* Whoever is somebody after such a step was so before.
LEMMA FadedFrom ==
    ASSUME IInv, Fading, NEW h \in Hosts, NEW p \in Peers(h),
           peers'[h][p].connectID # 0 \/ Live(peers'[h][p]) \/ Knows(peers'[h][p])
    PROVE  /\ Live(peers[h][p]) /\ peers'[h][p].connectID # 0
           /\ peers'[h][p].connectID = peers[h][p].connectID
           /\ peers'[h][p].outgoingPeerID = peers[h][p].outgoingPeerID
           /\ peers'[h][p].in = peers[h][p].in
           /\ peers'[h][p].out = peers[h][p].out
           /\ \/ peers'[h][p].state = peers[h][p].state
              \/ peers'[h][p].state
                   \in {"DISCONNECTING", "ACKNOWLEDGING_DISCONNECT", "ZOMBIE"}
<1>1. /\ FadesTo(h, peers[h][p], peers'[h][p])
      /\ Local(h, peers'[h][p]) /\ Local(h, peers[h][p])
  BY DEF Fading, PeerFits, IInv, PeersFit
<1>2. peers'[h][p].connectID # 0 /\ Live(peers'[h][p])
  BY <1>1 DEF Local
<1> QED BY <1>1, <1>2 DEF FadesTo, Live

\* A datagram goes on saying what it says.
LEMMA FadingKeepsDatagram ==
    ASSUME IInv, Fading, NEW d \in Datagrams, DatagramFits(d)
    PROVE  DatagramFits(d)'
<1>1. CASE d.command.kind = "CONNECT"
  <2>1. ConnectFits(d)
    BY <1>1 DEF DatagramFits
  <2>2. \A p \in Peers(Client) :
           peers'[Client][p].connectID = d.command.connectID => p = d.command.peerID
    <3>1. d.command.connectID # 0
      BY <2>1 DEF ConnectFits
    <3> QED BY <2>1, <3>1, FadedFrom, HostFacts DEF ConnectFits
  <2>3. ConnectFits(d)'
    BY <2>1, <2>2 DEF ConnectFits, Fading
  <2> QED BY <1>1, <2>3 DEF DatagramFits
<1>2. CASE d.command.kind # "CONNECT"
  <2>1. SettledFits(d)
    BY <1>2 DEF DatagramFits
  <2>2. d.seed # 0
    BY <2>1 DEF SettledFits, IInv, History
  <2>3. ASSUME NEW h \in Hosts, NotOpen(h, d.seed)
        PROVE  NotOpen(h, d.seed)'
    BY <2>2, <2>3, FadedFrom DEF NotOpen
  <2>4. d.to \in Hosts => Other(d.to) \in Hosts
    BY HostFacts
  <2>5. d.to \in Hosts
    BY DEF Datagrams
  <2>6. SettledFits(d)'
    BY <2>1, <2>3, <2>4, <2>5 DEF SettledFits, Fading, Taken, Heard
  <2> QED BY <1>2, <2>6 DEF DatagramFits
<1> QED BY <1>1, <1>2

\* A goodbye is a datagram like the others once its connection has ended.
LEMMA FadingTakesFarewell ==
    ASSUME IInv, Fading, NEW d, Farewell(d, ended')
    PROVE  DatagramFits(d)'
<1>1. SettledFits(d)'
  BY DEF SettledFits, Farewell, Fading, Taken, Heard
<1> QED BY <1>1 DEF DatagramFits, Farewell

\* What the client says, it said or was ready to say.
LEMMA FadingVoice ==
    ASSUME IInv, Fading, NEW c, NEW s, NEW x, Voice(c, s, x)'
    PROVE  Voice(c, s, x)
<1>1. CASE Spoke(c, s, x)'
  <2>1. PICK d \in network' :
          /\ d.command.kind # "CONNECT" /\ d.to = Server
          /\ d.seed = c /\ d.peerID = s /\ d.session = x
    BY <1>1 DEF Spoke
  <2>2. CASE d \in network
    BY <2>1, <2>2 DEF Voice, Spoke
  <2>3. CASE d \notin network
    <3>1. PICK h \in Hosts : \E p \in Peers(h) : Spoken(h, p, d)
      BY <2>1, <2>3 DEF Fading
    <3>2. PICK p \in Peers(h) : Spoken(h, p, d)
      BY <3>1
    <3>3. h = Client
      BY <2>1, <3>2, HostFacts DEF Spoken
    <3> QED BY <2>1, <3>2, <3>3 DEF Spoken, Voice, Speaks
  <2> QED BY <2>2, <2>3
<1>2. CASE Speaks(c, s, x)'
  <2>1. PICK p \in Peers(Client) :
          /\ Knows(peers'[Client][p])
          /\ peers'[Client][p].connectID = c
          /\ peers'[Client][p].outgoingPeerID = s
          /\ peers'[Client][p].out = x
    BY <1>2 DEF Speaks
  <2> QED BY <2>1, FadedFrom, HostFacts DEF Voice, Speaks, Knows
<1> QED BY <1>1, <1>2 DEF Voice

\* What is said of a slot was said or held before.
LEMMA FadingOffer ==
    ASSUME IInv, Fading, NEW c, NEW s, NEW x, NEW y, Offer(c, s, x, y)'
    PROVE  Offer(c, s, x, y)
<1>1. CASE Offered(c, s, x, y)'
  <2>1. PICK d \in network' :
          /\ d.command.kind = "VERIFY_CONNECT" /\ d.seed = c
          /\ d.command.peerID = s /\ d.command.out = x /\ d.command.in = y
    BY <1>1 DEF Offered
  <2>2. CASE d \in network
    BY <2>1, <2>2 DEF Offer, Offered
  <2>3. CASE d \notin network
    <3>1. PICK h \in Hosts : \E p \in Peers(h) : Spoken(h, p, d)
      BY <2>1, <2>3 DEF Fading
    <3>2. PICK p \in Peers(h) : Spoken(h, p, d)
      BY <3>1
    <3>3. /\ h = Server /\ s = p /\ Knows(peers[Server][p])
          /\ peers[Server][p].out = y /\ peers[Server][p].in = x
          /\ peers[Server][p].connectID = c
      BY <2>1, <3>2 DEF Spoken
    <3>4. p \in Peers(Server) /\ Live(peers[Server][p])
      BY <3>2, <3>3, KnownIsTaken
    <3> QED BY <3>3, <3>4 DEF Offer, Held
  <2> QED BY <2>2, <2>3
<1>2. CASE Adopted(c, s, x, y)'
  <2>1. PICK p \in Peers(Client) :
          /\ Knows(peers'[Client][p])
          /\ peers'[Client][p].connectID = c
          /\ peers'[Client][p].outgoingPeerID = s
          /\ peers'[Client][p].out = x /\ peers'[Client][p].in = y
    BY <1>2 DEF Adopted
  <2> QED BY <2>1, FadedFrom, HostFacts DEF Offer, Adopted, Knows
<1>3. CASE Held(c, s, x, y)'
  <2>1. /\ s \in Peers(Server) /\ Live(peers'[Server][s])
        /\ peers'[Server][s].connectID = c
        /\ peers'[Server][s].in = x /\ peers'[Server][s].out = y
    BY <1>3 DEF Held
  <2> QED BY <2>1, FadedFrom, HostFacts DEF Offer, Held
<1> QED BY <1>1, <1>2, <1>3 DEF Offer

\* Such a step keeps the whole invariant.
LEMMA FadingKeeps ==
    ASSUME IInv, Fading
    PROVE  IInv'
<1>1. TypeOK'
  <2>1. ASSUME NEW h \in Hosts
        PROVE  peers'[h] \in [Peers(h) -> PeerType]
    <3>1. \A p \in Peers(h) : peers'[h][p] \in PeerType
      BY DEF Fading, PeerFits
    <3>2. peers'[h] = [p \in Peers(h) |-> peers'[h][p]]
      BY DEF Fading, Shape
    <3> QED BY <3>1, <3>2
  <2> QED BY <2>1 DEF IInv, TypeOK, Fading
<1>2. PeersFit'
  <2> SUFFICES ASSUME NEW h \in Hosts, NEW p \in Peers(h)
               PROVE  PeerFits(h, p, peers[h][p], ended)'
    BY DEF PeersFit
  <2>1. PeerFits(h, p, peers'[h][p], ended')
    BY DEF Fading
  <2>2. Told(h, peers[h][p])'
    BY <2>1 DEF PeerFits, Told, Fading, Taken, Heard
  <2> QED BY <2>1, <2>2 DEF PeerFits, Gone
<1>3. NetworkFits'
  <2> SUFFICES ASSUME NEW d \in network'
               PROVE  DatagramFits(d)'
    BY DEF NetworkFits
  <2>1. d \in Datagrams
    BY DEF Fading
  <2>2. d \in network => DatagramFits(d)
    BY DEF IInv, NetworkFits
  <2>3. d \in network \/ DatagramFits(d) \/ Farewell(d, ended')
    BY DEF Fading
  <2> QED BY <2>1, <2>2, <2>3, FadingKeepsDatagram, FadingTakesFarewell
<1>4. History'
  BY DEF IInv, History, Fading, Taken, Heard
<1>5. Apart'
  <2>1. ASSUME NEW h \in Hosts, NEW p \in Peers(h), NEW q \in Peers(h),
               Live(peers'[h][p]), peers'[h][p].connectID = peers'[h][q].connectID
        PROVE  p = q
    <3>1. Live(peers[h][p]) /\ peers'[h][p].connectID = peers[h][p].connectID
          /\ peers'[h][p].connectID # 0
      BY <2>1, FadedFrom
    <3>2. peers'[h][q].connectID = peers[h][q].connectID
      BY <2>1, <3>1, FadedFrom
    <3> QED BY <2>1, <3>1, <3>2 DEF IInv, Apart
  <2>2. ASSUME NEW p \in Peers(Client), NEW s \in Peers(Server), Ends(p, s)'
        PROVE  peers'[Server][s].outgoingPeerID = p
    <3>1. /\ peers'[Client][p].connectID = peers'[Server][s].connectID
          /\ peers'[Client][p].connectID # 0
      BY <2>2 DEF Ends
    <3>2. /\ peers'[Client][p].connectID = peers[Client][p].connectID
      BY <3>1, FadedFrom, HostFacts
    <3>3. /\ peers'[Server][s].connectID = peers[Server][s].connectID
          /\ peers'[Server][s].outgoingPeerID = peers[Server][s].outgoingPeerID
      BY <3>1, FadedFrom, HostFacts
    <3>4. Ends(p, s)
      BY <3>1, <3>2, <3>3 DEF Ends
    <3> QED BY <3>3, <3>4 DEF IInv, Apart
  <2> QED BY <2>1, <2>2 DEF Apart, Live
<1>6. NothingNew
  <2>1. \A c \in ConnectIDs : \A s \in PeerIDs : \A x \in Sessions :
           Voice(c, s, x)' => Voice(c, s, x)
    BY FadingVoice
  <2>2. \A c \in ConnectIDs : \A s \in PeerIDs : \A x, y \in Sessions :
           Offer(c, s, x, y)' => Offer(c, s, x, y)
    BY FadingOffer
  <2>3. ASSUME NEW s \in Peers(Server)
        PROVE  /\ peers'[Server][s].in = peers[Server][s].in
               /\ peers'[Server][s].out = peers[Server][s].out
    BY HostFacts DEF Fading, FadesTo
  <2>4. ASSUME NEW s \in Peers(Server),
               peers'[Server][s].state \in {"ACKNOWLEDGING_CONNECT", "CONNECTED"}
        PROVE  /\ peers'[Server][s].state = peers[Server][s].state
               /\ peers'[Server][s].connectID = peers[Server][s].connectID
    BY <2>4, FadedFrom, HostFacts DEF Live
  <2>5. network \subseteq network' /\ UNCHANGED <<accepted, events[Server]>>
    BY DEF Fading
  <2> QED BY <2>1, <2>2, <2>3, <2>4, <2>5 DEF NothingNew
<1>7. Sessioned'
  BY <1>1, <1>6, NothingNewKeeps DEF IInv
<1>8. Shape'
  BY DEF Fading
<1> QED BY <1>1, <1>2, <1>3, <1>4, <1>5, <1>7, <1>8 DEF IInv

-----------------------------------------------------------------------------
(***************************************************************************)
(* The actions that are such steps.                                        *)
(***************************************************************************)

\* One peer changes, and no other.
LEMMA BecomesIs ==
    ASSUME Shape, NEW h \in Hosts, NEW p \in Peers(h), NEW peer,
           Becomes(h, p, peer)
    PROVE  /\ Shape'
           /\ peers'[h][p] = peer
           /\ \A g \in Hosts : \A q \in Peers(g) :
                 g # h \/ q # p => peers'[g][q] = peers[g][q]
<1>1. peers' = [g \in Hosts |-> [q \in Peers(g) |->
                  IF g = h /\ q = p THEN peer ELSE peers[g][q]]]
  BY DEF Shape, Becomes
<1> QED BY <1>1 DEF Shape

\* All the peers of a host change.
LEMMA AllBecome ==
    ASSUME Shape, NEW h \in Hosts, NEW f, peers' = [peers EXCEPT ![h] = f],
           f = [q \in Peers(h) |-> f[q]]
    PROVE  /\ Shape'
           /\ peers'[h] = f
           /\ \A g \in Hosts : g # h => peers'[g] = peers[g]
<1>1. peers' = [g \in Hosts |-> IF g = h THEN f ELSE peers[g]]
  BY DEF Shape
<1>2. /\ peers'[h] = f
      /\ \A g \in Hosts : g # h => peers'[g] = peers[g]
  BY <1>1
<1>3. \A g \in Hosts : peers[g] = [q \in Peers(g) |-> peers[g][q]]
  BY DEF Shape
<1>4. \A g \in Hosts : peers'[g] = [q \in Peers(g) |-> peers'[g][q]]
  BY <1>2, <1>3
<1>5. Shape'
  BY <1>1, <1>4 DEF Shape
<1> QED BY <1>2, <1>5

\* A step of one peer that fits, and nothing sent.
LEMMA OneFades ==
    ASSUME IInv, NEW h \in Hosts, NEW p \in Peers(h), NEW peer,
           Becomes(h, p, peer), PeerFits(h, p, peer, ended'),
           FadesTo(h, peers[h][p], peer),
           UNCHANGED <<network, connects, accepted, events>>,
           restarts' \in 0 .. MaxRestarts,
           ended \subseteq ended', ended' \subseteq ConnectIDs
    PROVE  IInv'
<1>1. /\ Shape' /\ peers'[h][p] = peer
      /\ \A g \in Hosts : \A q \in Peers(g) :
            g # h \/ q # p => peers'[g][q] = peers[g][q]
  BY BecomesIs DEF IInv
<1>2. ASSUME NEW g \in Hosts, NEW q \in Peers(g)
      PROVE  /\ PeerFits(g, q, peers'[g][q], ended')
             /\ FadesTo(g, peers[g][q], peers'[g][q])
  <2>1. CASE g = h /\ q = p
    BY <1>1, <2>1
  <2>2. CASE g # h \/ q # p
    <3>1. peers'[g][q] = peers[g][q]
      BY <1>1, <2>2
    <3>2. PeerFits(g, q, peers[g][q], ended)
      BY DEF IInv, PeersFit
    <3> QED BY <3>1, <3>2, StaysFits
  <2> QED BY <2>1, <2>2
<1>3. Fading
  BY <1>1, <1>2 DEF Fading, IInv, TypeOK
<1> QED BY <1>3, FadingKeeps

\* enet_protocol_check_timeouts gives up.
LEMMA GiveUpKeeps ==
    ASSUME IInv, NEW h \in Hosts, NEW p \in Peers(h), GiveUp(h, p)
    PROVE  IInv'
<1>1. /\ peers[h][p] \in PeerType /\ peers[h][p].connectID \in ConnectIDs
      /\ connects \in ConnectIDs
  BY PeerTyped DEF IInv, TypeOK
<1>2. /\ PeerFits(h, p, Reset(peers[h][p]), ended')
      /\ FadesTo(h, peers[h][p], Reset(peers[h][p]))
  BY <1>1, ResetFits
<1> QED BY <1>1, <1>2, OneFades DEF GiveUp, IInv, TypeOK

\* The DISCONNECT event of a zombie.
LEMMA DispatchZombieKeeps ==
    ASSUME IInv, NEW h \in Hosts, NEW p \in Peers(h), DispatchZombie(h, p)
    PROVE  IInv'
<1>1. peers[h][p] \in PeerType /\ connects \in ConnectIDs
  BY PeerTyped DEF IInv, TypeOK
<1>2. /\ PeerFits(h, p, Reset(peers[h][p]), ended')
      /\ FadesTo(h, peers[h][p], Reset(peers[h][p]))
  BY <1>1, ResetFits
<1> QED BY <1>2, OneFades DEF DispatchZombie, IInv, TypeOK

\* What is sent, and carried, fits.
LEMMA PassFits ==
    ASSUME IInv, NEW h \in Hosts, NEW p \in Peers(h), NEW d,
           d \in With(UNION {Sent(h, peers[h][q]) : q \in Peers(h)})
    PROVE  /\ d \in Datagrams
           /\ \/ d \in network
              \/ /\ \E q \in Peers(h) : Spoken(h, q, d)
                 /\ DatagramFits(d)
<1>1. CASE d \in network
  BY <1>1 DEF IInv, TypeOK
<1>2. CASE d \notin network
  <2>1. PICK q \in Peers(h) : d \in Sent(h, peers[h][q])
    BY <1>2 DEF With
  <2>2. Carried(d)
    BY <1>2 DEF With, Carried
  <2> QED BY <2>1, <2>2, SentFits
<1> QED BY <1>1, <1>2

\* enet_protocol_send_outgoing_commands
LEMMA SendOutgoingKeeps ==
    ASSUME IInv, NEW h \in Hosts, SendOutgoing(h)
    PROVE  IInv'
<1> DEFINE f == [q \in Peers(h) |-> AfterSend(peers[h][q])]
<1>1. peers' = [peers EXCEPT ![h] = f]
  BY DEF SendOutgoing
<1>2. f = [q \in Peers(h) |-> f[q]]
  OBVIOUS
<1>3. /\ Shape' /\ peers'[h] = f
      /\ \A g \in Hosts : g # h => peers'[g] = peers[g]
  <2>1. Shape
    BY DEF IInv
  <2> HIDE DEF f
  <2> QED BY <1>1, <1>2, <2>1, AllBecome
<1>4. ASSUME NEW g \in Hosts, NEW q \in Peers(g)
      PROVE  /\ PeerFits(g, q, peers'[g][q], ended')
             /\ FadesTo(g, peers[g][q], peers'[g][q])
  <2>1. PeerFits(g, q, peers[g][q], ended) /\ ended' = ended
    BY DEF IInv, PeersFit, SendOutgoing
  <2>2. CASE g = h
    <3>1. peers'[g][q] = AfterSend(peers[g][q])
      BY <1>3, <2>2
    <3> QED BY <2>1, <3>1, AfterSendFits
  <2>3. CASE g # h
    <3>1. peers'[g][q] = peers[g][q]
      BY <1>3, <2>3
    <3> QED BY <2>1, <3>1, StaysFits
  <2> QED BY <2>2, <2>3
<1>5. PICK p \in Peers(h) : TRUE
  BY DEF SendOutgoing
<1>6. network' = With(UNION {Sent(h, peers[h][q]) : q \in Peers(h)})
  BY DEF SendOutgoing
<1>7. /\ \A d \in network' :
            /\ d \in Datagrams
            /\ \/ d \in network
               \/ /\ \E q \in Peers(h) : Spoken(h, q, d)
                  /\ DatagramFits(d)
  BY <1>5, <1>6, PassFits
<1>8. network \subseteq network'
  BY <1>6 DEF With
<1>9. Fading
  BY <1>3, <1>4, <1>7, <1>8 DEF Fading, SendOutgoing, IInv, TypeOK
<1> QED BY <1>9, FadingKeeps

\* The other peers' pass, the last word, and the reset.
LEMMA AbortKeeps ==
    ASSUME IInv, NEW h \in Hosts, NEW p \in Peers(h), Abort(h, p),
           ended' = ended \cup {peers[h][p].connectID},
           UNCHANGED <<connects, restarts, accepted, events>>
    PROVE  IInv'
<1> DEFINE f == [q \in Peers(h) |-> IF q = p THEN Reset(peers[h][q])
                                     ELSE AfterSend(peers[h][q])]
<1>1. peers' = [peers EXCEPT ![h] = f]
  BY DEF Abort
<1>2. f = [q \in Peers(h) |-> f[q]]
  OBVIOUS
<1>3. /\ Shape' /\ peers'[h] = f
      /\ \A g \in Hosts : g # h => peers'[g] = peers[g]
  <2>1. Shape
    BY DEF IInv
  <2> HIDE DEF f
  <2> QED BY <1>1, <1>2, <2>1, AllBecome
<1>4. ASSUME NEW g \in Hosts, NEW q \in Peers(g)
      PROVE  /\ PeerFits(g, q, peers'[g][q], ended')
             /\ FadesTo(g, peers[g][q], peers'[g][q])
  <2>1. PeerFits(g, q, peers[g][q], ended) /\ ended \subseteq ended'
    BY DEF IInv, PeersFit
  <2>2. PeerFits(g, q, peers[g][q], ended')
    BY <2>1, StaysFits
  <2>3. CASE g = h /\ q = p
    <3>1. peers'[g][q] = Reset(peers[g][q])
      BY <1>3, <2>3
    <3>2. peers[g][q] \in PeerType /\ connects \in ConnectIDs
      BY PeerTyped DEF IInv, TypeOK
    <3> QED BY <3>1, <3>2, ResetFits
  <2>4. CASE g = h /\ q # p
    <3>1. peers'[g][q] = AfterSend(peers[g][q])
      BY <1>3, <2>4
    <3> QED BY <2>2, <3>1, AfterSendFits
  <2>5. CASE g # h
    <3>1. peers'[g][q] = peers[g][q]
      BY <1>3, <2>5
    <3> QED BY <2>1, <3>1, StaysFits
  <2> QED BY <2>3, <2>4, <2>5
<1>5. network' = With({Datagram(h, peers[h][p], Unsequenced(peers[h][p]))}
                      \cup UNION {Sent(h, peers[h][q]) : q \in Peers(h) \ {p}})
  BY DEF Abort
<1>6. ASSUME NEW d \in network'
      PROVE  /\ d \in Datagrams
             /\ \/ d \in network
                \/ /\ \E q \in Peers(h) : Spoken(h, q, d)
                   /\ DatagramFits(d) \/ Farewell(d, ended')
  <2>1. CASE d \in network
    BY <2>1 DEF IInv, TypeOK
  <2>2. CASE d \notin network
    <3>1. Carried(d)
      BY <1>5, <2>2 DEF With, Carried
    <3>2. CASE d = Datagram(h, peers[h][p], Unsequenced(peers[h][p]))
      <4>1. peers[h][p].connectID \in ended'
        OBVIOUS
      <4> QED BY <3>1, <3>2, <4>1, FarewellFits
    <3>3. CASE d # Datagram(h, peers[h][p], Unsequenced(peers[h][p]))
      <4>1. PICK q \in Peers(h) : d \in Sent(h, peers[h][q])
        BY <1>5, <2>2, <3>3 DEF With
      <4> QED BY <3>1, <4>1, SentFits
    <3> QED BY <3>2, <3>3
  <2> QED BY <2>1, <2>2
<1>7. network \subseteq network'
  BY <1>5 DEF With
<1>8. peers[h][p].connectID \in ConnectIDs
  BY PeerTyped DEF IInv
<1>9. Fading
  BY <1>3, <1>4, <1>6, <1>7, <1>8 DEF Fading, IInv, TypeOK
<1> QED BY <1>9, FadingKeeps

\* enet_peer_disconnect
LEMMA DisconnectKeeps ==
    ASSUME IInv, NEW h \in Hosts, NEW p \in Peers(h), Disconnect(h, p)
    PROVE  IInv'
<1>1. CASE Abort(h, p)
  BY <1>1, AbortKeeps DEF Disconnect
<1>2. CASE ~ Abort(h, p)
  <2> DEFINE peer == [Numbered(ResetQueues(peers[h][p]), Command("DISCONNECT", 0))
                        EXCEPT !.state = "DISCONNECTING"]
  <2>1. /\ peers[h][p].state = "CONNECTED" /\ Becomes(h, p, peer)
        /\ UNCHANGED <<network, connects, restarts, accepted, events>>
        /\ ended' = ended \cup {peers[h][p].connectID}
    BY <1>2 DEF Disconnect
  <2>2. PeerFits(h, p, peers[h][p], ended) /\ peers[h][p].connectID \in ConnectIDs
    BY PeerTyped DEF IInv, PeersFit
  <2>3. ended \subseteq ended' /\ peers[h][p].connectID \in ended'
    BY <2>1
  <2>4. PeerFits(h, p, peer, ended') /\ FadesTo(h, peers[h][p], peer)
    BY <2>1, <2>2, <2>3, DisconnectFits
  <2>5. restarts' \in 0 .. MaxRestarts /\ ended' \subseteq ConnectIDs
    BY <2>1, <2>2 DEF IInv, TypeOK
  <2> HIDE DEF peer
  <2> QED BY <2>1, <2>3, <2>4, <2>5, OneFades
<1> QED BY <1>1, <1>2

\* enet_peer_disconnect_now
LEMMA DisconnectNowKeeps ==
    ASSUME IInv, NEW h \in Hosts, NEW p \in Peers(h), DisconnectNow(h, p)
    PROVE  IInv'
<1>1. CASE Abort(h, p)
  BY <1>1, AbortKeeps DEF DisconnectNow
<1>2. CASE ~ Abort(h, p)
  <2>1. /\ Becomes(h, p, Reset(peers[h][p]))
        /\ UNCHANGED <<network, connects, restarts, accepted, events>>
        /\ ended' = ended \cup {peers[h][p].connectID}
    BY <1>2 DEF DisconnectNow
  <2>2. peers[h][p] \in PeerType /\ connects \in ConnectIDs
        /\ peers[h][p].connectID \in ConnectIDs
    BY PeerTyped DEF IInv, TypeOK
  <2>3. /\ PeerFits(h, p, Reset(peers[h][p]), ended')
        /\ FadesTo(h, peers[h][p], Reset(peers[h][p]))
    BY <2>2, ResetFits
  <2> QED BY <2>1, <2>2, <2>3, OneFades DEF IInv, TypeOK
<1> QED BY <1>1, <1>2

\* The client's process starts anew.
LEMMA RestartKeeps ==
    ASSUME IInv, Restart
    PROVE  IInv'
<1> DEFINE f == [p \in Peers(Client) |-> NewPeer]
<1>1. peers' = [peers EXCEPT ![Client] = f]
  BY DEF Restart
<1>2. f = [q \in Peers(Client) |-> f[q]]
  OBVIOUS
<1>3. /\ Shape' /\ peers'[Client] = f
      /\ \A g \in Hosts : g # Client => peers'[g] = peers[g]
  <2>1. Shape /\ Client \in Hosts
    BY HostFacts DEF IInv
  <2> HIDE DEF f
  <2> QED BY <1>1, <1>2, <2>1, AllBecome
<1>4. ASSUME NEW g \in Hosts, NEW q \in Peers(g)
      PROVE  /\ PeerFits(g, q, peers'[g][q], ended')
             /\ FadesTo(g, peers[g][q], peers'[g][q])
  <2>1. PeerFits(g, q, peers[g][q], ended) /\ ended \subseteq ended'
    BY DEF IInv, PeersFit, Restart
  <2>2. CASE g = Client
    <3>1. peers'[g][q] = NewPeer
      BY <1>3, <2>2
    <3>2. connects \in ConnectIDs
      BY DEF IInv, TypeOK
    <3>3. /\ PeerFits(g, q, NewPeer, ended')
          /\ ~ Live(NewPeer) /\ ~ Knows(NewPeer) /\ NewPeer.connectID = 0
      BY <3>2, NewPeerFits
    <3> QED BY <2>2, <3>1, <3>3, HostFacts DEF FadesTo
  <2>3. CASE g # Client
    <3>1. peers'[g][q] = peers[g][q]
      BY <1>3, <2>3
    <3> QED BY <2>1, <3>1, StaysFits
  <2> QED BY <2>2, <2>3
<1>5. ended \subseteq ended' /\ ended' \subseteq ConnectIDs
  <2>1. \A p \in Peers(Client) : peers[Client][p].connectID \in ConnectIDs
    BY PeerTyped, HostFacts DEF IInv
  <2> QED BY <2>1 DEF Restart, IInv, TypeOK
<1>6. restarts' \in 0 .. MaxRestarts
  BY BoundsAssumption DEF Restart, IInv, TypeOK
<1>7. /\ UNCHANGED <<network, connects, accepted, events>>
      /\ network \subseteq Datagrams
  BY DEF Restart, IInv, TypeOK
<1>8. Fading
  BY <1>3, <1>4, <1>5, <1>6, <1>7 DEF Fading
<1> QED BY <1>8, FadingKeeps

\* The datagram d names the peer p of h, which takes it for its connection's.
Delivered(h, p, d) ==
    /\ d \in network /\ d.to = h /\ d.peerID = p /\ Accepts(h, p, d)
    /\ UNCHANGED <<network, connects, restarts, ended, accepted>>

\* It comes from the other end, and says what the invariant says of it.
LEMMA DeliveredIs ==
    ASSUME IInv, NEW h \in Hosts, NEW p \in Peers(h), NEW d, Delivered(h, p, d)
    PROVE  /\ d \in Datagrams /\ d.command \in Commands /\ SettledFits(d)
           /\ d.seed = peers[h][p].connectID
           /\ Live(peers[h][p]) /\ peers[h][p].state # "ZOMBIE"
           /\ Knows(peers[h][p]) => d.session = peers[h][p].in
           /\ PeerFits(h, p, peers[h][p], ended)
           /\ restarts' \in 0 .. MaxRestarts
           /\ ended \subseteq ended' /\ ended' \subseteq ConnectIDs
           /\ connects \in ConnectIDs
<1>1. d \in Datagrams /\ d.command \in Commands /\ DatagramFits(d)
  BY DEF Delivered, IInv, TypeOK, NetworkFits, Datagrams
<1>2. d.command.kind # "CONNECT"
  <2>1. ASSUME d.command.kind = "CONNECT"
        PROVE  FALSE
    <3>1. d.peerID = NoPeerID
      BY <1>1, <2>1 DEF DatagramFits, ConnectFits
    <3> QED BY <3>1, HostFacts DEF Delivered
  <2> QED BY <2>1
<1>3. SettledFits(d)
  BY <1>1, <1>2 DEF DatagramFits
<1>4. /\ d.seed = peers[h][p].connectID
      /\ Live(peers[h][p]) /\ peers[h][p].state # "ZOMBIE"
      /\ Knows(peers[h][p]) => d.session = peers[h][p].in
  BY DEF Delivered, Accepts, Live, Knows
<1>5. PeerFits(h, p, peers[h][p], ended)
  BY DEF IInv, PeersFit
<1> QED BY <1>1, <1>3, <1>4, <1>5 DEF Delivered, IInv, TypeOK

\* enet_protocol_handle_disconnect
LEMMA HandleDisconnectKeeps ==
    ASSUME IInv, NEW h \in Hosts, NEW p \in Peers(h), NEW d, Delivered(h, p, d),
           d.command.kind = "DISCONNECT", HandleDisconnect(h, p, d.command)
    PROVE  IInv'
<1> DEFINE new == Acknowledged(AfterDisconnect(peers[h][p], d.command), d.command)
<1>1. /\ d.command \in Commands /\ SettledFits(d)
      /\ d.seed = peers[h][p].connectID
      /\ Live(peers[h][p]) /\ peers[h][p].state # "ZOMBIE"
      /\ PeerFits(h, p, peers[h][p], ended)
      /\ connects \in ConnectIDs
  BY DeliveredIs
<1>2. Becomes(h, p, new) /\ UNCHANGED events
  BY DEF HandleDisconnect, AfterDisconnect
<1>3. peers[h][p].connectID \in ended /\ ended' = ended
      /\ (d.command.acknowledge => d.command.number = 2)
  BY <1>1 DEF SettledFits, Delivered
<1>4. PeerFits(h, p, new, ended') /\ FadesTo(h, peers[h][p], new)
  BY <1>1, <1>3, DisconnectedFits
<1>5. UNCHANGED <<network, connects, accepted>>
  BY DEF Delivered
<1>6. /\ restarts' \in 0 .. MaxRestarts
      /\ ended \subseteq ended' /\ ended' \subseteq ConnectIDs
  BY DeliveredIs
<1> HIDE DEF new
<1> QED BY <1>2, <1>4, <1>5, <1>6, OneFades

\* The peer without the command that was acknowledged.
Without(h, p, command) ==
    [peers[h][p] EXCEPT !.waiting = @ \ Removed(peers[h][p], command)]

\* The acknowledgement of a VERIFY_CONNECT that is waited for.
Confirms(h, p, command) ==
    /\ peers[h][p].state = "ACKNOWLEDGING_CONNECT"
    /\ \E c \in Removed(peers[h][p], command) : c.kind = "VERIFY_CONNECT"

\* The acknowledgement of anything else.
LEMMA HandleAcknowledgeKeeps ==
    ASSUME IInv, NEW h \in Hosts, NEW p \in Peers(h), NEW d, Delivered(h, p, d),
           HandleAcknowledge(h, p, d.command), ~ Confirms(h, p, d.command)
    PROVE  IInv'
<1> DEFINE peer == Without(h, p, d.command)
<1>1. /\ PeerFits(h, p, peers[h][p], ended) /\ connects \in ConnectIDs
      /\ peers[h][p] \in PeerType
  BY DeliveredIs DEF PeerFits
<1>2. PeerFits(h, p, peer, ended) /\ FadesTo(h, peers[h][p], peer)
  BY <1>1, RemovedFits DEF Without
<1>3. peer \in PeerType /\ peer.state = peers[h][p].state
      /\ peer.in = peers[h][p].in /\ peer.out = peers[h][p].out
  BY <1>1, <1>2 DEF Without, PeerType, PeerFits
<1>4. /\ Becomes(h, p, peer) \/ Becomes(h, p, Reset(peer))
      /\ UNCHANGED events
  BY <1>3 DEF HandleAcknowledge, Confirms, Without
<1>5. UNCHANGED <<network, connects, accepted, ended>>
      /\ restarts' \in 0 .. MaxRestarts
      /\ ended \subseteq ended' /\ ended' \subseteq ConnectIDs
  BY DeliveredIs DEF Delivered
<1> HIDE DEF peer
<1>6. CASE Becomes(h, p, peer)
  BY <1>2, <1>4, <1>5, <1>6, OneFades
<1>7. CASE Becomes(h, p, Reset(peer))
  <2>1. PeerFits(h, p, Reset(peer), ended') /\ FadesTo(h, peer, Reset(peer))
    BY <1>1, <1>3, ResetFits
  <2>2. FadesTo(h, peers[h][p], Reset(peer))
    <3>1. /\ ~ Live(Reset(peer)) /\ Reset(peer).connectID = 0
          /\ ~ Knows(Reset(peer))
          /\ Reset(peer).in = peer.in /\ Reset(peer).out = peer.out
      BY DEF Reset, NewPeer, Live, Knows
    <3> QED BY <1>3, <3>1 DEF FadesTo
  <2> QED BY <1>4, <1>5, <1>7, <2>1, <2>2, OneFades
<1> QED BY <1>4, <1>6, <1>7

\* A VERIFY_CONNECT for a client that is not connecting any more.
LEMMA HandleVerifyConnectKeeps ==
    ASSUME IInv, NEW h \in Hosts, NEW p \in Peers(h), NEW d, Delivered(h, p, d),
           d.command.kind = "VERIFY_CONNECT",
           HandleVerifyConnect(h, p, d.command), peers[h][p].state # "CONNECTING"
    PROVE  IInv'
<1> DEFINE new == Acknowledged(peers[h][p], d.command)
<1>1. /\ d.command \in Commands /\ SettledFits(d)
      /\ PeerFits(h, p, peers[h][p], ended)
  BY DeliveredIs
<1>2. h = Client /\ d.command.number = 1
  BY <1>1 DEF SettledFits, Delivered
<1>3. Becomes(h, p, new) /\ UNCHANGED events
  BY DEF HandleVerifyConnect
<1>4. PeerFits(h, p, new, ended) /\ FadesTo(h, peers[h][p], new)
  BY <1>1, <1>2, AcknowledgedVerifyFits
<1>5. UNCHANGED <<network, connects, accepted, ended>>
      /\ restarts' \in 0 .. MaxRestarts
      /\ ended \subseteq ended' /\ ended' \subseteq ConnectIDs
  BY DeliveredIs DEF Delivered
<1> HIDE DEF new
<1> QED BY <1>3, <1>4, <1>5, OneFades

-----------------------------------------------------------------------------
(***************************************************************************)
(* A connection begins.                                                    *)
(***************************************************************************)

\* The first command of a peer that was free.
LEMMA NumberedIs ==
    ASSUME NEW peer \in PeerType, peer.number = 0, peer.waiting = {},
           NEW c \in Commands
    PROVE  LET sent == [c EXCEPT !.number = 1]
               new == Numbered(peer, c)
           IN  /\ sent \in Commands /\ sent.number = 1 /\ sent.kind = c.kind
               /\ sent.connectID = c.connectID /\ sent.peerID = c.peerID
               /\ sent.in = c.in /\ sent.out = c.out
               /\ new \in PeerType
               /\ new.waiting = {sent} /\ new.number = 1
               /\ new.state = peer.state /\ new.acks = peer.acks
               /\ new.connectID = peer.connectID
               /\ new.outgoingPeerID = peer.outgoingPeerID
               /\ new.in = peer.in /\ new.out = peer.out
<1> DEFINE sent == [c EXCEPT !.number = 1]
           new == Numbered(peer, c)
<1>1. sent \in Commands /\ sent.number = 1 /\ sent.kind = c.kind
      /\ sent.connectID = c.connectID /\ sent.peerID = c.peerID
      /\ sent.in = c.in /\ sent.out = c.out
  BY DEF Commands, Numbers
<1>2. new = [peer EXCEPT !.number = 1, !.waiting = {sent}]
  BY DEF Numbered
<1> HIDE DEF sent, new
<1>3. {sent} \in SUBSET Commands /\ 1 \in Numbers
  BY <1>1 DEF Numbers
<1>4. new \in PeerType
  BY ONLY <1>2, <1>3, peer \in PeerType DEF PeerType
<1>5. /\ new.waiting = {sent} /\ new.number = 1
      /\ new.state = peer.state /\ new.acks = peer.acks
      /\ new.connectID = peer.connectID
      /\ new.outgoingPeerID = peer.outgoingPeerID
      /\ new.in = peer.in /\ new.out = peer.out
  BY <1>2 DEF PeerType
<1> QED BY <1>1, <1>4, <1>5 DEF sent, new

\* enet_host_connect
LEMMA ConnectKeeps ==
    ASSUME IInv, NEW p \in Peers(Client), Connect(p)
    PROVE  IInv'
<1>a. PICK old : old = peers[Client][p]
  OBVIOUS
<1>c. PICK c : c = connects + 1
  OBVIOUS
<1> DEFINE command == [Command("CONNECT", 0) EXCEPT
                         !.connectID = c, !.peerID = p,
                         !.in = old.in, !.out = old.out]
           base == [old EXCEPT !.state = "CONNECTING", !.connectID = c]
           new == Numbered(base, command)
<1>1. /\ old \in PeerType /\ Local(Client, old) /\ ~ Live(old)
      /\ connects \in Nat /\ connects < MaxConnects
      /\ p \in PeerIDs
  BY <1>a, HostFacts, PeerTyped
     DEF IInv, PeersFit, PeerFits, Connect, IsFirstFree, Live, TypeOK, ConnectIDs
<1>2. /\ old.connectID = 0 /\ ~ Knows(old) /\ old.number = 0
      /\ old.waiting = {} /\ old.acks = {}
  BY <1>1 DEF Local
<1>3. c \in ConnectIDs /\ c # 0 /\ c > connects /\ c \in Nat
  BY <1>1, <1>c, BoundsAssumption DEF ConnectIDs
<1>4. /\ command \in Commands /\ command.kind = "CONNECT"
      /\ command.connectID = c /\ command.peerID = p
  <2>1. Command("CONNECT", 0) \in Commands /\ Command("CONNECT", 0).kind = "CONNECT"
    BY CommandType DEF Kinds, Numbers
  <2>2. old.in \in Sessions /\ old.out \in Sessions
    BY <1>1 DEF PeerType
  <2> QED BY <1>1, <1>3, <2>1, <2>2 DEF Commands
<1>5. /\ base \in PeerType /\ base.state = "CONNECTING" /\ base.connectID = c
      /\ base.outgoingPeerID = NoPeerID /\ base.number = 0
      /\ base.waiting = {} /\ base.acks = {}
      /\ base.in = old.in /\ base.out = old.out
  <2>1. "CONNECTING" \in States
    BY DEF States
  <2>2. old.outgoingPeerID = NoPeerID
    BY <1>2 DEF Knows
  <2> QED BY <1>1, <1>2, <1>3, <2>1, <2>2 DEF PeerType
<1>6. Becomes(Client, p, new) /\ connects' = c
      /\ UNCHANGED <<network, restarts, accepted, events, ended>>
  BY <1>a, <1>c DEF Connect
<1> HIDE DEF command, base
<1>7. PICK sent : sent = [command EXCEPT !.number = 1]
  OBVIOUS
<1>8. /\ sent \in Commands /\ sent.number = 1 /\ sent.kind = "CONNECT"
      /\ sent.connectID = c /\ sent.peerID = p
      /\ new \in PeerType /\ new.waiting = {sent} /\ new.number = 1
      /\ new.state = "CONNECTING" /\ new.acks = {}
      /\ new.connectID = c /\ new.outgoingPeerID = NoPeerID
      /\ new.in = old.in /\ new.out = old.out
  BY <1>4, <1>5, <1>7, NumberedIs
<1> HIDE DEF new
<1>9. /\ Shape' /\ peers'[Client][p] = new
      /\ \A g \in Hosts : \A q \in Peers(g) :
            g # Client \/ q # p => peers'[g][q] = peers[g][q]
  BY <1>6, BecomesIs, HostFacts DEF IInv
<1>10. \A g \in Hosts : \A q \in Peers(g) : peers[g][q].connectID # c
  BY <1>1, <1>3, PeerTyped, HostFacts DEF IInv, PeersFit, PeerFits, Told
<1>11. Taken \subseteq 1 .. connects /\ Heard(Client) \subseteq 1 .. connects
       /\ Heard(Server) \subseteq 1 .. connects
  BY DEF IInv, History
<1>12. ASSUME NEW g \in Hosts, NEW q \in Peers(g)
       PROVE  PeerFits(g, q, peers[g][q], ended)'
  <2>1. CASE g = Client /\ q = p
    <3>1. Local(Client, new)
      BY <1>3, <1>8, HostFacts DEF Local, Live, Knows
    <3>2. Told(Client, new)'
      <4>1. c \notin Heard(Client)'
        <5>1. c \notin Heard(Client)
          BY <1>1, <1>3, <1>11
        <5> QED BY <1>6, <5>1 DEF Heard
      <4> QED BY <1>3, <1>6, <1>8, <4>1, HostFacts DEF Told, Knows
    <3>3. Gone(Client, p, new, ended)
      BY <1>8 DEF Gone, CommandFits
    <3>4. PeerFits(Client, p, new, ended)'
      BY <1>6, <1>8, <3>1, <3>2, <3>3 DEF PeerFits, Local, Gone
    <3> QED BY <1>9, <2>1, <3>4 DEF PeerFits, Told
  <2>2. CASE g # Client \/ q # p
    <3>1. PICK r : r = peers[g][q]
      OBVIOUS
    <3>2. PeerFits(g, q, r, ended) /\ peers'[g][q] = r
      BY <1>9, <2>2, <3>1 DEF IInv, PeersFit
    <3>3. r.connectID <= connects => r.connectID <= connects'
      BY <1>1, <1>c, <1>6, <3>1, PeerTyped DEF IInv, ConnectIDs
    <3>4. Told(g, r)'
      BY <1>6, <3>2, <3>3 DEF PeerFits, Told, Heard, Taken
    <3>5. PeerFits(g, q, r, ended')
      BY <1>6, <3>2
    <3> QED BY <3>2, <3>4, <3>5 DEF PeerFits, Told
  <2> QED BY <2>1, <2>2
<1>13. TypeOK'
  <2>1. ASSUME NEW g \in Hosts
        PROVE  peers'[g] \in [Peers(g) -> PeerType]
    <3>1. \A q \in Peers(g) : peers'[g][q] \in PeerType
      BY <1>12 DEF PeerFits
    <3>2. peers'[g] = [q \in Peers(g) |-> peers'[g][q]]
      BY <1>9 DEF Shape
    <3> QED BY <3>1, <3>2
  <2> QED BY <1>3, <1>6, <2>1 DEF IInv, TypeOK
<1>14. NetworkFits'
  <2> SUFFICES ASSUME NEW d \in network
               PROVE  DatagramFits(d)'
    BY <1>6 DEF NetworkFits
  <2>1. DatagramFits(d) /\ d.to \in Hosts
    BY DEF IInv, NetworkFits, TypeOK, Datagrams
  <2>2. CASE d.command.kind = "CONNECT"
    <3>1. ConnectFits(d)
      BY <2>1, <2>2 DEF DatagramFits
    <3>2. /\ d.command.connectID \in 1 .. connects
          /\ d.command.connectID \in 1 .. connects'
      BY <1>1, <1>c, <1>6, <3>1 DEF ConnectFits
    <3>3. \A q \in Peers(Client) :
             peers'[Client][q].connectID = d.command.connectID
             => q = d.command.peerID
      <4>1. d.command.connectID # c
        BY <1>1, <1>3, <3>2
      <4> QED BY <1>8, <1>9, <3>1, <4>1, HostFacts DEF ConnectFits
    <3>4. ConnectFits(d)'
      BY <3>1, <3>2, <3>3 DEF ConnectFits
    <3> QED BY <2>2, <3>4 DEF DatagramFits
  <2>3. CASE d.command.kind # "CONNECT"
    <3>1. SettledFits(d)
      BY <2>1, <2>3 DEF DatagramFits
    <3>2. ASSUME NEW g \in Hosts, NotOpen(g, d.seed)
          PROVE  NotOpen(g, d.seed)'
      BY <1>8, <1>9, <3>2 DEF NotOpen
    <3>3. SettledFits(d)'
      BY <1>6, <2>1, <3>1, <3>2, HostFacts DEF SettledFits, Taken, Heard
    <3> QED BY <2>3, <3>3 DEF DatagramFits
  <2> QED BY <2>2, <2>3
<1>15. History'
  BY <1>1, <1>c, <1>6, <1>11 DEF IInv, History, Taken, Heard
<1>16. Apart'
  <2>1. ASSUME NEW g \in Hosts, NEW q \in Peers(g), NEW r \in Peers(g),
               Live(peers'[g][q]), peers'[g][q].connectID = peers'[g][r].connectID
        PROVE  q = r
    BY <1>8, <1>9, <1>10, <2>1 DEF IInv, Apart
  <2>2. ASSUME NEW q \in Peers(Client), NEW s \in Peers(Server), Ends(q, s)'
        PROVE  peers'[Server][s].outgoingPeerID = q
    <3>1. peers'[Server][s] = peers[Server][s]
      BY <1>9, HostFacts
    <3>2. q # p
      BY <1>8, <1>9, <1>10, <2>2, <3>1, HostFacts DEF Ends
    <3>3. Ends(q, s)
      BY <1>9, <2>2, <3>1, <3>2, HostFacts DEF Ends
    <3> QED BY <3>1, <3>3 DEF IInv, Apart
  <2> QED BY <2>1, <2>2 DEF Apart, Live
<1>17. NothingNew
  <2>1. \A q \in Peers(Client) : Knows(peers'[Client][q]) => q # p
    BY <1>8, <1>9 DEF Knows
  <2>2. \A q \in Peers(Client) : q # p => peers'[Client][q] = peers[Client][q]
    BY <1>9, HostFacts
  <2>3. \A s \in Peers(Server) : peers'[Server][s] = peers[Server][s]
    BY <1>9, HostFacts
  <2>4. \A a \in ConnectIDs : \A s \in PeerIDs : \A x \in Sessions :
           Voice(a, s, x)' => Voice(a, s, x)
    BY <1>6, <2>1, <2>2 DEF Voice, Spoke, Speaks
  <2>5. \A a \in ConnectIDs : \A s \in PeerIDs : \A x, y \in Sessions :
           Offer(a, s, x, y)' => Offer(a, s, x, y)
    BY <1>6, <2>1, <2>2, <2>3 DEF Offer, Offered, Adopted, Held
  <2> QED BY <1>6, <2>3, <2>4, <2>5 DEF NothingNew
<1>18. Sessioned'
  BY <1>13, <1>17, NothingNewKeeps DEF IInv
<1> QED BY <1>9, <1>12, <1>13, <1>14, <1>15, <1>16, <1>18 DEF IInv, PeersFit

-----------------------------------------------------------------------------
(***************************************************************************)
(* A connection is established.                                            *)
(***************************************************************************)

\* An event more, of a connection that had none.
LEMMA ReportIs ==
    ASSUME IInv, NEW h \in Hosts, NEW c \in ConnectIDs, c \notin Heard(h),
           Report(h, c)
    PROVE  /\ events' \in [Hosts -> Seq(ConnectIDs)]
           /\ Range(events'[h]) = Heard(h) \cup {c}
           /\ IsInjective(events'[h])
           /\ \A g \in Hosts : g # h => events'[g] = events[g]
<1>1. events \in [Hosts -> Seq(ConnectIDs)] /\ IsInjective(events[h])
  BY DEF IInv, TypeOK, History
<1>2. PICK s : s = events[h]
  OBVIOUS
<1>3. s \in Seq(ConnectIDs) /\ IsInjective(s) /\ c \notin Range(s)
  BY <1>1, <1>2 DEF Heard
<1>4. events'[h] = Append(s, c)
  BY <1>1, <1>2 DEF Report
<1>5. Append(s, c) \in Seq(ConnectIDs)
  BY <1>3
<1>6. /\ Range(Append(s, c)) = Range(s) \cup {c}
      /\ IsInjective(Append(s, c))
  <2>1. /\ DOMAIN Append(s, c) = 1 .. Len(s) + 1 /\ DOMAIN s = 1 .. Len(s)
        /\ Len(s) \in Nat
        /\ \A i \in 1 .. Len(s) : Append(s, c)[i] = s[i]
        /\ Append(s, c)[Len(s) + 1] = c
    BY <1>3
  <2>2. \A i \in 1 .. Len(s) + 1 : i \in 1 .. Len(s) \/ i = Len(s) + 1
    BY <2>1
  <2>3. \A i \in 1 .. Len(s) : s[i] # c
    BY <1>3, <2>1 DEF Range
  <2>4. Range(Append(s, c)) \subseteq Range(s) \cup {c}
    BY <2>1, <2>2 DEF Range
  <2>5. Range(s) \cup {c} \subseteq Range(Append(s, c))
    <3>1. c \in Range(Append(s, c))
      BY <2>1 DEF Range
    <3>2. \A i \in 1 .. Len(s) : i \in 1 .. Len(s) + 1
      BY <2>1
    <3>3. Range(s) \subseteq Range(Append(s, c))
      BY <2>1, <3>2 DEF Range
    <3> QED BY <3>1, <3>3
  <2>6. IsInjective(Append(s, c))
    BY <1>3, <2>1, <2>2, <2>3 DEF IsInjective
  <2> QED BY <2>4, <2>5, <2>6
<1>7. \A g \in Hosts : g # h => events'[g] = events[g]
  BY <1>1 DEF Report
<1>8. events' \in [Hosts -> Seq(ConnectIDs)]
  BY <1>1, <1>2, <1>4, <1>5 DEF Report
<1> QED BY <1>2, <1>4, <1>6, <1>7, <1>8 DEF Heard

\* The types after a step of one peer.
LEMMA OneTyped ==
    ASSUME IInv, Shape', NEW h \in Hosts, NEW p \in Peers(h),
           peers'[h][p] \in PeerType,
           \A g \in Hosts : \A q \in Peers(g) :
              g # h \/ q # p => peers'[g][q] = peers[g][q]
    PROVE  \A g \in Hosts : peers'[g] \in [Peers(g) -> PeerType]
<1> SUFFICES ASSUME NEW g \in Hosts
             PROVE  peers'[g] \in [Peers(g) -> PeerType]
  OBVIOUS
<1>1. \A q \in Peers(g) : peers'[g][q] \in PeerType
  BY PeerTyped DEF IInv
<1>2. peers'[g] = [q \in Peers(g) |-> peers'[g][q]]
  BY DEF Shape
<1> QED BY <1>1, <1>2

\* The client's acknowledgement of a VERIFY_CONNECT: enet_protocol_notify_connect
\* at the server.
LEMMA ConfirmKeeps ==
    ASSUME IInv, NEW h \in Hosts, NEW p \in Peers(h), NEW d, Delivered(h, p, d),
           d.command.kind = "ACKNOWLEDGE",
           HandleAcknowledge(h, p, d.command), Confirms(h, p, d.command)
    PROVE  IInv'
<1>a. PICK old : old = peers[h][p]
  OBVIOUS
<1>c. PICK c : c = old.connectID
  OBVIOUS
<1>w. PICK w : w = old.waiting \ Removed(old, d.command)
  OBVIOUS
<1> DEFINE new == [old EXCEPT !.waiting = w, !.state = "CONNECTED"]
<1>1. /\ old \in PeerType /\ PeerFits(h, p, old, ended)
      /\ old.state = "ACKNOWLEDGING_CONNECT"
      /\ Local(h, old) /\ Told(h, old) /\ Gone(h, p, old, ended)
  BY <1>a, DeliveredIs DEF PeerFits, Confirms
<1>2. h = Server /\ Knows(old) /\ Live(old)
  BY <1>1 DEF Local, Hosts, Live
<1>3. /\ d \in network /\ d.to = Server /\ d.peerID = p
      /\ d.seed = c /\ d.session = old.in /\ SettledFits(d)
  BY <1>2, <1>a, <1>c, DeliveredIs DEF Delivered
<1>4. c \in ConnectIDs /\ c # 0 /\ c \in Heard(Client) /\ old.in \in Sessions
  BY <1>1, <1>2, <1>3, <1>c DEF SettledFits, Local, PeerType
<1>5. Spoke(c, p, old.in)
  BY <1>3 DEF Spoke
<1>6. c \notin Heard(Server)
  BY <1>1, <1>2, <1>5, <1>a, <1>c DEF IInv, Sessioned, Deaf, Voice
<1>7. /\ Becomes(h, p, new) /\ Report(h, c)
  <2>1. Without(h, p, d.command) = [old EXCEPT !.waiting = w]
    BY <1>a, <1>w DEF Without
  <2>2. /\ Without(h, p, d.command).state = "ACKNOWLEDGING_CONNECT"
        /\ Without(h, p, d.command).connectID = c
        /\ [Without(h, p, d.command) EXCEPT !.state = "CONNECTED"] = new
    BY <1>1, <1>c, <2>1 DEF PeerType
  <2>3. /\ Becomes(h, p, [Without(h, p, d.command) EXCEPT !.state = "CONNECTED"])
        /\ Report(h, Without(h, p, d.command).connectID)
    BY <1>a, <2>2 DEF HandleAcknowledge, Confirms, Without
  <2> HIDE DEF new
  <2> QED BY <2>2, <2>3
<1>8. /\ new \in PeerType /\ new.state = "CONNECTED" /\ new.waiting = w
      /\ new.acks = old.acks /\ new.number = old.number
      /\ new.connectID = c /\ new.outgoingPeerID = old.outgoingPeerID
      /\ new.in = old.in /\ new.out = old.out
  <2>1. "CONNECTED" \in States
    BY DEF States
  <2>2. w \in SUBSET Commands
    BY <1>1, <1>w DEF PeerType
  <2>3. new \in PeerType
    BY ONLY <1>1, <2>1, <2>2 DEF PeerType
  <2> QED BY <1>1, <1>c, <2>3 DEF PeerType
<1> HIDE DEF new
<1>9. /\ Shape' /\ peers'[Server][p] = new
      /\ \A g \in Hosts : \A q \in Peers(g) :
            g # Server \/ q # p => peers'[g][q] = peers[g][q]
  BY <1>2, <1>7, BecomesIs DEF IInv
<1>10. /\ events' \in [Hosts -> Seq(ConnectIDs)]
       /\ Heard(Server)' = Heard(Server) \cup {c}
       /\ IsInjective(events'[Server])
       /\ Heard(Client)' = Heard(Client)
       /\ events'[Client] = events[Client]
  BY <1>2, <1>4, <1>6, <1>7, ReportIs, HostFacts DEF Heard
<1>11. UNCHANGED <<network, connects, restarts, ended, accepted>>
  BY DEF Delivered
<1>12. \A q \in Peers(Server) : peers[Server][q].connectID = c => q = p
  BY <1>2, <1>a, <1>c DEF IInv, Apart
<1>13. ASSUME NEW g \in Hosts, NEW q \in Peers(g)
       PROVE  PeerFits(g, q, peers[g][q], ended)'
  <2>1. CASE g = Server /\ q = p
    <3>1. Local(Server, new)
      <4>1. Local(Server, old) /\ old.number = 1
        BY <1>1, <1>2 DEF Local
      <4> QED BY <1>1, <1>2, <1>4, <1>8, <4>1, HostFacts DEF Local, Live, Knows
    <3>2. Told(Server, new)'
      BY <1>1, <1>2, <1>8, <1>10, <1>11, <1>c, HostFacts
         DEF Told, Live, Knows, Taken
    <3>3. Gone(Server, p, new, ended)
      <4>1. \A a \in w : CommandFits(Server, p, old, a, ended) /\ a.kind # "CONNECT"
        BY <1>1, <1>2, <1>w DEF Gone, CommandFits
      <4>2. \A a \in new.waiting : CommandFits(Server, p, new, a, ended)
        BY <1>8, <1>c, <4>1 DEF CommandFits
      <4>3. \A a \in new.acks : FALSE
        BY <1>1, <1>2, <1>8, HostFacts DEF Gone, AckFits
      <4> QED BY <1>8, <4>2, <4>3 DEF Gone
    <3>4. Gone(Server, p, new, ended')
      BY <1>11, <3>3
    <3> QED BY <1>8, <1>9, <2>1, <3>1, <3>2, <3>4 DEF PeerFits, Told
  <2>2. CASE g # Server \/ q # p
    <3>1. PICK r : r = peers[g][q]
      OBVIOUS
    <3>2. PeerFits(g, q, r, ended) /\ peers'[g][q] = r
      BY <1>9, <2>2, <3>1 DEF IInv, PeersFit
    <3>3. Told(g, r)'
      BY <1>10, <1>11, <3>2 DEF PeerFits, Told, Taken
    <3>4. PeerFits(g, q, r, ended')
      BY <1>11, <3>2
    <3> QED BY <3>2, <3>3, <3>4 DEF PeerFits, Told
  <2> QED BY <2>1, <2>2
<1>14. TypeOK'
  <2>1. \A g \in Hosts : peers'[g] \in [Peers(g) -> PeerType]
    BY <1>2, <1>8, <1>9, OneTyped
  <2> QED BY <1>10, <1>11, <2>1 DEF IInv, TypeOK
<1>15. NetworkFits'
  <2> SUFFICES ASSUME NEW e \in network
               PROVE  DatagramFits(e)'
    BY <1>11 DEF NetworkFits
  <2>1. DatagramFits(e) /\ e.to \in Hosts
    BY DEF IInv, NetworkFits, TypeOK, Datagrams
  <2>2. CASE e.command.kind = "CONNECT"
    BY <1>9, <1>11, <2>1, <2>2, HostFacts DEF DatagramFits, ConnectFits
  <2>3. CASE e.command.kind # "CONNECT"
    <3>1. SettledFits(e)
      BY <2>1, <2>3 DEF DatagramFits
    <3>2. ASSUME NEW g \in Hosts, NotOpen(g, e.seed), e.seed \in Heard(g)
          PROVE  NotOpen(g, e.seed)' /\ e.seed \in Heard(g)'
      <4>1. CASE g = Client
        BY <1>9, <1>10, <3>2, <4>1, HostFacts DEF NotOpen
      <4>2. CASE g = Server
        <5>1. e.seed # c
          BY <1>6, <3>2, <4>2
        <5> QED BY <1>8, <1>9, <1>10, <3>2, <4>2, <5>1 DEF NotOpen
      <4> QED BY <4>1, <4>2 DEF Hosts
    <3>3. SettledFits(e)'
      BY <1>10, <1>11, <2>1, <3>1, <3>2, HostFacts DEF SettledFits, Taken
    <3> QED BY <2>3, <3>3 DEF DatagramFits
  <2> QED BY <2>2, <2>3
<1>16. History'
  BY <1>4, <1>10, <1>11 DEF IInv, History, Taken, Hosts
<1>17. Apart'
  <2>1. \A g \in Hosts : \A q \in Peers(g) :
           /\ peers'[g][q].connectID = peers[g][q].connectID
           /\ Live(peers'[g][q]) => Live(peers[g][q])
           /\ peers'[g][q].outgoingPeerID = peers[g][q].outgoingPeerID
    BY <1>2, <1>8, <1>9, <1>a, <1>c
  <2> QED BY <2>1, HostFacts DEF IInv, Apart, Live, Ends
<1>18. \A q \in Peers(Client) : peers'[Client][q] = peers[Client][q]
  BY <1>9, HostFacts
<1>19. \A s \in Peers(Server) :
          /\ peers'[Server][s].connectID = peers[Server][s].connectID
          /\ peers'[Server][s].in = peers[Server][s].in
          /\ peers'[Server][s].out = peers[Server][s].out
          /\ Live(peers'[Server][s]) <=> Live(peers[Server][s])
          /\ s # p => peers'[Server][s] = peers[Server][s]
  BY <1>2, <1>8, <1>9, <1>a, <1>c, HostFacts DEF Live
<1>20. ASSUME NEW a, NEW s, NEW x
       PROVE  /\ Voice(a, s, x)' <=> Voice(a, s, x)
              /\ Spoke(a, s, x)' <=> Spoke(a, s, x)
  BY <1>11, <1>18 DEF Voice, Spoke, Speaks
<1>21. ASSUME NEW a, NEW s, NEW x, NEW y
       PROVE  Offer(a, s, x, y)' <=> Offer(a, s, x, y)
  BY <1>11, <1>18, <1>19 DEF Offer, Offered, Adopted, Held
<1>22. OneVoice' /\ OneOffer'
  BY <1>20, <1>21 DEF IInv, Sessioned, OneVoice, OneOffer
<1>23. LatestFits'
  <2> SUFFICES ASSUME NEW a \in ConnectIDs, NEW s \in Peers(Server),
                      NEW x \in Sessions, NEW y \in Sessions, Latest(a)'
               PROVE  /\ Voice(a, s, x)' => peers'[Server][s].in = x
                      /\ Offer(a, s, x, y)'
                         => peers'[Server][s].in = x /\ peers'[Server][s].out = y
    BY DEF LatestFits
  <2>1. Latest(a)
    BY <1>11 DEF Latest, Taken
  <2> QED BY <1>19, <1>20, <1>21, <2>1 DEF IInv, Sessioned, LatestFits
<1>24. Deaf'
  <2> SUFFICES ASSUME NEW s \in Peers(Server),
                      peers'[Server][s].state = "ACKNOWLEDGING_CONNECT",
                      peers'[Server][s].connectID \in Heard(Server)',
                      Voice(peers[Server][s].connectID, s, peers[Server][s].in)'
               PROVE  FALSE
    BY DEF Deaf
  <2>1. s # p
    BY <1>8, <1>9
  <2>2. PICK r : r = peers[Server][s]
    OBVIOUS
  <2>3. peers'[Server][s] = r
    BY <1>19, <2>1, <2>2
  <2>4. r.connectID # c
    BY <1>12, <2>1, <2>2
  <2>5. r.connectID \in Heard(Server) /\ r.state = "ACKNOWLEDGING_CONNECT"
    BY <1>10, <2>3, <2>4
  <2>6. Voice(r.connectID, s, r.in)'
    BY <2>3 DEF Voice, Spoke, Speaks
  <2>7. Voice(r.connectID, s, r.in)
    BY <1>20, <2>6
  <2> QED BY <2>2, <2>5, <2>7 DEF IInv, Sessioned, Deaf
<1>25. Confirmed'
  <2> SUFFICES ASSUME NEW s \in Peers(Server),
                      peers'[Server][s].state = "CONNECTED"
               PROVE  Spoke(peers[Server][s].connectID, s, peers[Server][s].in)'
    BY DEF Confirmed
  <2>1. PICK r : r = peers'[Server][s]
    OBVIOUS
  <2>2. Spoke(r.connectID, s, r.in)
    <3>1. CASE s = p
      BY <1>5, <1>8, <1>9, <2>1, <3>1
    <3>2. CASE s # p
      BY <1>19, <2>1, <3>2 DEF IInv, Sessioned, Confirmed
    <3> QED BY <3>1, <3>2
  <2>3. Spoke(r.connectID, s, r.in)'
    BY <1>20, <2>2
  <2> QED BY <2>1, <2>3 DEF Spoke
<1> QED BY <1>9, <1>13, <1>14, <1>15, <1>16, <1>17, <1>22, <1>23, <1>24, <1>25
        DEF IInv, PeersFit, Sessioned

\* The VERIFY_CONNECT that a client waits for: the client adopts the slot and
\* the session IDs it offers.
LEMMA AdoptKeeps ==
    ASSUME IInv, NEW h \in Hosts, NEW p \in Peers(h), NEW d, Delivered(h, p, d),
           d.command.kind = "VERIFY_CONNECT",
           HandleVerifyConnect(h, p, d.command), peers[h][p].state = "CONNECTING"
    PROVE  IInv'
<1>a. PICK old : old = peers[h][p]
  OBVIOUS
<1>c. PICK c : c = old.connectID
  OBVIOUS
<1>m. PICK m : m = d.command
  OBVIOUS
<1>w. PICK w : w = {a \in old.waiting : a.number # 1}
  OBVIOUS
<1> DEFINE connected == [old EXCEPT !.waiting = w, !.outgoingPeerID = m.peerID,
                                    !.in = m.in, !.out = m.out,
                                    !.state = "CONNECTED"]
<1>1. /\ old \in PeerType /\ PeerFits(h, p, old, ended)
      /\ old.state = "CONNECTING"
      /\ Local(h, old) /\ Told(h, old) /\ Gone(h, p, old, ended)
      /\ connects \in Nat
  BY <1>a, DeliveredIs, HostFacts DEF PeerFits
<1>2. h = Client /\ ~ Knows(old) /\ Live(old)
  BY <1>1 DEF Local, Hosts, Live
<1>3. /\ d \in network /\ d.seed = c /\ m \in Commands /\ SettledFits(d)
      /\ m.kind = "VERIFY_CONNECT"
  BY <1>a, <1>c, <1>m, DeliveredIs DEF Delivered
<1>4. /\ c \in ConnectIDs /\ c # 0 /\ c \in Taken
      /\ m.connectID = c /\ m.peerID \in Peers(Server) /\ m.number = 1
      /\ m.peerID \in PeerIDs /\ m.peerID # NoPeerID
      /\ m.in \in Sessions /\ m.out \in Sessions
  BY <1>1, <1>2, <1>3, <1>c, <1>m, HostFacts
     DEF SettledFits, Local, PeerType, Commands
<1>5. c \notin Heard(Client) /\ c \notin Heard(Server)
  BY <1>1, <1>c DEF Told, IInv, History
<1>6. w = {} /\ old.acks = {}
  <2>1. \A a \in old.waiting : a.number = 1
    BY <1>1, <1>2, <1>5, <1>c, HostFacts DEF Gone, CommandFits, Local
  <2>2. \A a \in old.acks : FALSE
    BY <1>1, <1>2 DEF Gone, AckFits
  <2> QED BY <1>w, <2>1, <2>2
<1>7. /\ connected \in PeerType /\ connected.state = "CONNECTED"
      /\ connected.waiting = {} /\ connected.acks = {}
      /\ connected.number = old.number /\ connected.connectID = c
      /\ connected.outgoingPeerID = m.peerID
      /\ connected.in = m.in /\ connected.out = m.out
  <2>1. "CONNECTED" \in States /\ {} \in SUBSET Commands
    BY DEF States
  <2>2. connected \in PeerType
    BY ONLY <1>1, <1>4, <1>6, <2>1 DEF PeerType
  <2> QED BY <1>1, <1>6, <1>c, <2>2 DEF PeerType
<1>8. PICK new : new = Acknowledged(connected, m)
  OBVIOUS
<1>9. Becomes(h, p, new) /\ Report(h, c)
  <2>1. /\ Becomes(h, p, Acknowledged(connected, m))
        /\ Report(h, peers[h][p].connectID)
    BY <1>1, <1>3, <1>4, <1>a, <1>c, <1>m, <1>w DEF HandleVerifyConnect
  <2> HIDE DEF connected
  <2> QED BY <1>8, <1>a, <1>c, <2>1
<1> HIDE DEF connected
<1>10. /\ new \in PeerType /\ new.state = "CONNECTED" /\ new.waiting = {}
       /\ new.acks \subseteq {m}
       /\ new.number = old.number /\ new.connectID = c
       /\ new.outgoingPeerID = m.peerID
       /\ new.in = m.in /\ new.out = m.out
  <2>1. CASE new = connected
    BY <1>7, <2>1
  <2>2. CASE new # connected
    <3>1. new = [connected EXCEPT !.acks = {m}]
      BY <1>7, <1>8, <2>2 DEF Acknowledged
    <3>2. {m} \in SUBSET Commands
      BY <1>3
    <3> QED BY ONLY <1>7, <3>1, <3>2 DEF PeerType
  <2> QED BY <2>1, <2>2
<1>11. /\ Shape' /\ peers'[Client][p] = new
       /\ \A g \in Hosts : \A q \in Peers(g) :
             g # Client \/ q # p => peers'[g][q] = peers[g][q]
  BY <1>2, <1>9, BecomesIs DEF IInv
<1>12. /\ events' \in [Hosts -> Seq(ConnectIDs)]
       /\ Heard(Client)' = Heard(Client) \cup {c}
       /\ IsInjective(events'[Client])
       /\ Heard(Server)' = Heard(Server)
       /\ events'[Server] = events[Server]
  BY <1>2, <1>4, <1>5, <1>9, ReportIs, HostFacts DEF Heard
<1>13. UNCHANGED <<network, connects, restarts, ended, accepted>>
  BY DEF Delivered
<1>14. \A q \in Peers(Client) : peers[Client][q].connectID = c => q = p
  BY <1>2, <1>a, <1>c DEF IInv, Apart
<1>15. ASSUME NEW g \in Hosts, NEW q \in Peers(g)
       PROVE  PeerFits(g, q, peers[g][q], ended)'
  <2>1. CASE g = Client /\ q = p
    <3>1. Local(Client, new)
      <4>1. Local(Client, old) /\ old.number = 1
        BY <1>1, <1>2 DEF Local
      <4> QED BY <1>4, <1>10, <4>1, HostFacts DEF Local, Live, Knows
    <3>2. Told(Client, new)'
      <4>1. c <= connects'
        BY <1>1, <1>13, <1>c DEF Told
      <4> QED BY <1>10, <1>12, <4>1, HostFacts DEF Told
    <3>3. Gone(Client, p, new, ended')
      <4>1. \A a \in new.acks : AckFits(Client, new, a)
        BY <1>3, <1>4, <1>10 DEF AckFits, Knows
      <4> QED BY <1>10, <4>1 DEF Gone
    <3> QED BY <1>10, <1>11, <2>1, <3>1, <3>2, <3>3 DEF PeerFits, Told
  <2>2. CASE g # Client \/ q # p
    <3>1. PICK r : r = peers[g][q]
      OBVIOUS
    <3>2. PeerFits(g, q, r, ended) /\ peers'[g][q] = r
      BY <1>11, <2>2, <3>1 DEF IInv, PeersFit
    <3>3. r.state = "CONNECTING" => r.connectID # c
      <4>1. r.state = "CONNECTING" => g = Client
        BY <3>2 DEF PeerFits, Local, Hosts
      <4> QED BY <1>14, <2>2, <3>1, <4>1
    <3>4. Told(g, r)'
      BY <1>12, <1>13, <3>2, <3>3 DEF PeerFits, Told, Taken
    <3>5. PeerFits(g, q, r, ended')
      BY <1>13, <3>2
    <3> QED BY <3>2, <3>4, <3>5 DEF PeerFits, Told
  <2> QED BY <2>1, <2>2
<1>16. TypeOK'
  <2>1. \A g \in Hosts : peers'[g] \in [Peers(g) -> PeerType]
    BY <1>2, <1>10, <1>11, OneTyped
  <2> QED BY <1>12, <1>13, <2>1 DEF IInv, TypeOK
<1>17. \A q \in Peers(Client) :
          /\ peers'[Client][q].connectID = peers[Client][q].connectID
          /\ q # p => peers'[Client][q] = peers[Client][q]
  BY <1>2, <1>10, <1>11, <1>a, <1>c, HostFacts
<1>18. \A s \in Peers(Server) : peers'[Server][s] = peers[Server][s]
  BY <1>11, HostFacts
<1>19. NetworkFits'
  <2> SUFFICES ASSUME NEW e \in network
               PROVE  DatagramFits(e)'
    BY <1>13 DEF NetworkFits
  <2>1. DatagramFits(e) /\ e.to \in Hosts
    BY DEF IInv, NetworkFits, TypeOK, Datagrams
  <2>2. CASE e.command.kind = "CONNECT"
    BY <1>13, <1>17, <2>1, <2>2, HostFacts DEF DatagramFits, ConnectFits
  <2>3. CASE e.command.kind # "CONNECT"
    <3>1. SettledFits(e)
      BY <2>1, <2>3 DEF DatagramFits
    <3>2. ASSUME NEW g \in Hosts, NotOpen(g, e.seed), e.seed \in Heard(g)
          PROVE  NotOpen(g, e.seed)' /\ e.seed \in Heard(g)'
      <4>1. CASE g = Server
        BY <1>12, <1>18, <3>2, <4>1 DEF NotOpen
      <4>2. CASE g = Client
        <5>1. e.seed # c
          BY <1>5, <3>2, <4>2
        <5> QED BY <1>10, <1>11, <1>12, <1>17, <3>2, <4>2, <5>1 DEF NotOpen
      <4> QED BY <4>1, <4>2 DEF Hosts
    <3>3. SettledFits(e)'
      BY <1>12, <1>13, <2>1, <3>1, <3>2, HostFacts DEF SettledFits, Taken
    <3> QED BY <2>3, <3>3 DEF DatagramFits
  <2> QED BY <2>2, <2>3
<1>20. History'
  BY <1>4, <1>12, <1>13 DEF IInv, History, Taken, Hosts
<1>21. Apart'
  <2>1. \A g \in Hosts : \A q \in Peers(g) :
           /\ peers'[g][q].connectID = peers[g][q].connectID
           /\ Live(peers'[g][q]) => Live(peers[g][q])
    BY <1>2, <1>10, <1>11, <1>a, <1>c
  <2>2. \A s \in Peers(Server) :
           peers'[Server][s].outgoingPeerID = peers[Server][s].outgoingPeerID
    BY <1>18
  <2> QED BY <2>1, <2>2, HostFacts DEF IInv, Apart, Live, Ends
<1>22. ASSUME NEW a, NEW s, NEW x
       PROVE  /\ a # c => (Voice(a, s, x)' => Voice(a, s, x))
              /\ Voice(c, s, x)' => s = m.peerID /\ x = m.out
              /\ Spoke(a, s, x)' <=> Spoke(a, s, x)
  <2>1. Spoke(a, s, x)' <=> Spoke(a, s, x)
    BY <1>13 DEF Spoke
  <2>2. a # c /\ Speaks(a, s, x)' => Speaks(a, s, x)
    BY <1>10, <1>11, <1>17 DEF Speaks
  <2>3. ~ Spoke(c, s, x)
    BY <1>5 DEF Spoke, IInv, NetworkFits, DatagramFits, SettledFits
  <2>4. ~ Spoke(c, s, x)'
    BY <1>13, <2>3 DEF Spoke
  <2>5. Speaks(c, s, x)' => s = m.peerID /\ x = m.out
    BY <1>10, <1>11, <1>14, <1>17 DEF Speaks
  <2> QED BY <2>1, <2>2, <2>4, <2>5 DEF Voice
<1>23. ASSUME NEW a, NEW s, NEW x, NEW y, Offer(a, s, x, y)'
       PROVE  Offer(a, s, x, y)
  <2>1. CASE Offered(a, s, x, y)'
    BY <1>13, <2>1 DEF Offer, Offered
  <2>2. CASE Held(a, s, x, y)'
    BY <1>18, <2>2 DEF Offer, Held
  <2>3. CASE Adopted(a, s, x, y)'
    <3>1. PICK q \in Peers(Client) :
            /\ Knows(peers'[Client][q])
            /\ peers'[Client][q].connectID = a
            /\ peers'[Client][q].outgoingPeerID = s
            /\ peers'[Client][q].out = x /\ peers'[Client][q].in = y
      BY <2>3 DEF Adopted
    <3>2. CASE q = p
      <4>1. a = c /\ s = m.peerID /\ x = m.out /\ y = m.in
        BY <1>10, <1>11, <3>1, <3>2
      <4>2. Offered(a, s, x, y)
        BY <1>3, <1>m, <4>1 DEF Offered
      <4> QED BY <4>2 DEF Offer
    <3>3. CASE q # p
      BY <1>17, <3>1, <3>3 DEF Offer, Adopted
    <3> QED BY <3>2, <3>3
  <2> QED BY <1>23, <2>1, <2>2, <2>3 DEF Offer
<1>24. OneVoice'
  <2> SUFFICES ASSUME NEW a \in ConnectIDs, NEW s \in PeerIDs, NEW t \in PeerIDs,
                      NEW x \in Sessions, NEW y \in Sessions,
                      Voice(a, s, x)', Voice(a, t, y)'
               PROVE  s = t /\ x = y
    BY DEF OneVoice
  <2>1. CASE a = c
    BY <1>22, <2>1
  <2>2. CASE a # c
    <3>1. Voice(a, s, x) /\ Voice(a, t, y)
      BY <1>22, <2>2
    <3> QED BY <3>1 DEF IInv, Sessioned, OneVoice
  <2> QED BY <2>1, <2>2
<1>25. OneOffer'
  BY <1>23 DEF IInv, Sessioned, OneOffer
<1>26. LatestFits'
  <2> SUFFICES ASSUME NEW a \in ConnectIDs, NEW s \in Peers(Server),
                      NEW x \in Sessions, NEW y \in Sessions, Latest(a)'
               PROVE  /\ Voice(a, s, x)' => peers'[Server][s].in = x
                      /\ Offer(a, s, x, y)'
                         => peers'[Server][s].in = x /\ peers'[Server][s].out = y
    BY DEF LatestFits
  <2>1. Latest(a)
    BY <1>13 DEF Latest, Taken
  <2>2. Offer(a, s, x, y)'
        => peers'[Server][s].in = x /\ peers'[Server][s].out = y
    BY <1>18, <1>23, <2>1 DEF IInv, Sessioned, LatestFits
  <2>3. ASSUME Voice(a, s, x)'
        PROVE  peers'[Server][s].in = x
    <3>1. CASE a # c
      BY <1>18, <1>22, <2>1, <2>3, <3>1 DEF IInv, Sessioned, LatestFits
    <3>2. CASE a = c
      <4>1. s = m.peerID /\ x = m.out
        BY <1>22, <2>3, <3>2
      <4>2. Offer(c, s, x, m.in)
        BY <1>3, <1>m, <4>1 DEF Offer, Offered
      <4>3. peers[Server][s].in = x
        BY <1>4, <2>1, <3>2, <4>2 DEF IInv, Sessioned, LatestFits
      <4> QED BY <1>18, <4>3
    <3> QED BY <3>1, <3>2
  <2> QED BY <2>2, <2>3
<1>27. Deaf'
  <2> SUFFICES ASSUME NEW s \in Peers(Server),
                      peers'[Server][s].state = "ACKNOWLEDGING_CONNECT",
                      peers'[Server][s].connectID \in Heard(Server)',
                      Voice(peers[Server][s].connectID, s, peers[Server][s].in)'
               PROVE  FALSE
    BY DEF Deaf
  <2>1. PICK r : r = peers[Server][s]
    OBVIOUS
  <2>2. peers'[Server][s] = r
    BY <1>18, <2>1
  <2>3. r.connectID \in Heard(Server) /\ r.connectID # c
    BY <1>5, <1>12, <2>2
  <2>4. Voice(r.connectID, s, r.in)'
    BY <2>2 DEF Voice, Spoke, Speaks
  <2>5. Voice(r.connectID, s, r.in)
    BY <1>22, <2>3, <2>4
  <2> QED BY <2>1, <2>2, <2>3, <2>5 DEF IInv, Sessioned, Deaf
<1>28. Confirmed'
  <2> SUFFICES ASSUME NEW s \in Peers(Server),
                      peers'[Server][s].state = "CONNECTED"
               PROVE  Spoke(peers[Server][s].connectID, s, peers[Server][s].in)'
    BY DEF Confirmed
  <2>1. PICK r : r = peers[Server][s]
    OBVIOUS
  <2>2. peers'[Server][s] = r
    BY <1>18, <2>1
  <2>3. Spoke(r.connectID, s, r.in)
    BY <2>1, <2>2 DEF IInv, Sessioned, Confirmed
  <2>4. Spoke(r.connectID, s, r.in)'
    BY <1>22, <2>3
  <2> QED BY <2>2, <2>4 DEF Spoke
<1> QED BY <1>11, <1>15, <1>16, <1>19, <1>20, <1>21, <1>24, <1>25, <1>26, <1>27,
           <1>28
        DEF IInv, PeersFit, Sessioned

-----------------------------------------------------------------------------
(***************************************************************************)
(* The server accepts a CONNECT.                                           *)
(***************************************************************************)

\* The new session ID is not the one the slot had.
LEMMA NewSessionIs ==
    ASSUME NEW given \in Sessions, NEW own \in Sessions
    PROVE  NewSession(given, own) \in Sessions /\ NewSession(given, own) # own
<1>1. PICK next : next = ((IF given = NoSession THEN own ELSE given) + 1) % 4
  OBVIOUS
<1>2. next \in 0 .. 3
  <2>1. (IF given = NoSession THEN own ELSE given) + 1 \in Nat
    BY DEF Sessions, NoSession
  <2>2. PICK n \in Nat : n = (IF given = NoSession THEN own ELSE given) + 1
    BY <2>1
  <2>3. n % 4 \in 0 .. 3
    BY <2>2
  <2> QED BY <1>1, <2>2, <2>3
<1>3. \A x \in 0 .. 3 : (x + 1) % 4 \in 0 .. 3 /\ (x + 1) % 4 # x
  OBVIOUS
<1>4. NewSession(given, own) = IF next = own THEN (next + 1) % 4 ELSE next
  BY <1>1 DEF NewSession
<1>5. CASE next = own
  BY <1>2, <1>3, <1>4, <1>5 DEF Sessions
<1>6. CASE next # own
  BY <1>2, <1>4, <1>6 DEF Sessions
<1> QED BY <1>5, <1>6

\* A CONNECT that may still be accepted again was accepted last, and once.
LEMMA AgainIsLatest ==
    ASSUME FewCopies, TypeOK, NEW c, InTime(c), c \in Taken
    PROVE  Latest(c)
<1> DEFINE S == {i \in DOMAIN accepted : accepted[i] = c}
<1>1. c = Last(accepted) /\ Cardinality(S) < MaxCopies
  BY DEF InTime, Taken
<1>2. accepted \in Seq(ConnectIDs)
  BY DEF TypeOK
<1>3. DOMAIN accepted = 1 .. Len(accepted) /\ Len(accepted) \in Nat
  BY <1>2
<1>4. IsFiniteSet(1 .. Len(accepted)) /\ S \subseteq 1 .. Len(accepted)
  BY <1>3, FS_Interval
<1>5. IsFiniteSet(S)
  BY <1>4, FS_Subset
<1>6. Cardinality(S) \in Nat
  BY <1>5, FS_CardinalityType
<1>7. Cardinality(S) <= 1
  BY <1>1, <1>6, BoundsAssumption DEF FewCopies
<1>8. ASSUME NEW i \in S, NEW j \in S
      PROVE  i = j
  <2>1. SUFFICES ASSUME i # j
                 PROVE  FALSE
    OBVIOUS
  <2>2. IsFiniteSet(S \ {i}) /\ Cardinality(S \ {i}) = Cardinality(S) - 1
    BY <1>5, FS_RemoveElement
  <2>3. Cardinality(S \ {i}) \in Nat
    BY <2>2, FS_CardinalityType
  <2>4. Cardinality(S \ {i}) = 0
    BY <1>6, <1>7, <2>2, <2>3
  <2>5. S \ {i} = {}
    BY <2>2, <2>4, FS_EmptySet
  <2> QED BY <2>1, <2>5
<1> QED BY <1>1, <1>8 DEF Latest

\* Whoever speaks in a connection, or of it, does so after it was accepted.
LEMMA SpokenIsTaken ==
    ASSUME IInv, NEW c, NEW s, NEW x, NEW y,
           Voice(c, s, x) \/ Offer(c, s, x, y)
    PROVE  c \in Taken
<1>1. ASSUME NEW d \in network, d.seed = c, d.command.kind # "CONNECT"
      PROVE  c \in Taken
    BY <1>1 DEF IInv, NetworkFits, DatagramFits, SettledFits
<1>2. ASSUME NEW p \in Peers(Client), Knows(peers[Client][p]),
             peers[Client][p].connectID = c
      PROVE  c \in Taken
  BY <1>2, KnownIsTaken, HostFacts
<1>3. Held(c, s, x, y) => c \in Taken
  BY HostFacts DEF Held, IInv, PeersFit, PeerFits, Told
<1>4. Spoke(c, s, x) \/ Offered(c, s, x, y) => c \in Taken
  BY <1>1 DEF Spoke, Offered
<1>5. Speaks(c, s, x) \/ Adopted(c, s, x, y) => c \in Taken
  BY <1>2 DEF Speaks, Adopted
<1> QED BY <1>3, <1>4, <1>5 DEF Voice, Offer

\* The accepted connections, one more.
LEMMA AcceptedIs ==
    ASSUME TypeOK, NEW c \in ConnectIDs, accepted' = Append(accepted, c)
    PROVE  /\ accepted' \in Seq(ConnectIDs)
           /\ Taken' = Taken \cup {c}
           /\ \A a : Latest(a)' => a = c /\ c \notin Taken
<1>1. /\ accepted \in Seq(ConnectIDs) /\ accepted' \in Seq(ConnectIDs)
      /\ Len(accepted) \in Nat
  BY DEF TypeOK
<1>2. PICK n : n = Len(accepted)
  OBVIOUS
<1>3. /\ DOMAIN accepted = 1 .. n /\ DOMAIN accepted' = 1 .. n + 1 /\ n \in Nat
      /\ Len(accepted') = n + 1
      /\ \A i \in 1 .. n : accepted'[i] = accepted[i]
      /\ accepted'[n + 1] = c
  BY <1>1, <1>2
<1>4. (\A i \in 1 .. n + 1 : i \in 1 .. n \/ i = n + 1)
      /\ (\A i \in 1 .. n : i \in 1 .. n + 1 /\ i # n + 1)
      /\ n + 1 \in 1 .. n + 1
  BY <1>3
<1>5. Taken' \subseteq Taken \cup {c}
  BY <1>3, <1>4 DEF Taken, Range
<1>6. Taken \cup {c} \subseteq Taken'
  <2>1. c \in Taken'
    BY <1>3, <1>4 DEF Taken, Range
  <2>2. Taken \subseteq Taken'
    BY <1>3, <1>4 DEF Taken, Range
  <2> QED BY <2>1, <2>2
<1>7. ASSUME NEW a, Latest(a)'
      PROVE  a = c /\ c \notin Taken
  <2>1. a = c
    BY <1>3, <1>7 DEF Latest, Last
  <2>2. ASSUME c \in Taken
        PROVE  FALSE
    <3>1. PICK i \in 1 .. n : accepted[i] = c
      BY <1>3, <2>2 DEF Taken, Range
    <3>2. /\ accepted'[i] = c /\ accepted'[n + 1] = c
          /\ i \in DOMAIN accepted' /\ n + 1 \in DOMAIN accepted' /\ i # n + 1
      BY <1>3, <1>4, <3>1
    <3> QED BY <1>7, <2>1, <3>2 DEF Latest
  <2> QED BY <2>1, <2>2
<1> QED BY <1>1, <1>5, <1>6, <1>7

\* enet_protocol_handle_connect
LEMMA HandleConnectKeeps ==
    ASSUME FewCopies, IInv, NEW p \in Peers(Server), NEW d \in network,
           d.command.kind = "CONNECT", HandleConnect(p, d),
           UNCHANGED <<network, connects, restarts, ended>>
    PROVE  IInv'
<1>a. PICK old : old = peers[Server][p]
  OBVIOUS
<1>m. PICK m : m = d.command
  OBVIOUS
<1>c. PICK c : c = m.connectID
  OBVIOUS
<1>x. PICK in : in = NewSession(m.out, old.in)
  OBVIOUS
<1>y. PICK out : out = NewSession(m.in, old.out)
  OBVIOUS
<1> DEFINE base == [old EXCEPT !.state = "ACKNOWLEDGING_CONNECT", !.connectID = c,
                               !.outgoingPeerID = m.peerID, !.in = in, !.out = out]
           verify == [Command("VERIFY_CONNECT", 0) EXCEPT
                        !.connectID = c, !.peerID = p, !.in = out, !.out = in]
<1>1. /\ old \in PeerType /\ Local(Server, old) /\ ~ Live(old)
      /\ m \in Commands /\ ConnectFits(d)
      /\ connects \in Nat /\ p \in PeerIDs
  BY <1>a, <1>m, HostFacts, PeerTyped
     DEF IInv, PeersFit, PeerFits, HandleConnect, IsFirstFree, Live, TypeOK,
         NetworkFits, DatagramFits, Datagrams
<1>2. /\ old.connectID = 0 /\ ~ Knows(old) /\ old.number = 0
      /\ old.waiting = {} /\ old.acks = {}
      /\ old.in \in Sessions /\ old.out \in Sessions
  BY <1>1 DEF Local, PeerType
<1>3. /\ c \in 1 .. connects /\ c # 0 /\ c <= connects
      /\ m.peerID \in Peers(Client) /\ m.peerID \in PeerIDs /\ m.peerID # NoPeerID
  BY <1>1, <1>c, <1>m, HostFacts DEF ConnectFits
<1>4. c \in ConnectIDs
  BY <1>1, <1>c DEF Commands
<1>5. in \in Sessions /\ out \in Sessions /\ in # old.in
  <2>1. m.in \in Sessions /\ m.out \in Sessions
    BY <1>1 DEF Commands
  <2> QED BY <1>2, <1>x, <1>y, <2>1, NewSessionIs
<1>6. /\ base \in PeerType /\ base.state = "ACKNOWLEDGING_CONNECT"
      /\ base.connectID = c /\ base.outgoingPeerID = m.peerID
      /\ base.in = in /\ base.out = out /\ base.number = 0
      /\ base.waiting = {} /\ base.acks = {}
  <2>1. "ACKNOWLEDGING_CONNECT" \in States
    BY DEF States
  <2>2. base \in PeerType
    BY ONLY <1>1, <1>3, <1>4, <1>5, <2>1 DEF PeerType
  <2> QED BY <1>1, <1>2, <2>2 DEF PeerType
<1>7. /\ verify \in Commands /\ verify.kind = "VERIFY_CONNECT"
      /\ verify.connectID = c /\ verify.peerID = p
      /\ verify.in = out /\ verify.out = in
  <2>1. /\ Command("VERIFY_CONNECT", 0) \in Commands
        /\ Command("VERIFY_CONNECT", 0).kind = "VERIFY_CONNECT"
    BY CommandType DEF Kinds, Numbers
  <2> QED BY <1>1, <1>4, <1>5, <2>1 DEF Commands
<1>8. PICK new : new = Numbered(base, verify)
  OBVIOUS
<1>9. /\ Becomes(Server, p, new) /\ InTime(c)
      /\ accepted' = Append(accepted, c) /\ UNCHANGED events
      /\ \A q \in Peers(Server) :
            Live(peers[Server][q]) => peers[Server][q].connectID # c
  <2>1. Becomes(Server, p, Numbered(base, verify))
    BY <1>a, <1>m, <1>c, <1>x, <1>y DEF HandleConnect
  <2> HIDE DEF base, verify
  <2> QED BY <1>8, <1>m, <1>c, <2>1 DEF HandleConnect, Live
<1> HIDE DEF base, verify
<1>10. PICK sent : sent = [verify EXCEPT !.number = 1]
  OBVIOUS
<1>11. /\ sent \in Commands /\ sent.number = 1 /\ sent.kind = "VERIFY_CONNECT"
       /\ sent.connectID = c /\ sent.peerID = p /\ sent.in = out /\ sent.out = in
       /\ new \in PeerType /\ new.waiting = {sent} /\ new.number = 1
       /\ new.state = "ACKNOWLEDGING_CONNECT" /\ new.acks = {}
       /\ new.connectID = c /\ new.outgoingPeerID = m.peerID
       /\ new.in = in /\ new.out = out
  BY <1>6, <1>7, <1>8, <1>10, NumberedIs
<1>12. /\ Shape' /\ peers'[Server][p] = new
       /\ \A g \in Hosts : \A q \in Peers(g) :
             g # Server \/ q # p => peers'[g][q] = peers[g][q]
  BY <1>9, BecomesIs, HostFacts DEF IInv
<1>13. /\ accepted' \in Seq(ConnectIDs) /\ Taken' = Taken \cup {c}
       /\ \A a : Latest(a)' => a = c /\ c \notin Taken
  BY <1>4, <1>9, AcceptedIs DEF IInv
<1>14. c \in Taken => Latest(c)
  BY <1>9, AgainIsLatest DEF IInv
<1>15. \A q \in Peers(Server) : peers[Server][q].connectID # c
  BY <1>3, <1>9, HostFacts DEF IInv, PeersFit, PeerFits, Local
<1>16. ASSUME NEW g \in Hosts, NEW q \in Peers(g)
       PROVE  PeerFits(g, q, peers[g][q], ended)'
  <2>1. CASE g = Server /\ q = p
    <3>1. Local(Server, new)
      BY <1>3, <1>11, HostFacts DEF Local, Live, Knows
    <3>2. Told(Server, new)'
      BY <1>3, <1>11, <1>13, HostFacts DEF Told, Live
    <3>3. Gone(Server, p, new, ended')
      BY <1>11 DEF Gone, CommandFits
    <3> QED BY <1>11, <1>12, <2>1, <3>1, <3>2, <3>3 DEF PeerFits, Told
  <2>2. CASE g # Server \/ q # p
    <3>1. PICK r : r = peers[g][q]
      OBVIOUS
    <3>2. PeerFits(g, q, r, ended) /\ peers'[g][q] = r
      BY <1>12, <2>2, <3>1 DEF IInv, PeersFit
    <3>3. Told(g, r)'
      BY <1>9, <1>13, <3>2 DEF PeerFits, Told, Heard
    <3>4. PeerFits(g, q, r, ended')
      BY <3>2
    <3> QED BY <3>2, <3>3, <3>4 DEF PeerFits, Told
  <2> QED BY <2>1, <2>2
<1>17. TypeOK'
  <2>1. \A g \in Hosts : peers'[g] \in [Peers(g) -> PeerType]
    BY <1>11, <1>12, OneTyped, HostFacts
  <2> QED BY <1>9, <1>13, <2>1 DEF IInv, TypeOK
<1>18. \A q \in Peers(Client) : peers'[Client][q] = peers[Client][q]
  BY <1>12, HostFacts
<1>19. \A s \in Peers(Server) : s # p => peers'[Server][s] = peers[Server][s]
  BY <1>12, HostFacts
<1>20. NetworkFits'
  <2> SUFFICES ASSUME NEW e \in network
               PROVE  DatagramFits(e)'
    BY DEF NetworkFits
  <2>1. DatagramFits(e) /\ e.to \in Hosts
    BY DEF IInv, NetworkFits, TypeOK, Datagrams
  <2>2. CASE e.command.kind = "CONNECT"
    BY <1>18, <2>1, <2>2 DEF DatagramFits, ConnectFits
  <2>3. CASE e.command.kind # "CONNECT"
    <3>1. SettledFits(e)
      BY <2>1, <2>3 DEF DatagramFits
    <3>2. ASSUME NEW g \in Hosts, NotOpen(g, e.seed)
          PROVE  NotOpen(g, e.seed)'
      BY <1>11, <1>12, <3>2 DEF NotOpen
    <3>3. SettledFits(e)'
      BY <1>9, <1>13, <2>1, <3>1, <3>2, HostFacts DEF SettledFits, Heard
    <3> QED BY <2>3, <3>3 DEF DatagramFits
  <2> QED BY <2>2, <2>3
<1>21. History'
  BY <1>3, <1>9, <1>13 DEF IInv, History, Heard
<1>22. Apart'
  <2>1. ASSUME NEW g \in Hosts, NEW q \in Peers(g), NEW r \in Peers(g),
               Live(peers'[g][q]), peers'[g][q].connectID = peers'[g][r].connectID
        PROVE  q = r
    BY <1>11, <1>12, <1>15, <2>1 DEF IInv, Apart
  <2>2. ASSUME NEW q \in Peers(Client), NEW s \in Peers(Server), Ends(q, s)'
        PROVE  peers'[Server][s].outgoingPeerID = q
    <3>1. CASE s = p
      <4>1. peers[Client][q].connectID = c
        BY <1>11, <1>12, <1>18, <2>2, <3>1 DEF Ends
      <4>2. q = m.peerID
        BY <1>1, <1>m, <1>c, <4>1 DEF ConnectFits
      <4> QED BY <1>11, <1>12, <3>1, <4>2
    <3>2. CASE s # p
      <4>1. Ends(q, s)
        BY <1>18, <1>19, <2>2, <3>2 DEF Ends
      <4> QED BY <1>19, <3>2, <4>1 DEF IInv, Apart
    <3> QED BY <3>1, <3>2
  <2> QED BY <2>1, <2>2 DEF Apart, Live
<1>23. ASSUME NEW a, NEW s, NEW x
       PROVE  /\ Voice(a, s, x)' <=> Voice(a, s, x)
              /\ Spoke(a, s, x)' <=> Spoke(a, s, x)
  BY <1>18 DEF Voice, Spoke, Speaks
<1>24. ASSUME NEW a, NEW s, NEW x, NEW y, Offer(a, s, x, y)'
       PROVE  Offer(a, s, x, y) \/ (a = c /\ s = p /\ x = in /\ y = out)
  <2>1. Offered(a, s, x, y)' => Offered(a, s, x, y)
    BY DEF Offered
  <2>2. Adopted(a, s, x, y)' => Adopted(a, s, x, y)
    BY <1>18 DEF Adopted
  <2>3. Held(a, s, x, y)'
        => Held(a, s, x, y) \/ (a = c /\ s = p /\ x = in /\ y = out)
    BY <1>11, <1>12, <1>19 DEF Held
  <2> QED BY <1>24, <2>1, <2>2, <2>3 DEF Offer
<1>25. \A y \in Sessions : ~ Offer(c, p, in, y) /\ ~ Voice(c, p, in)
  <2> SUFFICES ASSUME NEW y \in Sessions, Offer(c, p, in, y) \/ Voice(c, p, in)
               PROVE  FALSE
    OBVIOUS
  <2>1. Latest(c)
    BY <1>14, SpokenIsTaken
  <2>2. peers[Server][p].in = in
    BY <1>4, <1>5, <2>1 DEF IInv, Sessioned, LatestFits
  <2> QED BY <1>5, <1>a, <2>2
<1>26. OneVoice'
  BY <1>23 DEF IInv, Sessioned, OneVoice
<1>27. OneOffer'
  <2> SUFFICES ASSUME NEW a \in ConnectIDs, NEW s \in PeerIDs,
                      NEW x \in Sessions, NEW y \in Sessions, NEW z \in Sessions,
                      Offer(a, s, x, y)', Offer(a, s, x, z)'
               PROVE  y = z
    BY DEF OneOffer
  <2>1. CASE a = c /\ s = p /\ x = in
    BY <1>24, <1>25, <2>1
  <2>2. CASE ~ (a = c /\ s = p /\ x = in)
    <3>1. Offer(a, s, x, y) /\ Offer(a, s, x, z)
      BY <1>24, <2>2
    <3> QED BY <3>1 DEF IInv, Sessioned, OneOffer
  <2> QED BY <2>1, <2>2
<1>28. LatestFits'
  <2> SUFFICES ASSUME NEW a \in ConnectIDs, NEW s \in Peers(Server),
                      NEW x \in Sessions, NEW y \in Sessions, Latest(a)'
               PROVE  /\ Voice(a, s, x)' => peers'[Server][s].in = x
                      /\ Offer(a, s, x, y)'
                         => peers'[Server][s].in = x /\ peers'[Server][s].out = y
    BY DEF LatestFits
  <2>1. a = c /\ c \notin Taken
    BY <1>13
  <2>2. ~ Voice(a, s, x) /\ ~ Offer(a, s, x, y)
    BY <2>1, SpokenIsTaken
  <2>3. Offer(a, s, x, y)' => s = p /\ x = in /\ y = out
    BY <1>24, <2>2
  <2> QED BY <1>11, <1>12, <1>23, <2>2, <2>3
<1>29. Deaf'
  <2> SUFFICES ASSUME NEW s \in Peers(Server),
                      peers'[Server][s].state = "ACKNOWLEDGING_CONNECT",
                      peers'[Server][s].connectID \in Heard(Server)',
                      Voice(peers[Server][s].connectID, s, peers[Server][s].in)'
               PROVE  FALSE
    BY DEF Deaf
  <2>1. PICK r : r = peers'[Server][s]
    OBVIOUS
  <2>2. Voice(r.connectID, s, r.in)'
    BY <2>1 DEF Voice, Spoke, Speaks
  <2>3. Voice(r.connectID, s, r.in)
    BY <1>23, <2>2
  <2>4. CASE s = p
    BY <1>5, <1>11, <1>12, <1>25, <2>1, <2>3, <2>4
  <2>5. CASE s # p
    <3>1. r = peers[Server][s]
      BY <1>19, <2>1, <2>5
    <3>2. r.connectID \in Heard(Server) /\ r.state = "ACKNOWLEDGING_CONNECT"
      BY <1>9, <2>1 DEF Heard
    <3> QED BY <2>3, <3>1, <3>2 DEF IInv, Sessioned, Deaf
  <2> QED BY <2>4, <2>5
<1>30. Confirmed'
  <2> SUFFICES ASSUME NEW s \in Peers(Server),
                      peers'[Server][s].state = "CONNECTED"
               PROVE  Spoke(peers[Server][s].connectID, s, peers[Server][s].in)'
    BY DEF Confirmed
  <2>1. PICK r : r = peers[Server][s]
    OBVIOUS
  <2>2. peers'[Server][s] = r
    BY <1>11, <1>12, <1>19, <2>1
  <2>3. Spoke(r.connectID, s, r.in)
    BY <2>1, <2>2 DEF IInv, Sessioned, Confirmed
  <2>4. Spoke(r.connectID, s, r.in)'
    BY <1>23, <2>3
  <2> QED BY <2>2, <2>4 DEF Spoke
<1> QED BY <1>12, <1>16, <1>17, <1>20, <1>21, <1>22, <1>26, <1>27, <1>28, <1>29,
           <1>30
        DEF IInv, PeersFit, Sessioned

-----------------------------------------------------------------------------
(***************************************************************************)
(* The invariant, and the properties it implies.                           *)
(***************************************************************************)

\* No peer has a connection yet, and nothing was sent.
LEMMA InitFits ==
    ASSUME Init
    PROVE  IInv
<1>1. /\ network = {} /\ connects = 0 /\ restarts = 0 /\ accepted = <<>>
      /\ \A h \in Hosts : events[h] = <<>>
      /\ \A h \in Hosts : \A p \in Peers(h) : peers[h][p] = NewPeer
      /\ ended = {}
  BY DEF Init
<1>2. connects \in ConnectIDs
  BY <1>1, HostFacts
<1>3. ASSUME NEW h \in Hosts, NEW p \in Peers(h)
      PROVE  /\ PeerFits(h, p, peers[h][p], ended)
             /\ ~ Live(peers[h][p]) /\ ~ Knows(peers[h][p])
             /\ peers[h][p].connectID = 0 /\ peers[h][p] \in PeerType
             /\ peers[h][p].state = "DISCONNECTED"
  BY <1>1, <1>2, NewPeerFits DEF PeerFits, Live
<1>4. Shape
  BY DEF Init, Shape
<1>5. TypeOK
  <2>1. \A h \in Hosts : peers[h] \in [Peers(h) -> PeerType]
    BY <1>3, <1>4 DEF Shape
  <2>2. events \in [Hosts -> Seq(ConnectIDs)] /\ accepted \in Seq(ConnectIDs)
    BY DEF Init
  <2>3. restarts \in 0 .. MaxRestarts
    BY <1>1, BoundsAssumption
  <2> QED BY <1>1, <1>2, <2>1, <2>2, <2>3 DEF TypeOK
<1>6. Taken = {} /\ \A h \in Hosts : Heard(h) = {} /\ IsInjective(events[h])
  BY <1>1 DEF Taken, Heard, Range, IsInjective
<1>7. History
  BY <1>6, HostFacts DEF History
<1>8. Apart
  BY <1>3, HostFacts DEF Apart, Ends
<1>9. ASSUME NEW c, NEW s, NEW x, NEW y
      PROVE  ~ Voice(c, s, x) /\ ~ Offer(c, s, x, y)
  <2>1. ~ Spoke(c, s, x) /\ ~ Offered(c, s, x, y)
    BY <1>1 DEF Spoke, Offered
  <2>2. ~ Speaks(c, s, x) /\ ~ Adopted(c, s, x, y) /\ ~ Held(c, s, x, y)
    BY <1>3, HostFacts DEF Speaks, Adopted, Held
  <2> QED BY <2>1, <2>2 DEF Voice, Offer
<1>10. OneVoice /\ OneOffer /\ LatestFits
  BY <1>9 DEF OneVoice, OneOffer, LatestFits
<1>11. Deaf /\ Confirmed
  BY <1>3, HostFacts DEF Deaf, Confirmed
<1> QED BY <1>1, <1>3, <1>4, <1>5, <1>7, <1>8, <1>10, <1>11
        DEF IInv, PeersFit, NetworkFits, Sessioned

\* One datagram, whatever it is.
LEMMA ReceiveKeeps ==
    ASSUME FewCopies, IInv, NEW h \in Hosts, Receive(h)
    PROVE  IInv'
<1>1. PICK d \in network :
         /\ d.to = h
         /\ \/ /\ d.peerID = NoPeerID /\ d.command.kind = "CONNECT" /\ h = Server
               /\ \E p \in Peers(h) : HandleConnect(p, d)
            \/ \E p \in Peers(h) :
                  /\ d.peerID = p
                  /\ Accepts(h, p, d)
                  /\ \/ /\ d.command.kind = "VERIFY_CONNECT"
                        /\ HandleVerifyConnect(h, p, d.command)
                     \/ /\ d.command.kind = "DISCONNECT"
                        /\ HandleDisconnect(h, p, d.command)
                     \/ /\ d.command.kind = "ACKNOWLEDGE"
                        /\ HandleAcknowledge(h, p, d.command)
                  /\ UNCHANGED accepted
         /\ UNCHANGED <<network, connects, restarts, ended>>
  BY DEF Receive
<1>2. CASE /\ d.peerID = NoPeerID /\ d.command.kind = "CONNECT" /\ h = Server
           /\ \E p \in Peers(h) : HandleConnect(p, d)
  BY <1>1, <1>2, HandleConnectKeeps
<1>3. ASSUME NEW p \in Peers(h),
             d.peerID = p, Accepts(h, p, d), UNCHANGED accepted,
             \/ /\ d.command.kind = "VERIFY_CONNECT"
                /\ HandleVerifyConnect(h, p, d.command)
             \/ /\ d.command.kind = "DISCONNECT"
                /\ HandleDisconnect(h, p, d.command)
             \/ /\ d.command.kind = "ACKNOWLEDGE"
                /\ HandleAcknowledge(h, p, d.command)
      PROVE  IInv'
  <2>1. Delivered(h, p, d)
    BY <1>1, <1>3 DEF Delivered
  <2>2. CASE /\ d.command.kind = "VERIFY_CONNECT"
             /\ HandleVerifyConnect(h, p, d.command)
    BY <2>1, <2>2, AdoptKeeps, HandleVerifyConnectKeeps
  <2>3. CASE d.command.kind = "DISCONNECT" /\ HandleDisconnect(h, p, d.command)
    BY <2>1, <2>3, HandleDisconnectKeeps
  <2>4. CASE d.command.kind = "ACKNOWLEDGE" /\ HandleAcknowledge(h, p, d.command)
    BY <2>1, <2>4, ConfirmKeeps, HandleAcknowledgeKeeps
  <2> QED BY <1>3, <2>2, <2>3, <2>4
<1> QED BY <1>1, <1>2, <1>3

\* A step that changes nothing.
LEMMA StutterKeeps ==
    ASSUME IInv, UNCHANGED vars
    PROVE  IInv'
<1>1. UNCHANGED <<peers, network, connects, restarts, accepted, events, ended>>
  BY DEF vars
<1>2. ASSUME NEW h \in Hosts, NEW p \in Peers(h)
      PROVE  /\ PeerFits(h, p, peers'[h][p], ended')
             /\ FadesTo(h, peers[h][p], peers'[h][p])
  BY <1>1, StaysFits DEF IInv, PeersFit
<1>3. Shape'
  BY <1>1 DEF IInv, Shape
<1>4. Fading
  BY <1>1, <1>2, <1>3 DEF Fading, IInv, TypeOK
<1> QED BY <1>4, FadingKeeps

\* Every step keeps the invariant.
LEMMA StepKeeps ==
    ASSUME FewCopies, IInv, [Next]_vars
    PROVE  IInv'
<1>1. CASE \E p \in Peers(Client) : Connect(p)
  BY <1>1, ConnectKeeps
<1>2. ASSUME NEW h \in Hosts, NEW p \in Peers(h),
             \/ Disconnect(h, p)
             \/ DisconnectNow(h, p)
             \/ GiveUp(h, p)
             \/ DispatchZombie(h, p)
      PROVE  IInv'
  BY <1>2, DisconnectKeeps, DisconnectNowKeeps, GiveUpKeeps, DispatchZombieKeeps
<1>3. ASSUME NEW h \in Hosts, SendOutgoing(h) \/ Receive(h)
      PROVE  IInv'
  BY <1>3, SendOutgoingKeeps, ReceiveKeeps
<1>4. CASE Restart
  BY <1>4, RestartKeeps
<1>5. CASE UNCHANGED vars
  BY <1>5, StutterKeeps
<1> QED BY <1>1, <1>2, <1>3, <1>4, <1>5 DEF Next

\* What the two ends of a connection say of each other is true of every
\* reachable state (enet_host_connect, enet_protocol_handle_connect,
\* enet_protocol_handle_verify_connect and the others).
THEOREM Invariance ==
    ASSUME FewCopies
    PROVE  Spec => []IInv
<1>1. Init => IInv
  BY InitFits
<1>2. IInv /\ [Next]_vars => IInv'
  BY StepKeeps
<1> QED BY <1>1, <1>2, PTL DEF Spec

\* The peers, the network and the history have their types.
THEOREM TypeCorrect ==
    ASSUME FewCopies
    PROVE  Spec => []TypeOK
<1>1. IInv => TypeOK
  BY DEF IInv
<1> QED BY <1>1, Invariance, PTL

\* Each application hears of a connection once, the server's after the
\* client's: no copy of a CONNECT and no late acknowledgement opens it on one
\* side only, or again (enet_protocol_notify_connect).
THEOREM HeardOnce ==
    ASSUME FewCopies
    PROVE  Spec => []EstablishedOnce
<1>1. IInv => EstablishedOnce
  BY DEF IInv, History, EstablishedOnce, Heard
<1> QED BY <1>1, Invariance, PTL

\* Two ends that are connected address each other's slots with the session IDs
\* the other expects (the header of enet_protocol_send_outgoing_commands and
\* its check in enet_protocol_handle_incoming_commands).
THEOREM EndsStayInStep ==
    ASSUME FewCopies
    PROVE  Spec => []EndsAgree
<1>1. ASSUME IInv, NEW p \in Peers(Client), NEW s \in Peers(Server), Ends(p, s),
             peers[Client][p].state = "CONNECTED",
             peers[Server][s].state = "CONNECTED"
      PROVE  /\ peers[Client][p].outgoingPeerID = s
             /\ peers[Server][s].outgoingPeerID = p
             /\ peers[Client][p].in = peers[Server][s].out
             /\ peers[Client][p].out = peers[Server][s].in
  <2> DEFINE one == peers[Client][p]
             other == peers[Server][s]
             c == one.connectID
  <2>1. /\ c \in ConnectIDs /\ one.outgoingPeerID \in PeerIDs /\ s \in PeerIDs
        /\ one.in \in Sessions /\ one.out \in Sessions
        /\ other.in \in Sessions /\ other.out \in Sessions
    BY <1>1, PeerTyped, HostFacts DEF IInv
  <2>2. other.connectID = c /\ other.outgoingPeerID = p
    BY <1>1 DEF Ends, IInv, Apart
  <2>3. Knows(one) /\ Live(other)
    BY <1>1, HostFacts DEF IInv, PeersFit, PeerFits, Local, Live
  <2>4. Voice(c, s, other.in)
    BY <1>1, <2>2 DEF IInv, Sessioned, Confirmed, Voice
  <2>5. Voice(c, one.outgoingPeerID, one.out)
    BY <2>3 DEF Voice, Speaks
  <2>6. one.outgoingPeerID = s /\ one.out = other.in
    BY <1>1, <2>1, <2>4, <2>5 DEF IInv, Sessioned, OneVoice
  <2>7. Offer(c, s, other.in, one.in)
    BY <2>3, <2>6 DEF Offer, Adopted
  <2>8. Offer(c, s, other.in, other.out)
    BY <2>2, <2>3 DEF Offer, Held
  <2>9. one.in = other.out
    BY <1>1, <2>1, <2>7, <2>8 DEF IInv, Sessioned, OneOffer
  <2> QED BY <2>2, <2>6, <2>9
<1>2. IInv => EndsAgree
  BY <1>1 DEF EndsAgree
<1> QED BY <1>2, Invariance, PTL

\* Whoever leaves because the other end said so leaves a connection that one of
\* its two ends has ended (enet_protocol_handle_disconnect, and the connectID
\* that the checksum is seeded with).
THEOREM EndedByOneOfThem ==
    ASSUME FewCopies
    PROVE  Spec => []EndedByItsEnds
<1>1. IInv => EndedByItsEnds
  BY DEF IInv, PeersFit, PeerFits, Gone, EndedByItsEnds
<1> QED BY <1>1, Invariance, PTL

\* A disconnection that its acknowledgement completes has ended the connection
\* at the other end (enet_protocol_handle_acknowledge).
THEOREM AcknowledgedMeansOver ==
    ASSUME FewCopies
    PROVE  Spec => AcknowledgedIsOver
<1> DEFINE Over == \A h \in Hosts : \A p \in Peers(h) :
                      /\ peers[h][p].state = "DISCONNECTING"
                      /\ peers'[h][p].state = "DISCONNECTED"
                      /\ Receive(h)
                      => \A q \in Peers(Other(h)) :
                            peers[Other(h)][q].connectID = peers[h][p].connectID
                            => peers[Other(h)][q].state # "CONNECTED"
<1>1. ASSUME IInv, NEW h \in Hosts, NEW p \in Peers(h),
             peers[h][p].state = "DISCONNECTING",
             peers'[h][p].state = "DISCONNECTED", Receive(h)
      PROVE  NotOpen(Other(h), peers[h][p].connectID)
  <2>1. PICK d \in network :
           /\ d.to = h
           /\ \/ /\ d.peerID = NoPeerID /\ d.command.kind = "CONNECT" /\ h = Server
                 /\ \E q \in Peers(h) : HandleConnect(q, d)
              \/ \E q \in Peers(h) :
                    /\ d.peerID = q
                    /\ Accepts(h, q, d)
                    /\ \/ /\ d.command.kind = "VERIFY_CONNECT"
                          /\ HandleVerifyConnect(h, q, d.command)
                       \/ /\ d.command.kind = "DISCONNECT"
                          /\ HandleDisconnect(h, q, d.command)
                       \/ /\ d.command.kind = "ACKNOWLEDGE"
                          /\ HandleAcknowledge(h, q, d.command)
                    /\ UNCHANGED accepted
           /\ UNCHANGED <<network, connects, restarts, ended>>
    BY <1>1 DEF Receive
  <2>2. ASSUME NEW q \in Peers(h), NEW new, Becomes(h, q, new)
        PROVE  q = p /\ peers'[h][p] = new
    BY <1>1, <2>2, BecomesIs DEF IInv
  <2>3. ASSUME NEW q \in Peers(h), h = Server, HandleConnect(q, d)
        PROVE  FALSE
    <3>1. q = p
      BY <2>2, <2>3 DEF HandleConnect
    <3> QED BY <1>1, <2>3, <3>1 DEF HandleConnect, IsFirstFree
  <2>4. PICK q \in Peers(h) :
           /\ d.peerID = q
           /\ Accepts(h, q, d)
           /\ \/ /\ d.command.kind = "VERIFY_CONNECT"
                 /\ HandleVerifyConnect(h, q, d.command)
              \/ /\ d.command.kind = "DISCONNECT"
                 /\ HandleDisconnect(h, q, d.command)
              \/ /\ d.command.kind = "ACKNOWLEDGE"
                 /\ HandleAcknowledge(h, q, d.command)
           /\ UNCHANGED accepted
    BY <2>1, <2>3
  <2>5. q = p
    <3>1. \E new : Becomes(h, q, new)
      BY <2>4, Zenon DEF HandleVerifyConnect, HandleDisconnect, HandleAcknowledge
    <3> QED BY <2>2, <3>1
  <2>6. Delivered(h, p, d)
    BY <2>1, <2>4, <2>5 DEF Delivered
  <2>7. /\ SettledFits(d) /\ d.seed = peers[h][p].connectID /\ d.to = h
        /\ PeerFits(h, p, peers[h][p], ended)
    BY <1>1, <2>1, <2>6, DeliveredIs
  <2>8. PICK old : old = peers[h][p]
    OBVIOUS
  <2>9. old \in PeerType /\ old.state = "DISCONNECTING"
    BY <1>1, <2>7, <2>8 DEF PeerFits
  <2>10. CASE d.command.kind = "VERIFY_CONNECT"
    <3>1. Becomes(h, p, Acknowledged(old, d.command))
      BY <2>4, <2>5, <2>8, <2>9, <2>10 DEF HandleVerifyConnect
    <3>2. Acknowledged(old, d.command) = old
      BY <2>9 DEF Acknowledged
    <3> QED BY <1>1, <2>2, <2>9, <3>1, <3>2
  <2>11. CASE d.command.kind = "DISCONNECT"
    <3> DEFINE after == [ResetQueues(old) EXCEPT !.state = "ZOMBIE"]
    <3>1. ResetQueues(old).state = "DISCONNECTING"
      BY <2>9 DEF ResetQueues, PeerType
    <3>2. Becomes(h, p, Acknowledged(after, d.command))
      BY <2>4, <2>5, <2>8, <2>11, <3>1 DEF HandleDisconnect
    <3>3. after.state = "ZOMBIE"
      BY <2>9 DEF ResetQueues, PeerType
    <3>4. Acknowledged(after, d.command) = after
      BY <3>3 DEF Acknowledged
    <3> QED BY <1>1, <2>2, <3>2, <3>3, <3>4
  <2>12. CASE d.command.kind = "ACKNOWLEDGE"
    <3> DEFINE less == [old EXCEPT !.waiting = @ \ Removed(old, d.command)]
    <3>1. less.state = "DISCONNECTING"
      BY <2>9 DEF PeerType
    <3>2. HandleAcknowledge(h, p, d.command)
      BY <2>4, <2>5, <2>12
    <3>3. \/ \E c \in Removed(old, d.command) : c.kind = "DISCONNECT"
          \/ Becomes(h, p, less)
      BY <2>8, <3>1, <3>2 DEF HandleAcknowledge
    <3>4. ~ Becomes(h, p, less)
      BY <1>1, <2>2, <3>1
    <3>5. PICK c \in Removed(old, d.command) : c.kind = "DISCONNECT"
      BY <3>3, <3>4
    <3>6. c \in old.waiting /\ c.number = d.command.number
      BY <3>5 DEF Removed
    <3>7. d.command.number = 2
      BY <2>7, <2>8, <3>5, <3>6 DEF PeerFits, Gone, CommandFits
    <3> QED BY <2>7, <2>12, <3>7 DEF SettledFits
  <2> QED BY <2>4, <2>10, <2>11, <2>12
<1>2. IInv /\ [Next]_vars => [Over]_vars
  BY <1>1 DEF NotOpen
<1>3. []IInv /\ [][Next]_vars => [][Over]_vars
  BY <1>2, PTL
<1>4. AcknowledgedIsOver <=> [][Over]_vars
  BY DEF AcknowledgedIsOver
<1> QED BY <1>3, <1>4, Invariance, PTL DEF Spec

=============================================================================
