---------------------------- MODULE ProxySession ----------------------------
(***************************************************************************)
(* One worker of the proxy (proxy/src): the WebSocket sessions it serves   *)
(* and the ENet connection of each (one Native client, one host of one     *)
(* peer).                                                                  *)
(*                                                                         *)
(* The worker has one JavaScript thread, so a callback runs to its end;    *)
(* what interleaves are the callbacks: WebSocket messages and closes, the  *)
(* completions of zlib's inflate and deflate, which the thread pool        *)
(* returns in any order, and the setImmediate loop that calls              *)
(* enet_host_service.  The ENet side is the contract of EnetPeerLife,      *)
(* which EnetHost is checked to implement.                                 *)
(*                                                                         *)
(* A message is its kind, which its content decides: INIT, DATA (anything  *)
(* else that inflates) or GARBAGE (which does not).                        *)
(* Operators named after another with a suffix (SocketClosedOnly) are      *)
(* slips that the properties must notice; no action uses them.             *)
(***************************************************************************)
EXTENDS Integers, FiniteSets, Sequences

CONSTANTS
    Sockets,        \* the WebSocket connections the worker accepts
    MaxMessages,    \* bound: messages from the browsers, on all sockets
    MaxPackets      \* bound: packets from the ENet servers, on all sockets

ASSUME SocketsAssumption == IsFiniteSet(Sockets)
ASSUME BoundsAssumption == MaxMessages \in Nat /\ MaxPackets \in Nat

MessageKinds == {"INIT", "DATA", "GARBAGE"}

VARIABLES
    ws,         \* readyState of each socket ("closed" once 'close' was emitted)
    messages,   \* the browser's messages, in order of arrival, with their fate
    packets,    \* the fate of each packet emitted by "receive", in order
    client,     \* socket.data.client # null; set together with initialized
                \* and connected, and none of the three is ever reset
    enet,       \* calls of enet_initialize less those of enet_deinitialize
    life,       \* the ENet connection of each client
    event       \* the event enet_host_service returned, until it is emitted

vars == <<ws, messages, packets, client, enet, life, event>>

Enet == INSTANCE EnetPeerLife WITH Peers <- Sockets

\* inflating, then: the INIT "opened" the connection; enet_peer_send took it
\* (sent) or "refused" it; the handler "rejected"; it did not inflate and its
\* answer is being deflated (answering), was sent (answered) or was "lost".
MessageFates == {"inflating", "opened", "sent", "refused", "rejected",
                 "answering", "answered", "lost"}

TypeOK ==
    /\ ws \in [Sockets -> {"open", "closing", "closed"}]
    /\ messages \in [Sockets -> Seq([kind : MessageKinds, fate : MessageFates])]
    /\ packets \in [Sockets -> Seq({"deflating", "delivered", "lost"})]
    /\ client \in [Sockets -> BOOLEAN]
    /\ enet \in 0 .. Cardinality(Sockets)
    /\ life \in [Sockets -> Enet!Lives]
    /\ event \in {Enet!None} \cup
                 [type : {"CONNECT", "RECEIVE", "DISCONNECT"}, peer : Sockets]

Init ==
    /\ ws = [s \in Sockets |-> "open"]
    /\ messages = [s \in Sockets |-> <<>>]
    /\ packets = [s \in Sockets |-> <<>>]
    /\ client = [s \in Sockets |-> FALSE]
    /\ enet = 0
    /\ Enet!Init

\* A callback starts when the one before it, its emits included, has ended.
Callback == event = Enet!None

\* How many of them all sockets have together.
Number(lists) == Cardinality(UNION {{s} \X DOMAIN lists[s] : s \in Sockets})

Fate(s, i, fate) == messages' = [messages EXCEPT ![s][i].fate = fate]

Met(s, i, fate) == i \in DOMAIN messages[s] /\ messages[s][i].fate = fate

Inflating(s, i) == Met(s, i, "inflating")

-----------------------------------------------------------------------------
(***************************************************************************)
(* The WebSocket side.                                                     *)
(***************************************************************************)

\* 'message': the handler starts inflating and awaits.
Arrive(s, kind) ==
    /\ Callback
    /\ ws[s] # "closed"
    /\ Number(messages) < MaxMessages
    /\ messages' = [messages EXCEPT
                       ![s] = Append(@, [kind |-> kind, fate |-> "inflating"])]
    /\ UNCHANGED <<ws, packets, client, enet, life, event>>

FailureRethrown(s, i) ==
    /\ Callback
    /\ Inflating(s, i)
    /\ messages[s][i].kind = "GARBAGE"
    /\ Fate(s, i, "rejected")
    /\ UNCHANGED <<ws, packets, client, enet, life, event>>

\* The inflate failed: 'Failed decompressing message' is being deflated.
InflateFailed(s, i) ==
    /\ Callback
    /\ Inflating(s, i)
    /\ messages[s][i].kind = "GARBAGE"
    /\ Fate(s, i, "answering")
    /\ UNCHANGED <<ws, packets, client, enet, life, event>>

OpenClientUninitialized(s, i) ==
    /\ Callback
    /\ Inflating(s, i)
    /\ messages[s][i].kind = "INIT"
    /\ life[s] = "free"
    /\ Fate(s, i, "opened")
    /\ client' = [client EXCEPT ![s] = TRUE]
    /\ enet' = enet + 1
    /\ Enet!Open(s)
    /\ UNCHANGED <<ws, packets>>

\* The first INIT to be inflated: new Native, create, connect, nonBlock and
\* setEmitter, without an await between them.
OpenClient(s, i) ==
    /\ Callback
    /\ Inflating(s, i)
    /\ messages[s][i].kind = "INIT"
    /\ ~client[s]
    /\ Fate(s, i, "opened")
    /\ client' = [client EXCEPT ![s] = TRUE]
    /\ enet' = enet + 1
    /\ Enet!Open(s)
    /\ UNCHANGED <<ws, packets>>

\* Everything else goes to client.sendPacket, which ignores the result of
\* enet_peer_send (refused unless CONNECTED) and rejects if client is null.
SendPacket(s, i) ==
    /\ Callback
    /\ Inflating(s, i)
    /\ \/ messages[s][i].kind = "DATA"
       \/ messages[s][i].kind = "INIT" /\ client[s]
    /\ Fate(s, i, CASE ~client[s] -> "rejected"
                    [] client[s] /\ life[s] = "open" -> "sent"
                    [] client[s] /\ life[s] # "open" -> "refused")
    /\ UNCHANGED <<ws, packets, client, enet, life, event>>

\* The browser closes, or the connection is lost.
BrowserCloses(s) ==
    /\ Callback
    /\ ws[s] = "open"
    /\ ws' = [ws EXCEPT ![s] = "closing"]
    /\ UNCHANGED <<messages, packets, client, enet, life, event>>

SocketClosedOnly(s) ==
    /\ Callback
    /\ ws[s] = "closing"
    /\ ws' = [ws EXCEPT ![s] = "closed"]
    /\ UNCHANGED <<messages, packets, client, enet, life, event>>

SocketClosedDeInit(s) ==
    /\ Callback
    /\ ws[s] = "closing"
    /\ ws' = [ws EXCEPT ![s] = "closed"]
    /\ enet' = IF client[s] THEN enet - 1 ELSE enet
    /\ \/ Enet!Abandon(s)
       \/ Enet!Close(s)
       \/ life[s] \in {"free", "closing", "lost"} /\ UNCHANGED <<life, event>>
    /\ UNCHANGED <<messages, packets, client>>

\* 'close': client?.disconnect() is enet_peer_disconnect_later, which ends a
\* connection that was not established at once and without an event.
SocketClosed(s) ==
    /\ Callback
    /\ ws[s] = "closing"
    /\ ws' = [ws EXCEPT ![s] = "closed"]
    /\ \/ Enet!Abandon(s)
       \/ Enet!Close(s)
       \/ life[s] \in {"free", "closing", "lost"} /\ UNCHANGED <<life, event>>
    /\ UNCHANGED <<messages, packets, client, enet>>

-----------------------------------------------------------------------------
(***************************************************************************)
(* The ENet side.                                                          *)
(***************************************************************************)

\* One round of nonBlock's loop calls enet_host_service with an event.
Service(s) ==
    /\ Callback
    /\ client[s]
    /\ \/ Enet!Establish(s)
       \/ Enet!Receive(s) /\ Number(packets) < MaxPackets
       \/ Enet!Close(s)
       \/ Enet!Lose(s)
       \/ Enet!End(s)
    /\ UNCHANGED <<ws, messages, packets, client, enet>>

\* The handlers of proxy/src/index.ts, still inside client.service().
EmitConnect(s) ==
    /\ event = [type |-> "CONNECT", peer |-> s]
    /\ Enet!Deliver
    /\ UNCHANGED <<ws, messages, packets, client, enet>>

EmitReceive(s) ==
    /\ event = [type |-> "RECEIVE", peer |-> s]
    /\ packets' = [packets EXCEPT ![s] = Append(@, "deflating")]
    /\ Enet!Deliver
    /\ UNCHANGED <<ws, messages, client, enet>>

EmitDisconnectDeInitOnly(s) ==
    /\ event = [type |-> "DISCONNECT", peer |-> s]
    /\ enet' = enet - 1
    /\ Enet!Deliver
    /\ UNCHANGED <<ws, messages, packets, client>>

\* socket.close() does nothing to a socket that is closing or closed.
EmitDisconnect(s) ==
    /\ event = [type |-> "DISCONNECT", peer |-> s]
    /\ ws' = [ws EXCEPT ![s] = IF @ = "open" THEN "closing" ELSE @]
    /\ enet' = enet - 1
    /\ Enet!Deliver
    /\ UNCHANGED <<messages, packets, client>>

Emit(s) == EmitConnect(s) \/ EmitReceive(s) \/ EmitDisconnect(s)

\* A deflate of Proxy.send completes; ws drops what is sent to a closed socket.
Arrives(s, sent) == IF ws[s] = "open" THEN sent ELSE "lost"

PacketDeflated(s, j) ==
    /\ Callback
    /\ j \in DOMAIN packets[s]
    /\ packets[s][j] = "deflating"
    /\ packets' = [packets EXCEPT ![s][j] = Arrives(s, "delivered")]
    /\ UNCHANGED <<ws, messages, client, enet, life, event>>

AnswerDeflated(s, i) ==
    /\ Callback
    /\ Met(s, i, "answering")
    /\ Fate(s, i, Arrives(s, "answered"))
    /\ UNCHANGED <<ws, packets, client, enet, life, event>>

Inflated(s, i) == InflateFailed(s, i) \/ OpenClient(s, i) \/ SendPacket(s, i)

Next ==
    \E s \in Sockets :
        \/ \E kind \in MessageKinds : Arrive(s, kind)
        \/ BrowserCloses(s) \/ SocketClosed(s)
        \/ Service(s) \/ Emit(s)
        \/ \E i \in 1 .. MaxMessages : Inflated(s, i) \/ AnswerDeflated(s, i)
        \/ \E j \in 1 .. MaxPackets : PacketDeflated(s, j)

Spec == Init /\ [][Next]_vars

\* The event loop runs every callback that is ready; ws ends a close handshake,
\* by its timeout if need be; a connection that is opening or on its way out
\* does not stay so (HandshakeEnds, DisconnectCompletes, ZombieIsBuried of
\* EnetHost).  Nothing makes the browser, or the ENet server, do anything.
Fairness ==
    \A s \in Sockets :
        /\ WF_vars(SocketClosed(s)) /\ WF_vars(Emit(s))
        /\ WF_vars(life[s] # "open" /\ Service(s))
        /\ SF_vars(life[s] = "closing" /\ Service(s) /\ Enet!End(s))
        /\ \A i \in 1 .. MaxMessages :
              WF_vars(Inflated(s, i)) /\ WF_vars(AnswerDeflated(s, i))
        /\ \A j \in 1 .. MaxPackets : WF_vars(PacketDeflated(s, j))

LiveSpec == Spec /\ Fairness

-----------------------------------------------------------------------------
(***************************************************************************)
(* Properties.                                                             *)
(***************************************************************************)

Opened(s) == {i \in DOMAIN messages[s] : Met(s, i, "opened")}

\* However many INITs are being inflated at once, and even after its connection
\* has ended, a socket opens one ENet connection: a second client would be
\* orphaned by socket.data.client.
OneClient == \A s \in Sockets : Cardinality(Opened(s)) <= 1

\* The disconnect handler deinitializes ENet, which is process-wide, while other
\* sockets use it: the calls still never outnumber the initializations of the
\* connections in use (WSAStartup and WSACleanup are counted).
InitBalanced ==
    enet >= Cardinality({s \in Sockets : client[s] /\ life[s] # "free"})

\* PROTOCOL.md: "Once a websocket connection closes, the ENet connection should
\* be closed as well", provided its INIT was handled before the close.
CloseEndsEnet ==
    \A s \in Sockets :
        [](client[s] /\ ws[s] # "closed" =>
              [](ws[s] = "closed" => <>(life[s] = "free")))

\* PROTOCOL.md: "Same for the other way around", whichever side, or timeout,
\* ended the ENet connection.
EnetEndsSocket ==
    \A s \in Sockets : (client[s] /\ life[s] = "free") ~> (ws[s] = "closed")

\* PROTOCOL.md: "If decompression fails at the proxy side, it will return a
\* compressed message": two asynchronous calls later, if the socket is open.
FailureAnswered ==
    \A s \in Sockets, i \in 1 .. MaxMessages :
        (Inflating(s, i) /\ messages[s][i].kind = "GARBAGE") ~>
            (Met(s, i, "answered") \/ ws[s] # "open")

\* PROTOCOL.md: "Once a websocket connection closes, the ENet connection should
\* be closed as well", without the proviso of CloseEndsEnet.
ClosedSocketHasNoConnection ==
    \A s \in Sockets : ws[s] = "closed" => life[s] \notin {"opening", "open"}

\* PROTOCOL.md: "All other data is sent to the ENet Server": what a client that
\* was opened is given, before either side is closed, is not dropped.
OtherDataIsSent ==
    [][\A s \in Sockets, i \in 1 .. MaxMessages :
          /\ Inflating(s, i) /\ ws[s] = "open"
          /\ client[s] /\ life[s] \in {"opening", "open"}
          => messages'[s][i].fate # "refused"]_vars
=============================================================================
