---------------------------- MODULE EnetPeerLife ----------------------------
(***************************************************************************)
(* What an ENet host promises the application about its peers: the life of *)
(* a slot as its owner sees it, and the events that go with each step.     *)
(* No queue, acknowledgement, timeout or datagram appears here.            *)
(*                                                                         *)
(* It is the contract client.cc relies on: enet_peer_disconnect_now, which *)
(* Proxy.ts never calls, is not part of it.                                *)
(***************************************************************************)
EXTENDS Integers

CONSTANT Peers

Lives == {"free", "opening", "open", "closing", "lost"}

None == [type |-> "NONE", peer |-> -1]

VARIABLES
    life,   \* life[p]: what has become of the connection in slot p
    event   \* the event of the call in progress, or None

vars == <<life, event>>

Init == life = [p \in Peers |-> "free"] /\ event = None

Becomes(p, from, to) == life[p] \in from /\ life' = [life EXCEPT ![p] = to]

Reports(type, p) == event = None /\ event' = [type |-> type, peer |-> p]

\* A connection is requested here, or by the foreign host.
Open(p) == Becomes(p, {"free"}, "opening") /\ UNCHANGED event

\* It is established: the application is told at the same step.
Establish(p) == Becomes(p, {"opening"}, "open") /\ Reports("CONNECT", p)

\* A packet is received, only while the connection is open.
Receive(p) == life[p] = "open" /\ Reports("RECEIVE", p) /\ UNCHANGED life

\* One of the two sides asks for the disconnection.
Close(p) == Becomes(p, {"open"}, "closing") /\ UNCHANGED event

\* The connection is over, but the application has not been told yet.
Lose(p) == Becomes(p, {"opening", "open", "closing"}, "lost") /\ UNCHANGED event

\* It is told, and the slot is free again.
End(p) == Becomes(p, Lives \ {"free"}, "free") /\ Reports("DISCONNECT", p)

\* Only a connection that was never established may end without a word.
Abandon(p) == Becomes(p, {"opening"}, "free") /\ UNCHANGED event

Deliver == event # None /\ event' = None /\ UNCHANGED life

Next ==
    \/ \E p \in Peers :
          \/ Open(p) \/ Establish(p) \/ Receive(p) \/ Close(p)
          \/ Lose(p) \/ End(p) \/ Abandon(p)
    \/ Deliver

Spec == Init /\ [][Next]_vars
=============================================================================
