------------------------ MODULE EnetHostSafetyProofs ------------------------
(***************************************************************************)
(* Proofs about EnetHost for every number of peers and every bound: no     *)
(* event is forgotten, no slot is reused with leftovers, the events of a   *)
(* connection come in order and none is overwritten, no peer comes back,   *)
(* and the host implements EnetPeerLife.                                   *)
(*                                                                         *)
(* One inductive invariant carries them.  It has three parts, on top of    *)
(* IInv: what every slot satisfies (Sound), what the phase of the service  *)
(* loop says of the event and of the flush (Held), and what the            *)
(* application has heard of each connection (Heard).  Each action is shown *)
(* to keep the first two and to take one peer along the state diagram      *)
(* Evolves; all that is said of events and histories follows from that.    *)
(***************************************************************************)
EXTENDS EnetHostProofs

\* The states of a connection that is not established.
Opening == {"CONNECTING", "ACKNOWLEDGING_CONNECT", "CONNECTION_PENDING",
            "CONNECTION_SUCCEEDED"}

\* A slot that owes the application an event is linked.
Due(v) ==
    \/ v.state \in {"CONNECTION_PENDING", "CONNECTION_SUCCEEDED", "ZOMBIE"}
    \/ v.state = "CONNECTED" /\ v.dispatched > 0
    => v.needsDispatch

\* The application gets no packet before the connection, and a DISCONNECT is
\* acknowledged from one state only.
Settled(v) ==
    /\ v.state = "DISCONNECTED" => v = Fresh
    /\ v.state = "DISCONNECT_LATER" => v.unreliable \/ Awaited(v) # {}
    /\ v.state \in Opening => v.dispatched = 0
    /\ "DISCONNECT" \in v.acks => v.state = "ACKNOWLEDGING_DISCONNECT"

\* The peer a flush will reset, which is unlinked, is the exception.
Sound ==
    \A p \in Peers :
        /\ Settled(Slot(host, p))
        /\ Due(Slot(host, p)) \/ doomed = p

\* A flush cannot end the connection of the peer it will reset.
FlushHeld ==
    doomed # NoPeer =>
        /\ phase = "flush"
        /\ "DISCONNECT" \notin host.acks[doomed]
        /\ Aborts \/ host.state[doomed] \in Opening

\* An event is set just before it is delivered, or by a command of the datagram
\* being handled, which leaves its peer in a state that sets no other.
EventHeld ==
    \/ host.event = NoEvent
    \/ /\ phase = "deliver"
       /\ \A p \in Peers : host.event = Event("DISCONNECT", p) =>
                              host.state[p] = "DISCONNECTED"
    \/ /\ phase = "receive" /\ rx \in Peers
       /\ host.event = Event("CONNECT", rx)
       /\ host.state[rx] \in {"CONNECTED", "ACKNOWLEDGING_DISCONNECT", "ZOMBIE"}
    \/ /\ phase = "receive" /\ rx \in Peers
       /\ host.event = Event("DISCONNECT", rx)
       /\ host.state[rx] = "DISCONNECTED"

Held ==
    /\ FlushHeld
    /\ EventHeld
    /\ rx # NoPeer => phase = "receive"

\* The state diagram of a peer p: from state s, with event e set, to state t and
\* event f, in one step.
Silent(s, t) ==
    \/ t = s
    \/ s = "CONNECTING" /\ t \in {"CONNECTION_SUCCEEDED", "ZOMBIE", "DISCONNECTED"}
    \/ s = "CONNECTION_SUCCEEDED" /\ t \in {"ZOMBIE", "DISCONNECTED"}
    \/ s = "ACKNOWLEDGING_CONNECT" /\ t \in {"CONNECTION_PENDING", "DISCONNECTED"}
    \/ s = "CONNECTION_PENDING" /\ t = "DISCONNECTED"
    \/ s = "CONNECTED" /\ t \in {"DISCONNECT_LATER", "DISCONNECTING",
                                 "ACKNOWLEDGING_DISCONNECT", "ZOMBIE"}
    \/ s = "DISCONNECT_LATER" /\ t \in {"DISCONNECTING", "ZOMBIE",
                                        "ACKNOWLEDGING_DISCONNECT"}
    \/ s \in {"DISCONNECTING", "ACKNOWLEDGING_DISCONNECT"} /\ t = "ZOMBIE"
    \/ Aborts /\ t = "DISCONNECTED"

Evolves(p, s, t, e, f) ==
    \/ f = e /\ Silent(s, t)
    \/ /\ e = NoEvent /\ f = Event("CONNECT", p)
       /\ s \in Opening /\ t = "CONNECTED"
    \/ /\ e = NoEvent /\ f = Event("RECEIVE", p)
       /\ s = "CONNECTED" /\ t = "CONNECTED"
    \/ /\ e = NoEvent /\ f = Event("DISCONNECT", p)
       /\ s \notin {"DISCONNECTED", "ACKNOWLEDGING_CONNECT", "CONNECTION_PENDING"}
       /\ t = "DISCONNECTED"

Moved(p) ==
    /\ \A q \in Peers \ {p} : host'.state[q] = host.state[q]
    /\ Evolves(p, host.state[p], host'.state[p], host.event, host'.event)

\* A connection starts in the slot of p, at this host or at the foreign one.
Opened(p, mine) ==
    /\ host.state[p] = "DISCONNECTED"
    /\ host'.state[p] = IF mine THEN "CONNECTING" ELSE "ACKNOWLEDGING_CONNECT"
    /\ \A q \in Peers \ {p} : host'.state[q] = host.state[q]
    /\ host.event = NoEvent /\ host'.event = NoEvent
    /\ NewConnection(p, mine)

-----------------------------------------------------------------------------
(***************************************************************************)
(* Slots.                                                                  *)
(***************************************************************************)

\* A slot that was reset, one linked after it left the live states, and one
\* whose disconnection has started.
LEMMA FreshSettled == Settled(Fresh) /\ Due(Fresh) /\ Fresh.state = "DISCONNECTED"
  BY DEF Settled, Due, Fresh, Opening

\* Its fields, one by one.
LEMMA FreshFields ==
    /\ ~Fresh.needsDispatch /\ ~Fresh.limited /\ ~Fresh.unreliable
    /\ Fresh.acks = {} /\ Awaited(Fresh) = {}
    /\ Fresh.dispatched = 0 /\ Fresh.strikes = 0
  BY DEF Fresh, Awaited

\* A linked slot owes nothing that is not queued.
LEMMA QueuedDue ==
    ASSUME NEW v, NEW s
    PROVE  Due(Queued(v, s)) /\ Queued(v, s).state = s
  BY DEF Due, Queued

\* The states a sound slot may be linked in.
LEMMA QueuedSettled ==
    ASSUME NEW v, Settled(v), NEW s,
           \/ s = "ZOMBIE" /\ "DISCONNECT" \notin v.acks
           \/ s \in Opening /\ v.state \in Opening
           \/ s = "CONNECTED" /\ v.state = "CONNECTED"
    PROVE  Settled(Queued(v, s))
  BY DEF Settled, Queued, Opening

\* A slot whose disconnection has started is sound.
LEMMA DisconnectingSettled ==
    ASSUME NEW v
    PROVE  /\ Settled(Disconnecting(v)) /\ Due(Disconnecting(v))
           /\ Disconnecting(v).state = "DISCONNECTING"
           /\ Disconnecting(v).acks = {}
  BY DEF Settled, Due, Disconnecting, Opening

\* So is one whose queues were reset.
LEMMA EmptiedSettled ==
    ASSUME NEW v, v.state \notin {"DISCONNECTED", "DISCONNECT_LATER"}
    PROVE  Settled(Emptied(v)) /\ Emptied(v).state = v.state /\ Emptied(v).acks = {}
  BY DEF Settled, Emptied, Opening

\* Sending, or an acknowledgement, changes nothing else than what is awaited.
LEMMA ReorderedSettled ==
    ASSUME NEW v, NEW w, Settled(v), Reordered(v, w), v.state # "DISCONNECTED",
           v.state = "DISCONNECT_LATER" => Awaited(w) = Awaited(v)
    PROVE  Settled(w) /\ (Due(v) => Due(w)) /\ w.state = v.state /\ w.acks = v.acks
  <1>1. Settled(w)
    BY DEF Settled, Reordered
  <1>2. Due(v) => Due(w)
    BY DEF Due, Reordered
  <1> QED
    BY <1>1, <1>2 DEF Reordered

-----------------------------------------------------------------------------
(***************************************************************************)
(* Steps.                                                                  *)
(***************************************************************************)

\* Events of different kinds, or of different peers, differ.
LEMMA EventKinds ==
    ASSUME NEW p, NEW q, NEW t, NEW u
    PROVE  /\ t # "NONE" => Event(t, p) # NoEvent
           /\ Event(t, p) = Event(u, q) => t = u /\ p = q
           /\ Event(t, p).type = t /\ Event(t, p).peer = p
  BY DEF Event, NoEvent

\* One slot changes and is sound after the step.
LEMMA SlotStep ==
    ASSUME Sound, NEW p \in Peers, NEW w, NEW e,
           Changes(host, host', p, w, e), doomed' = doomed,
           Settled(w), Due(w) \/ doomed = p
    PROVE  /\ Sound' /\ host'.event = e /\ host'.state[p] = w.state
           /\ \A q \in Peers \ {p} : host'.state[q] = host.state[q]
  <1>1. Slot(host', p) = w /\ host'.event = e
        /\ \A q \in Peers \ {p} : Slot(host', q) = Slot(host, q)
    BY DEF Changes
  <1>2. \A q \in Peers : /\ Settled(Slot(host', q))
                         /\ Due(Slot(host', q)) \/ doomed' = q
    BY <1>1 DEF Sound
  <1>3. host'.state[p] = w.state
        /\ \A q \in Peers \ {p} : host'.state[q] = host.state[q]
    BY <1>1 DEF Slot
  <1> QED
    BY <1>1, <1>2, <1>3 DEF Sound

\* It changes along the diagram.
LEMMA OneSlot ==
    ASSUME Sound, NEW p \in Peers, NEW w, NEW e,
           Changes(host, host', p, w, e), doomed' = doomed,
           Settled(w), Due(w) \/ doomed = p,
           Evolves(p, host.state[p], w.state, host.event, e)
    PROVE  Sound' /\ Moved(p)
  BY SlotStep DEF Moved

\* Between two datagrams, and outside the loops that set it, no event is set.
LEMMA NoEventYet ==
    ASSUME Held, \/ phase \notin {"deliver", "receive"}
                 \/ phase = "receive" /\ rx = NoPeer
    PROVE  host.event = NoEvent
  <1>1. NoPeer \notin Peers
    BY PeerCountAssumption DEF NoPeer, Peers
  <1> QED
    BY <1>1 DEF Held, EventHeld

\* The phase of a step that leaves the loop, or does not touch the event.
LEMMA HeldOutside ==
    ASSUME Held, host'.event = NoEvent, doomed = NoPeer, doomed' = NoPeer,
           rx' # NoPeer => phase' = "receive"
    PROVE  Held'
  BY DEF Held, FlushHeld, EventHeld

\* Only a flush has a peer to reset.
LEMMA IdleHolds ==
    ASSUME IInv, Held, phase # "flush"
    PROVE  doomed = NoPeer
  BY DEF Held, FlushHeld, IInv, Control

\* Every slot is sound.
LEMMA SoundSlot ==
    ASSUME Sound, NEW p \in Peers
    PROVE  /\ Settled(Slot(host, p))
           /\ Due(Slot(host, p)) \/ doomed = p
           /\ Slot(host, p).state = host.state[p]
           /\ Slot(host, p).acks = host.acks[p]
  BY SlotFields DEF Sound

-----------------------------------------------------------------------------
(***************************************************************************)
(* The application's calls.                                                *)
(***************************************************************************)

\* A fresh slot becomes one of a new connection.
LEMMA OpenedSettled ==
    ASSUME NEW v, Settled(v), v.state = "DISCONNECTED", NEW w, NEW s \in Opening,
           s \notin {"CONNECTION_PENDING", "CONNECTION_SUCCEEDED"},
           w.state = s, w.acks = v.acks, w.dispatched = v.dispatched
    PROVE  Settled(w) /\ Due(w)
  BY DEF Settled, Due, Fresh, Opening

\* enet_host_connect
LEMMA ConnectSound ==
    ASSUME IInv, Sound, Held, NEW p \in Peers, Connect(p)
    PROVE  Sound' /\ Held' /\ Opened(p, TRUE)
  <1> DEFINE r == host.ready[p] \cup {"CONNECT"}
             f == [host EXCEPT !.ready[p] = r]
             v == [Slot(host, p) EXCEPT !.ready = r]
             w == [v EXCEPT !.state = "CONNECTING"]
  <1>1. host \in HostType /\ host.state[p] = "DISCONNECTED"
    BY DEF IInv, Consistent, Connect, IsFirstFree
  <1>2. r \in SUBSET Kinds
    BY <1>1 DEF HostType, Kinds
  <1>3. host' = [f EXCEPT !.state[p] = "CONNECTING"]
    BY <1>1 DEF Connect, HostType
  <1> HIDE DEF r
  <1>4. Changes(host, f, p, v, host.event)
    BY <1>1, ReadySlot
  <1>5. f \in HostType
    BY <1>1, <1>2 DEF HostType
  <1> HIDE DEF f
  <1>6. Changes(f, host', p, [Slot(f, p) EXCEPT !.state = "CONNECTING"], f.event)
    BY <1>3, <1>5, StateSlot
  <1>7. Changes(host, host', p, w, host.event)
    BY <1>4, <1>6 DEF Changes
  <1>8. /\ w.state = "CONNECTING" /\ w.acks = Slot(host, p).acks
        /\ w.dispatched = Slot(host, p).dispatched
    BY DEF Slot
  <1> HIDE DEF w
  <1>9. Settled(w) /\ Due(w)
    BY <1>1, <1>8, SoundSlot, OpenedSettled DEF Opening
  <1>10. /\ doomed' = doomed /\ rx' = rx /\ phase' = phase /\ phase = "idle"
         /\ NewConnection(p, TRUE)
    BY DEF Connect, Idle
  <1>11. host.event = NoEvent
    BY <1>10, NoEventYet
  <1>12. /\ Sound' /\ host'.event = NoEvent /\ host'.state[p] = "CONNECTING"
         /\ \A q \in Peers \ {p} : host'.state[q] = host.state[q]
    BY <1>7, <1>8, <1>9, <1>10, <1>11, SlotStep
  <1>13. Held'
    BY <1>10, <1>12, IdleHolds, HeldOutside DEF Held
  <1> QED
    BY <1>1, <1>10, <1>11, <1>12, <1>13 DEF Opened

\* enet_peer_send
LEMMA SendSound ==
    ASSUME IInv, Sound, Held, NEW p \in Peers, NEW reliable \in BOOLEAN,
           Send(p, reliable)
    PROVE  Sound' /\ Held' /\ Moved(p)
  <1> DEFINE r == host.ready[p] \cup {"DATA"}
             v == Slot(host, p)
             w == IF reliable THEN [v EXCEPT !.ready = r]
                  ELSE [v EXCEPT !.unreliable = TRUE]
  <1>1. host \in HostType /\ host.state[p] = "CONNECTED"
    BY DEF IInv, Consistent, Send
  <1>2. host' = IF reliable THEN [host EXCEPT !.ready[p] = r]
                ELSE [host EXCEPT !.unreliable[p] = TRUE]
    BY <1>1 DEF Send, HostType
  <1> HIDE DEF r
  <1>3. Changes(host, host', p, w, host.event)
    BY <1>1, <1>2, ReadySlot, UnreliableSlot
  <1>4. /\ w.state = "CONNECTED" /\ w.acks = v.acks
        /\ w.dispatched = v.dispatched /\ w.needsDispatch = v.needsDispatch
    BY <1>1 DEF Slot
  <1> HIDE DEF w
  <1>5. Settled(v) /\ (Due(v) \/ doomed = p) /\ v.state = "CONNECTED"
    BY <1>1, SoundSlot
  <1> HIDE DEF v
  <1>6. Settled(w)
    BY <1>4, <1>5 DEF Settled, Opening
  <1>7. Due(v) => Due(w)
    BY <1>4, <1>5 DEF Due
  <1>8. Evolves(p, host.state[p], w.state, host.event, host.event)
    BY <1>1, <1>4 DEF Evolves, Silent
  <1>9. /\ doomed' = doomed /\ rx' = rx /\ phase' = phase /\ phase = "idle"
        /\ host'.event = host.event
    BY <1>3 DEF Send, Idle, Changes
  <1>10. Held'
    BY <1>9, NoEventYet, IdleHolds, HeldOutside DEF Held
  <1> QED
    BY <1>3, <1>5, <1>6, <1>7, <1>8, <1>9, <1>10, OneSlot

\* A peer whose flush has started has only the unsequenced DISCONNECT to send.
LEMMA FlushAndResetSound ==
    ASSUME IInv, Sound, Held, Idle, NEW p \in Peers, FlushAndReset(p),
           host.state[p] # "DISCONNECTED",
           Aborts \/ host.state[p] \in Opening
    PROVE  Sound' /\ Held' /\ Moved(p)
  <1> DEFINE r == ResetQueues(host, p)
             v == Emptied(Slot(host, p))
             w == [v EXCEPT !.unreliable = TRUE]
  <1>1. Consistent(host) /\ host \in HostType /\ r \in HostType
    BY ResetQueuesConsistent DEF IInv, Consistent
  <1>2. Changes(host, r, p, v, host.event)
    BY <1>1, ResetQueuesSlot
  <1>3. host' = [r EXCEPT !.unreliable[p] = TRUE]
    BY DEF FlushAndReset
  <1> HIDE DEF r
  <1>4. Changes(r, host', p, [Slot(r, p) EXCEPT !.unreliable = TRUE], r.event)
    BY <1>1, <1>3, UnreliableSlot
  <1>5. Changes(host, host', p, w, host.event)
    BY <1>2, <1>4 DEF Changes
  <1>6. /\ w.state = host.state[p] /\ w.acks = {} /\ w.dispatched = 0
        /\ w.unreliable = TRUE
    BY DEF Slot, Emptied
  <1> HIDE DEF w
  <1>7. Settled(w)
    BY <1>6 DEF Settled
  <1>8. doomed' = p /\ phase' = "flush" /\ phase = "idle" /\ rx' = rx
    BY DEF FlushAndReset, Idle
  <1>9. doomed = NoPeer /\ host.event = NoEvent /\ NoPeer \notin Peers /\ rx = NoPeer
    BY <1>8, IdleHolds, NoEventYet, PeerCountAssumption DEF NoPeer, Peers, Held
  <1>10. /\ Slot(host', p) = w /\ host'.event = NoEvent
         /\ \A q \in Peers \ {p} : Slot(host', q) = Slot(host, q)
    BY <1>5, <1>9 DEF Changes
  <1>11. Sound'
    <2>1. \A q \in Peers : /\ Settled(Slot(host', q))
                           /\ Due(Slot(host', q)) \/ doomed' = q
      BY <1>7, <1>8, <1>9, <1>10 DEF Sound
    <2> QED
      BY <2>1 DEF Sound
  <1>12. /\ host'.state[p] = host.state[p] /\ host'.acks[p] = {}
         /\ \A q \in Peers \ {p} : host'.state[q] = host.state[q]
    BY <1>6, <1>10, SlotFields
  <1>13. Moved(p)
    BY <1>9, <1>10, <1>12 DEF Moved, Evolves, Silent
  <1>14. Held'
    BY <1>8, <1>9, <1>10, <1>12 DEF Held, FlushHeld, EventHeld
  <1> QED
    BY <1>11, <1>13, <1>14

\* enet_peer_disconnect
LEMMA DisconnectSound ==
    ASSUME IInv, Sound, Held, NEW p \in Peers, Disconnect(p)
    PROVE  Sound' /\ Held' /\ Moved(p)
  <1>1. Idle /\ host.state[p] \in States
        /\ host.state[p] \notin {"DISCONNECTING", "DISCONNECTED",
                                 "ACKNOWLEDGING_DISCONNECT", "ZOMBIE"}
    BY DEF Disconnect, IInv, Consistent, HostType
  <1>2. CASE host.state[p] \in Live /\ host' = DisconnectLive(host, p)
             /\ UNCHANGED <<phase, wantsEvent, cursor, rx, doomed>>
    <2>1. Changes(host, host', p, Disconnecting(Slot(host, p)), host.event)
      BY <1>2, DisconnectLiveSlot DEF IInv
    <2>2. Evolves(p, host.state[p], Disconnecting(Slot(host, p)).state,
                  host.event, host.event)
      BY <1>2, DisconnectingSettled DEF Evolves, Silent, Live
    <2>3. Sound' /\ Moved(p)
      BY <1>2, <2>1, <2>2, DisconnectingSettled, OneSlot
    <2>4. Held'
      BY <1>1, <1>2, <2>1, NoEventYet, IdleHolds, HeldOutside
      DEF Held, Idle, Changes
    <2> QED
      BY <2>3, <2>4
  <1>3. CASE host.state[p] \notin Live /\ FlushAndReset(p)
    <2>1. host.state[p] \in Opening
      BY <1>1, <1>3 DEF States, Live, Opening
    <2> QED
      BY <1>1, <1>3, <2>1, FlushAndResetSound
  <1> QED
    BY <1>2, <1>3 DEF Disconnect

\* enet_peer_disconnect_later
LEMMA DisconnectLaterSound ==
    ASSUME IInv, Sound, Held, NEW p \in Peers, DisconnectLater(p)
    PROVE  Sound' /\ Held' /\ Moved(p)
  <1> DEFINE v == Slot(host, p)
             w == [v EXCEPT !.state = "DISCONNECT_LATER"]
  <1>1. CASE host.state[p] \in Live /\ ~(Drained(host, p) /\ ~host.unreliable[p])
    <2>1. host \in HostType
      BY DEF IInv, Consistent
    <2>2. /\ host' = [host EXCEPT !.state[p] = "DISCONNECT_LATER"]
          /\ phase' = phase /\ rx' = rx /\ doomed' = doomed /\ phase = "idle"
      BY <1>1 DEF DisconnectLater, Idle
    <2>3. Changes(host, host', p, w, host.event)
      BY <2>1, <2>2, StateSlot
    <2>4. /\ w.state = "DISCONNECT_LATER" /\ w.acks = v.acks
          /\ w.unreliable = v.unreliable /\ Awaited(w) = Awaited(v)
      BY DEF Slot, Awaited
    <2> HIDE DEF w
    <2>5. v.unreliable \/ Awaited(v) # {}
      <3>1. CASE host.unreliable[p]
        BY <3>1, SlotFields
      <3>2. CASE ~Drained(host, p)
        BY <3>2, SlotFields DEF Drained, Awaited
      <3> QED
        BY <1>1, <3>1, <3>2
    <2>6. Settled(v) /\ v.state \in Live
      BY <1>1, SoundSlot
    <2> HIDE DEF v
    <2>7. "DISCONNECT" \notin v.acks
      BY <2>6 DEF Settled, Live
    <2>8. w.unreliable \/ Awaited(w) # {}
      BY <2>4, <2>5
    <2>9. Settled(w) /\ Due(w)
      BY <2>4, <2>7, <2>8 DEF Settled, Due, Opening
    <2>10. Evolves(p, host.state[p], w.state, host.event, host.event)
      BY <1>1, <2>4 DEF Evolves, Silent, Live
    <2>11. Held'
      BY <2>2, <2>3, NoEventYet, IdleHolds, HeldOutside DEF Held, Changes
    <2> QED
      BY <2>2, <2>3, <2>9, <2>10, <2>11, OneSlot
  <1>2. CASE ~(host.state[p] \in Live
               /\ ~(Drained(host, p) /\ ~host.unreliable[p]))
    BY <1>2, DisconnectSound DEF DisconnectLater
  <1> QED
    BY <1>1, <1>2

\* enet_peer_disconnect_now
LEMMA DisconnectNowSound ==
    ASSUME IInv, Sound, Held, NEW p \in Peers, DisconnectNow(p)
    PROVE  Sound' /\ Held' /\ Moved(p)
  <1>1. Idle /\ Aborts /\ host.state[p] # "DISCONNECTED"
    BY DEF DisconnectNow
  <1>2. CASE host' = PeerReset(host, p)
             /\ UNCHANGED <<phase, wantsEvent, cursor, rx, doomed>>
    <2>1. Changes(host, host', p, Fresh, host.event)
      BY <1>2, PeerResetSlot DEF IInv
    <2>2. Evolves(p, host.state[p], Fresh.state, host.event, host.event)
      BY <1>1, FreshSettled DEF Evolves, Silent
    <2>3. Sound' /\ Moved(p)
      BY <1>2, <2>1, <2>2, FreshSettled, OneSlot
    <2>4. Held'
      BY <1>1, <1>2, <2>1, NoEventYet, IdleHolds, HeldOutside
      DEF Held, Idle, Changes
    <2> QED
      BY <2>3, <2>4
  <1>3. CASE FlushAndReset(p)
    BY <1>1, <1>3, FlushAndResetSound
  <1> QED
    BY <1>2, <1>3 DEF DisconnectNow

-----------------------------------------------------------------------------
(***************************************************************************)
(* enet_host_service and its dispatch.                                     *)
(***************************************************************************)

\* A step that changes neither a state nor the event.
Steady == host'.state = host.state /\ host'.event = host.event

\* A step that does not touch the host.
LEMMA SameHost ==
    ASSUME Sound, host' = host, doomed' = doomed
    PROVE  Sound' /\ Steady
  BY DEF Sound, Slot, Steady

\* enet_host_service is called.
LEMMA ServiceSound ==
    ASSUME IInv, Sound, Held, Service
    PROVE  Sound' /\ Held' /\ Steady
  <1>1. /\ host' = host /\ doomed' = doomed /\ rx' = rx /\ phase = "idle"
    BY DEF Service, Idle
  <1>2. Held'
    BY <1>1, NoEventYet, IdleHolds, HeldOutside DEF Held
  <1> QED
    BY <1>1, <1>2, SameHost

\* A new command for a peer that is live, and so neither fresh nor idle.
LEMMA BandwidthThrottleSound ==
    ASSUME IInv, Sound, Held, BandwidthThrottle
    PROVE  Sound' /\ Held' /\ Steady
  <1>1. /\ doomed' = doomed /\ rx' = rx /\ phase = "throttle"
        /\ host \in HostType
    BY DEF BandwidthThrottle, IInv, Consistent
  <1>2. CASE host' = host
    <2>1. Held'
      BY <1>1, <1>2, NoEventYet, IdleHolds, HeldOutside DEF Held
    <2> QED
      BY <1>1, <1>2, <2>1, SameHost
  <1>3. CASE host' # host
    <2> DEFINE r == [p \in Peers |->
                        IF /\ host.state[p] \in Live
                           /\ "CONTROL" \notin Outstanding(host, p)
                        THEN host.ready[p] \cup {"CONTROL"}
                        ELSE host.ready[p]]
    <2>1. host' = [host EXCEPT !.recalculate = FALSE, !.ready = r]
      BY <1>1, <1>3 DEF BandwidthThrottle, HostType
    <2> HIDE DEF r
    <2>2. /\ host'.state = host.state /\ host'.event = host.event
          /\ host'.limited = host.limited /\ host'.strikes = host.strikes
          /\ host'.needsDispatch = host.needsDispatch /\ host'.acks = host.acks
          /\ host'.resend = host.resend /\ host'.sent = host.sent
          /\ host'.unreliable = host.unreliable
          /\ host'.dispatched = host.dispatched /\ host'.ready = r
      BY <1>1, <2>1 DEF HostType
    <2>3. ASSUME NEW p \in Peers
          PROVE  Settled(Slot(host', p)) /\ (Due(Slot(host', p)) \/ doomed' = p)
      <3> DEFINE v == Slot(host, p)
                 w == Slot(host', p)
      <3>1. Settled(v) /\ (Due(v) \/ doomed = p) /\ v.state = host.state[p]
        BY SoundSlot
      <3>2. CASE host.state[p] \in Live
        <4>1. /\ w.state = v.state /\ w.acks = v.acks
              /\ w.dispatched = v.dispatched
          BY <2>2, SlotFields
        <4>2. w.needsDispatch = v.needsDispatch /\ w.unreliable = v.unreliable
          BY <2>2, SlotFields
        <4>3. Awaited(v) \subseteq Awaited(w)
          <5>1. host.ready[p] \subseteq r[p]
            BY DEF r
          <5> QED
            BY <2>2, <5>1, SlotFields DEF Awaited
        <4> HIDE DEF v, w
        <4>4. Settled(w)
          BY <3>1, <3>2, <4>1, <4>2, <4>3 DEF Settled, Live, Opening
        <4>5. Due(v) => Due(w)
          BY <4>1, <4>2 DEF Due
        <4> QED
          BY <1>1, <3>1, <4>4, <4>5 DEF w
      <3>3. CASE host.state[p] \notin Live
        <4>1. r[p] = host.ready[p]
          BY <3>3 DEF r
        <4>2. w = v
          BY <2>2, <4>1 DEF Slot
        <4> QED
          BY <1>1, <3>1, <4>2
      <3> QED
        BY <3>2, <3>3
    <2>4. Sound'
      BY <2>3 DEF Sound
    <2>5. Held'
      BY <1>1, <2>2, NoEventYet, IdleHolds, HeldOutside DEF Held
    <2> QED
      BY <2>2, <2>4, <2>5 DEF Steady
  <1> QED
    BY <1>2, <1>3

\* The phase of a step that delivers an event, or sets none.
LEMMA HeldDispatched ==
    ASSUME IInv, Held, phase \notin {"flush", "receive", "deliver"},
           doomed' = doomed, rx' = rx, NEW p \in Peers, NEW w,
           Changes(host, host', p, w, host'.event),
           \/ phase' = phase /\ host'.event = NoEvent
           \/ /\ phase' = "deliver"
              /\ \/ host'.event \in {Event("CONNECT", p), Event("RECEIVE", p)}
                 \/ host'.event = Event("DISCONNECT", p) /\ w.state = "DISCONNECTED"
    PROVE  Held'
  <1>1. doomed' = NoPeer /\ rx' = NoPeer
    BY IdleHolds DEF Held
  <1>2. host'.state[p] = w.state
    BY DEF Changes, Slot
  <1>3. EventHeld'
    <2>1. CASE host'.event = NoEvent
      BY <2>1 DEF EventHeld
    <2>2. CASE phase' = "deliver"
      BY <1>2, <2>2, EventKinds DEF EventHeld
    <2> QED
      BY <2>1, <2>2
  <1> QED
    BY <1>1, <1>3 DEF Held, FlushHeld

\* A peer in the dispatch queue is not DISCONNECTED.
LEMMA QueuedInUse ==
    ASSUME IInv, Sound, NEW p \in Peers, host.dispatchQueue # <<>>,
           p = Head(host.dispatchQueue)
    PROVE  host.state[p] # "DISCONNECTED"
  <1>1. host.dispatchQueue \in Seq(Peers)
    BY DEF IInv, Consistent, HostType
  <1>2. p \in ToSet(host.dispatchQueue)
    BY <1>1, LenProperties, EmptySeq DEF ToSet
  <1>3. host.needsDispatch[p]
    BY <1>2 DEF IInv, Consistent, Linked
  <1>4. Slot(host, p).needsDispatch
    BY <1>3, SlotFields
  <1>5. Slot(host, p) # Fresh
    BY <1>4, FreshFields
  <1> QED
    BY <1>5, SoundSlot DEF Settled

\* One peer is taken from the dispatch queue, and its event reported.
LEMMA DispatchNextSound ==
    ASSUME IInv, Sound, Held, NEW p \in Peers, DispatchNext(p)
    PROVE  Sound' /\ Held' /\ Moved(p)
  <1> DEFINE g == [host EXCEPT !.dispatchQueue = Tail(@),
                               !.needsDispatch[p] = FALSE]
             v == Slot(host, p)
             u == [v EXCEPT !.needsDispatch = FALSE]
             s == host.state[p]
             n == host.dispatched[p] - 1
  <1>1. Consistent(g) /\ g \in HostType /\ host \in HostType
        /\ g.dispatched = host.dispatched
    BY DequeueConsistent DEF IInv, DispatchNext, Consistent
  <1>2. Changes(host, g, p, u, host.event)
    <2> DEFINE t == Tail(host.dispatchQueue)
    <2>1. g = [host EXCEPT !.dispatchQueue = t, !.needsDispatch[p] = FALSE]
      BY <1>1 DEF HostType
    <2> HIDE DEF t, g
    <2> QED
      BY <1>1, <2>1, DequeueSlot
  <1>3. /\ phase \in {"dispatch1", "dispatch2"} /\ doomed' = doomed /\ rx' = rx
        /\ host.event = NoEvent /\ doomed = NoPeer
    BY NoEventYet, IdleHolds DEF DispatchNext
  <1>4. /\ u.state = s /\ u.acks = v.acks /\ u.dispatched = v.dispatched
        /\ u.unreliable = v.unreliable /\ Awaited(u) = Awaited(v)
    BY DEF Slot, Awaited
  <1>5. Settled(v) /\ v.state = s /\ v.dispatched = host.dispatched[p]
    BY SoundSlot, SlotFields
  <1>6. CASE /\ s \in {"CONNECTION_PENDING", "CONNECTION_SUCCEEDED"}
             /\ host' = [ChangeState(g, p, "CONNECTED") EXCEPT
                            !.event = Event("CONNECT", p)]
             /\ phase' = "deliver"
    <2> DEFINE c == ChangeState(g, p, "CONNECTED")
               w == [u EXCEPT !.state = "CONNECTED"]
    <2>1. c \in HostType
      BY <1>1, ChangeStateConsistent DEF States, Consistent
    <2>2. Changes(g, c, p, [Slot(g, p) EXCEPT !.state = "CONNECTED"], g.event)
      BY <1>1, ChangeStateSlot
    <2> HIDE DEF g, c
    <2>3. Changes(c, host', p, Slot(c, p), Event("CONNECT", p))
      BY <1>6, <2>1, EventSlot DEF c
    <2>4. Changes(host, host', p, w, Event("CONNECT", p))
      BY <1>2, <2>2, <2>3 DEF Changes
    <2>5. w.state = "CONNECTED" /\ w.acks = v.acks /\ w.dispatched = v.dispatched
      BY DEF Slot
    <2> HIDE DEF u, v, w
    <2>6. Settled(w) /\ Due(w)
      BY <1>5, <1>6, <2>5 DEF Settled, Due, Opening
    <2>7. Evolves(p, s, w.state, host.event, Event("CONNECT", p))
      BY <1>3, <1>6, <2>5 DEF Evolves, Opening
    <2>8. Held'
      BY <1>3, <1>6, <2>4, HeldDispatched DEF Changes
    <2> QED
      BY <1>3, <2>4, <2>6, <2>7, <2>8, OneSlot
  <1>7. CASE /\ s = "ZOMBIE"
             /\ host' = PeerReset([g EXCEPT !.recalculate = TRUE,
                                            !.event = Event("DISCONNECT", p)], p)
             /\ phase' = "deliver"
    <2> DEFINE y == [g EXCEPT !.recalculate = TRUE]
               z == [y EXCEPT !.event = Event("DISCONNECT", p)]
    <2>1. Consistent(y) /\ y \in HostType
      BY <1>1, RecalculateConsistent DEF Consistent
    <2>2. host' = PeerReset(z, p)
      BY <1>1, <1>7 DEF HostType
    <2>3. Changes(g, y, p, Slot(g, p), g.event)
      BY <1>1, RecalculateSlot
    <2> HIDE DEF g, y
    <2>4. Consistent(z) /\ Changes(y, z, p, Slot(y, p), Event("DISCONNECT", p))
      BY <2>1, EventTypes, EventConsistent, EventSlot
    <2> HIDE DEF z
    <2>5. Changes(z, host', p, Fresh, z.event)
      BY <2>2, <2>4, PeerResetSlot
    <2>6. Changes(host, host', p, Fresh, Event("DISCONNECT", p))
      BY <1>2, <2>3, <2>4, <2>5 DEF Changes
    <2>7. Evolves(p, s, Fresh.state, host.event, Event("DISCONNECT", p))
      BY <1>3, <1>7, FreshSettled DEF Evolves
    <2>8. Held'
      BY <1>3, <1>7, <2>6, FreshSettled, HeldDispatched DEF Changes
    <2> QED
      BY <1>3, <2>6, <2>7, <2>8, FreshSettled, OneSlot
  <1>8. CASE /\ s = "CONNECTED" /\ host.dispatched[p] > 0
             /\ LET r == [g EXCEPT !.dispatched[p] = @ - 1,
                                   !.event = Event("RECEIVE", p)]
                IN  host' = IF r.dispatched[p] > 0 THEN Enqueue(r, p) ELSE r
             /\ phase' = "deliver"
    <2> DEFINE y == [g EXCEPT !.dispatched[p] = n]
               r == [y EXCEPT !.event = Event("RECEIVE", p)]
               x == [u EXCEPT !.dispatched = n]
               w == IF n > 0 THEN Queued(x, s) ELSE x
    <2>1. n \in 0 .. MaxDispatched
      BY <1>1, <1>8, PeerFields, BoundsAssumption
    <2>2. host' = IF r.dispatched[p] > 0 THEN Enqueue(r, p) ELSE r
      BY <1>1, <1>8 DEF HostType
    <2> HIDE DEF n
    <2>3. Changes(g, y, p, [Slot(g, p) EXCEPT !.dispatched = n], g.event)
      BY <1>1, DispatchedSlot
    <2> HIDE DEF g
    <2>4. y \in HostType /\ y.state = g.state /\ y.dispatched[p] = n
      <3>1. /\ y \in HostType /\ y.state = g.state
            /\ y.dispatched = [g.dispatched EXCEPT ![p] = n]
        BY <1>1, <2>1, AssignDispatched DEF HostType
      <3> QED
        BY <1>1, <3>1, PeerFields
    <2> HIDE DEF y
    <2>5. /\ r \in HostType /\ r.dispatched[p] = n /\ r.state = y.state
          /\ Changes(y, r, p, Slot(y, p), Event("RECEIVE", p))
      BY <2>4, EventTypes, EventSlot DEF HostType
    <2> HIDE DEF r
    <2>6. Changes(host, r, p, x, Event("RECEIVE", p))
      BY <1>2, <2>3, <2>5 DEF Changes
    <2>7. r.state[p] = s
      BY <1>4, <2>6 DEF Changes, Slot
    <2>8. Changes(r, Enqueue(r, p), p, Queued(Slot(r, p), s), r.event)
      BY <2>5, <2>7, EnqueueSlot
    <2>9. Changes(host, host', p, w, Event("RECEIVE", p))
      BY <2>2, <2>5, <2>6, <2>8 DEF Changes
    <2>10. x.state = "CONNECTED" /\ x.acks = v.acks /\ x.dispatched = n
      BY <1>8 DEF Slot
    <2> HIDE DEF u, v, x
    <2>11. Settled(x) /\ (n <= 0 => Due(x))
      BY <1>5, <1>8, <2>1, <2>10 DEF Settled, Due, Opening
    <2>12. Settled(w) /\ Due(w) /\ w.state = "CONNECTED"
      BY <1>8, <2>1, <2>10, <2>11, QueuedDue, QueuedSettled
    <2> HIDE DEF w
    <2>13. Evolves(p, s, w.state, host.event, Event("RECEIVE", p))
      BY <1>3, <1>8, <2>12 DEF Evolves
    <2>14. Held'
      BY <1>3, <1>8, <2>9, HeldDispatched DEF Changes
    <2> QED
      BY <1>3, <2>9, <2>12, <2>13, <2>14, OneSlot
  <1>9. CASE /\ \/ s \notin {"CONNECTION_PENDING", "ZOMBIE",
                             "CONNECTION_SUCCEEDED", "CONNECTED"}
                \/ s = "CONNECTED" /\ host.dispatched[p] = 0
             /\ host' = g
             /\ UNCHANGED phase
    <2> HIDE DEF g
    <2>1. Changes(host, host', p, u, host.event)
      BY <1>2, <1>9
    <2>2. s # "DISCONNECTED"
      BY QueuedInUse DEF DispatchNext
    <2> HIDE DEF u, v
    <2>3. Settled(u)
      BY <1>4, <1>5, <2>2 DEF Settled
    <2>4. Due(u)
      BY <1>4, <1>5, <1>9 DEF Due
    <2>5. Evolves(p, s, u.state, host.event, host.event)
      BY <1>4 DEF Evolves, Silent
    <2>6. Held'
      BY <1>3, <1>9, <2>1, HeldDispatched DEF Changes
    <2> QED
      BY <1>3, <2>1, <2>3, <2>4, <2>5, <2>6, OneSlot
  <1> QED
    BY <1>6, <1>7, <1>8, <1>9 DEF DispatchNext

\* The queue is empty.
LEMMA DispatchDoneSound ==
    ASSUME IInv, Sound, Held, DispatchDone
    PROVE  Sound' /\ Held' /\ Steady
  <1>1. /\ host' = host /\ doomed' = doomed /\ rx' = rx
        /\ phase \in {"dispatch1", "dispatch2"}
    BY DEF DispatchDone
  <1>2. Held'
    BY <1>1, NoEventYet, IdleHolds, HeldOutside DEF Held
  <1> QED
    BY <1>1, <1>2, SameHost

\* The application gets the event, and the call returns.
Delivered ==
    /\ phase = "deliver" /\ phase' = "idle"
    /\ host'.event = NoEvent /\ host'.state = host.state

\* enet_host_service returns the event.
LEMMA DeliverSound ==
    ASSUME IInv, Sound, Held, NEW p \in Peers, Deliver(p)
    PROVE  Sound' /\ Held' /\ Delivered
  <1>1. /\ host' = [host EXCEPT !.event = NoEvent] /\ doomed' = doomed
        /\ rx' = rx /\ phase = "deliver" /\ phase' = "idle" /\ host \in HostType
    BY DEF Deliver, Return, IInv, Consistent
  <1>2. Changes(host, host', p, Slot(host, p), NoEvent)
    BY <1>1, EventSlot
  <1>3. \A q \in Peers : Slot(host', q) = Slot(host, q)
    BY <1>2 DEF Changes
  <1>4. Sound'
    BY <1>1, <1>3 DEF Sound
  <1>5. Held'
    BY <1>1, <1>2, IdleHolds, HeldOutside DEF Held, Changes
  <1>6. host'.state = host.state /\ host'.event = NoEvent
    BY <1>1 DEF HostType
  <1> QED
    BY <1>1, <1>4, <1>5, <1>6 DEF Delivered

-----------------------------------------------------------------------------
(***************************************************************************)
(* enet_protocol_send_outgoing_commands.                                   *)
(***************************************************************************)

\* Only the phases of sending move the cursor; no event is set meanwhile.
LEMMA SendingQuiet ==
    ASSUME IInv, Held, Sending
    PROVE  /\ host.event = NoEvent /\ rx = NoPeer
           /\ phase # "flush" => doomed = NoPeer
           /\ phase \in {"send1", "send2", "flush"}
  BY NoEventYet, IdleHolds DEF Sending, Held

\* A peer that is gone is passed over.
LEMMA SkipPeerSound ==
    ASSUME IInv, Sound, Held, NEW p \in Peers, SkipPeer(p)
    PROVE  Sound' /\ Held' /\ Steady
  <1>1. /\ host' = host /\ doomed' = doomed /\ rx' = rx /\ phase' = phase
    BY DEF SkipPeer
  <1>2. Held'
    BY <1>1 DEF Held, FlushHeld, EventHeld
  <1> QED
    BY <1>1, <1>2, SameHost

\* A pass over the acknowledgements of a peer: it ends the connection of a peer
\* whose DISCONNECT is acknowledged.
LEMMA AcknowledgedSettled ==
    ASSUME Consistent(host), Sound, NEW p \in Peers,
           host.state[p] \notin {"DISCONNECTED", "ZOMBIE"}
    PROVE  LET a == SendAcknowledgements(host, p)
               v == Slot(a, p)
           IN  /\ Consistent(a) /\ a.sent[p] = host.sent[p]
               /\ Changes(host, a, p, v, host.event)
               /\ Settled(v) /\ (Due(v) \/ doomed = p) /\ v.acks = {}
               /\ v.state = a.state[p]
               /\ \/ v.state = host.state[p]
                  \/ /\ host.state[p] = "ACKNOWLEDGING_DISCONNECT"
                     /\ v.state = "ZOMBIE" /\ "DISCONNECT" \in host.acks[p]
  <1> DEFINE a == SendAcknowledgements(host, p)
             u == Slot(host, p)
             v == Slot(a, p)
             z == Queued(u, "ZOMBIE")
  <1>1. Consistent(a)
    BY SendAcknowledgementsConsistent
  <1> HIDE DEF a
  <1>2. /\ Settled(u) /\ (Due(u) \/ doomed = p) /\ u.state = host.state[p]
        /\ u.acks = host.acks[p] /\ u.sent = host.sent[p]
    BY SoundSlot, SlotFields
  <1>3. v.state = a.state[p] /\ v.sent = a.sent[p]
    BY SlotFields
  <1>4. CASE "DISCONNECT" \in host.acks[p]
    <2> DEFINE w == [z EXCEPT !.acks = {}]
    <2>1. Changes(host, a, p, w, host.event)
      BY <1>4, SendAcknowledgementsSlot DEF a
    <2>2. v = w
      BY <2>1 DEF Changes
    <2>3. w.state = "ZOMBIE" /\ w.acks = {} /\ w.sent = u.sent
      BY DEF Queued
    <2>4. z.needsDispatch = TRUE
      BY DEF Queued
    <2>5. w.needsDispatch = z.needsDispatch
      BY DEF Queued
    <2> HIDE DEF z, w
    <2>6. Settled(w) /\ Due(w)
      BY <2>3, <2>4, <2>5 DEF Settled, Due, Opening
    <2>7. host.state[p] = "ACKNOWLEDGING_DISCONNECT"
      BY <1>2, <1>4 DEF Settled
    <2> QED
      BY <1>1, <1>2, <1>3, <1>4, <2>1, <2>2, <2>3, <2>6, <2>7 DEF a
  <1>5. CASE "DISCONNECT" \notin host.acks[p]
    <2> DEFINE w == [u EXCEPT !.acks = {}]
    <2>1. Changes(host, a, p, w, host.event)
      BY <1>5, SendAcknowledgementsSlot DEF a
    <2>2. v = w
      BY <2>1 DEF Changes
    <2>3. /\ w.state = u.state /\ w.acks = {} /\ w.sent = u.sent
          /\ w.dispatched = u.dispatched /\ Awaited(w) = Awaited(u)
      BY DEF Slot, Awaited
    <2>4. w.needsDispatch = u.needsDispatch /\ w.unreliable = u.unreliable
      BY DEF Slot
    <2> HIDE DEF u, w
    <2>5. Settled(w)
      BY <1>2, <2>3, <2>4 DEF Settled, Opening
    <2>6. Due(u) => Due(w)
      BY <2>3, <2>4 DEF Due
    <2> QED
      BY <1>1, <1>2, <1>3, <2>1, <2>2, <2>3, <2>5, <2>6 DEF a
  <1> QED
    BY <1>4, <1>5

\* What a pass over p leaves: the acknowledgements are sent, and at most a
\* disconnection that was waiting has started or ended.
Passed(s, w) ==
    /\ w.acks = {}
    /\ \/ w.state = s
       \/ s = "ACKNOWLEDGING_DISCONNECT" /\ w.state = "ZOMBIE"
       \/ s = "DISCONNECT_LATER" /\ w.state = "DISCONNECTING"

\* The unreliable commands leave, which may start a disconnection.
LEMMA UnreliableSettled ==
    ASSUME NEW h, Consistent(h), NEW p \in Peers, NEW d, NEW s,
           Settled(Slot(h, p)), Due(Slot(h, p)) \/ d = p,
           h.state[p] # "DISCONNECTED", Passed(s, Slot(h, p))
    PROVE  LET g == SendUnreliable(h, p)
               w == Slot(g, p)
           IN  /\ Changes(h, g, p, w, h.event)
               /\ Settled(w) /\ (Due(w) \/ d = p)
               /\ Passed(s, w)
  <1> DEFINE v == Slot(h, p)
             u == [v EXCEPT !.unreliable = FALSE]
             g == SendUnreliable(h, p)
             w == Slot(g, p)
  <1>1. \/ g = h /\ ~h.unreliable[p]
        \/ /\ Changes(h, g, p, u, h.event)
           /\ u.state = "DISCONNECT_LATER" => Awaited(u) # {}
        \/ /\ Changes(h, g, p, Disconnecting(u), h.event)
           /\ h.state[p] = "DISCONNECT_LATER"
    BY SendUnreliableSlot
  <1> HIDE DEF g
  <1>2. v.state = h.state[p]
    BY SlotFields
  <1>3. CASE g = h
    <2>1. w = v /\ Changes(h, g, p, w, h.event)
      BY <1>3 DEF Changes
    <2> HIDE DEF w
    <2> QED
      BY <2>1 DEF g, w
  <1>4. CASE /\ Changes(h, g, p, u, h.event)
             /\ u.state = "DISCONNECT_LATER" => Awaited(u) # {}
    <2>1. w = u
      BY <1>4 DEF Changes
    <2>2. u.state = v.state /\ u.acks = v.acks /\ u.dispatched = v.dispatched
      BY DEF Slot
    <2>3. u.needsDispatch = v.needsDispatch
      BY DEF Slot
    <2> HIDE DEF u, v, w
    <2>4. Settled(u)
      BY <1>2, <1>4, <2>2 DEF Settled, Opening, v
    <2>5. Due(v) => Due(u)
      BY <2>2, <2>3 DEF Due
    <2>6. Passed(s, u)
      BY <2>2 DEF Passed, v
    <2> QED
      BY <1>4, <2>1, <2>4, <2>5, <2>6 DEF v, w, g
  <1>5. CASE /\ Changes(h, g, p, Disconnecting(u), h.event)
             /\ h.state[p] = "DISCONNECT_LATER"
    <2>1. w = Disconnecting(u)
      BY <1>5 DEF Changes
    <2> HIDE DEF u, w
    <2>2. Settled(w) /\ Due(w) /\ w.state = "DISCONNECTING" /\ w.acks = {}
      BY <2>1, DisconnectingSettled
    <2>3. Passed(s, w)
      BY <1>2, <1>5, <2>2 DEF Passed
    <2> QED
      BY <1>5, <2>1, <2>2, <2>3 DEF w, g
  <1> QED
    BY <1>1, <1>3, <1>4, <1>5 DEF g

\* A whole pass over a peer: its acknowledgements, its timeouts, its reliable
\* commands, a ping and its unreliable commands.
LEMMA SendToSound ==
    ASSUME IInv, Sound, Held, NEW p \in Peers, NEW expired \in SUBSET host.sent[p],
           NEW ping \in BOOLEAN, NEW fails \in BOOLEAN,
           SendTo(p, expired, ping, fails)
    PROVE  Sound' /\ Held' /\ Moved(p)
  <1> DEFINE a == SendAcknowledgements(host, p)
             t == CheckTimeouts(a, p, expired)
             r == SendReliable(t, p)
             q == IF ping THEN Ping(r, p) ELSE r
             s == host.state[p]
             w == Slot(host', p)
  <1>1. /\ Consistent(a) /\ a.sent[p] = host.sent[p] /\ a.strikes = host.strikes
        /\ Changes(host, a, p, Slot(a, p), host.event)
        /\ Settled(Slot(a, p)) /\ (Due(Slot(a, p)) \/ doomed = p)
        /\ Passed(s, Slot(a, p)) /\ Slot(a, p).state # "DISCONNECTED"
        /\ Slot(a, p).state = a.state[p]
    BY AcknowledgedSettled, SendAcknowledgementsConsistent
    DEF IInv, SendTo, Passed
  <1>2. /\ expired \in SUBSET Kinds
        /\ host.strikes[p] = MaxStrikes => expired = {}
        /\ host' = SendUnreliable(q, p)
    BY DEF SendTo, IInv, Consistent, HostType
  <1> HIDE DEF a
  <1>3. /\ Consistent(t) /\ a \in HostType
        /\ Changes(a, t, p, Slot(t, p), a.event)
        /\ Reordered(Slot(a, p), Slot(t, p))
        /\ Awaited(Slot(t, p)) = Awaited(Slot(a, p))
    <2>1. a.strikes[p] = MaxStrikes => expired = {}
      BY <1>1, <1>2
    <2>2. Consistent(t)
      BY <1>1, <1>2, <2>1, CheckTimeoutsConsistent
    <2>3. expired \in SUBSET a.sent[p] /\ a \in HostType
      BY <1>1 DEF Consistent
    <2> QED
      BY <2>2, <2>3, CheckTimeoutsSlot
  <1> HIDE DEF t
  <1>4. /\ Consistent(r) /\ t \in HostType
        /\ Changes(t, r, p, Slot(r, p), t.event)
        /\ Reordered(Slot(t, p), Slot(r, p))
        /\ Awaited(Slot(r, p)) = Awaited(Slot(t, p))
    BY <1>3, SendReliableConsistent, SendReliableSlot DEF Consistent
  <1> HIDE DEF r
  <1>5. /\ Consistent(q) /\ Changes(r, q, p, Slot(q, p), r.event)
        /\ Reordered(Slot(r, p), Slot(q, p))
        /\ r.state[p] = "DISCONNECT_LATER" =>
              Awaited(Slot(q, p)) = Awaited(Slot(r, p))
    <2>1. CASE ping
      BY <1>4, <2>1, PingConsistent, PingSlot
    <2>2. CASE ~ping
      BY <1>4, <2>2 DEF Changes, Reordered
    <2> QED
      BY <2>1, <2>2
  <1> HIDE DEF q
  <1>6. /\ Settled(Slot(t, p)) /\ (Due(Slot(t, p)) \/ doomed = p)
        /\ Slot(t, p).state = Slot(a, p).state /\ Slot(t, p).acks = Slot(a, p).acks
    BY <1>1, <1>3, ReorderedSettled
  <1>7. /\ Settled(Slot(r, p)) /\ (Due(Slot(r, p)) \/ doomed = p)
        /\ Slot(r, p).state = Slot(a, p).state /\ Slot(r, p).acks = Slot(a, p).acks
    BY <1>1, <1>4, <1>6, ReorderedSettled
  <1>8. /\ Settled(Slot(q, p)) /\ (Due(Slot(q, p)) \/ doomed = p)
        /\ Slot(q, p).state = Slot(a, p).state /\ Slot(q, p).acks = Slot(a, p).acks
    BY <1>1, <1>5, <1>7, SlotFields, ReorderedSettled
  <1>9. Passed(s, Slot(q, p)) /\ q.state[p] # "DISCONNECTED"
    BY <1>1, <1>8, SlotFields DEF Passed
  <1>10. /\ Changes(q, host', p, w, q.event)
         /\ Settled(w) /\ (Due(w) \/ doomed = p) /\ Passed(s, w)
    BY <1>2, <1>5, <1>8, <1>9, UnreliableSettled
  <1>11. Changes(host, host', p, w, host.event)
    BY <1>1, <1>3, <1>4, <1>5, <1>10 DEF Changes
  <1> HIDE DEF w
  <1>12. Evolves(p, s, w.state, host.event, host.event)
    BY <1>10 DEF Evolves, Silent, Passed
  <1>13. /\ doomed' = doomed /\ rx' = rx /\ host.event = NoEvent /\ rx = NoPeer
         /\ phase = "flush" => phase' = "flush"
         /\ phase # "flush" => doomed = NoPeer
    BY SendingQuiet DEF SendTo, Return
  <1>14. FlushHeld'
    <2> SUFFICES ASSUME doomed # NoPeer
                 PROVE  /\ "DISCONNECT" \notin host'.acks[doomed]
                        /\ Aborts \/ host'.state[doomed] \in Opening
      BY <1>13 DEF FlushHeld
    <2>1. /\ "DISCONNECT" \notin host.acks[doomed] /\ doomed \in Peers
          /\ Aborts \/ host.state[doomed] \in Opening
      BY DEF Held, FlushHeld, IInv, Control
    <2>2. CASE doomed = p
      <3>1. host'.acks[p] = {} /\ host'.state[p] = w.state
        BY <1>10, SlotFields DEF w, Passed
      <3>2. s \in Opening => w.state = s
        BY <1>10 DEF Passed, Opening
      <3> QED
        BY <2>1, <2>2, <3>1, <3>2
    <2>3. CASE doomed # p
      <3>1. Slot(host', doomed) = Slot(host, doomed)
        BY <1>11, <2>1, <2>3 DEF Changes
      <3> QED
        BY <2>1, <3>1, SlotFields
    <2> QED
      BY <2>2, <2>3
  <1>15. Held'
    BY <1>11, <1>13, <1>14 DEF Held, EventHeld, Changes
  <1> QED
    BY <1>10, <1>11, <1>12, <1>13, <1>15, OneSlot

\* A peer is given up, or its DISCONNECT was acknowledged.
LEMMA NotifiedSettled ==
    ASSUME NEW h, Consistent(h), NEW p \in Peers, NEW ev \in BOOLEAN,
           Settled(Slot(h, p)), "DISCONNECT" \notin Slot(h, p).acks,
           h.state[p] # "DISCONNECTED", h.event = NoEvent
    PROVE  LET g == NotifyDisconnect(h, p, ev)
               w == Slot(g, p)
               silent == h.state[p] \in {"ACKNOWLEDGING_CONNECT",
                                         "CONNECTION_PENDING"}
           IN  /\ Changes(h, g, p, w, g.event) /\ Settled(w) /\ Due(w)
               /\ \/ /\ g.event = NoEvent
                     /\ w.state = IF silent THEN "DISCONNECTED" ELSE "ZOMBIE"
                  \/ /\ g.event = Event("DISCONNECT", p) /\ g.event # NoEvent
                     /\ w.state = "DISCONNECTED" /\ ~silent
  <1> DEFINE g == NotifyDisconnect(h, p, ev)
             v == Slot(h, p)
             w == Slot(g, p)
             silent == h.state[p] \in {"ACKNOWLEDGING_CONNECT",
                                       "CONNECTION_PENDING"}
  <1>1. CASE silent
    <2>1. Changes(h, g, p, Fresh, NoEvent)
      BY <1>1, NotifyDisconnectSlot
    <2>2. w = Fresh /\ g.event = NoEvent /\ Changes(h, g, p, w, g.event)
      BY <2>1 DEF Changes
    <2> HIDE DEF g, w
    <2> QED
      BY <1>1, <2>2, FreshSettled DEF g, w
  <1>2. CASE ~silent /\ ev
    <2>1. Changes(h, g, p, Fresh, Event("DISCONNECT", p))
      BY <1>2, NotifyDisconnectSlot
    <2>2. /\ w = Fresh /\ g.event = Event("DISCONNECT", p)
          /\ Changes(h, g, p, w, g.event)
      BY <2>1 DEF Changes
    <2>3. Event("DISCONNECT", p) # NoEvent
      BY DEF Event, NoEvent
    <2> HIDE DEF g, w
    <2>4. Settled(w) /\ Due(w) /\ w.state = "DISCONNECTED"
      BY <2>2, FreshSettled
    <2> QED
      BY <1>2, <2>2, <2>3, <2>4 DEF g, w
  <1>3. CASE ~silent /\ ~ev
    <2>1. Changes(h, g, p, Queued(v, "ZOMBIE"), NoEvent)
      BY <1>3, NotifyDisconnectSlot
    <2>2. /\ w = Queued(v, "ZOMBIE") /\ g.event = NoEvent
          /\ Changes(h, g, p, w, g.event)
      BY <2>1 DEF Changes
    <2> HIDE DEF g, v, w
    <2>3. Settled(w) /\ Due(w) /\ w.state = "ZOMBIE"
      BY <2>2, QueuedDue, QueuedSettled DEF v
    <2> QED
      BY <1>3, <2>2, <2>3 DEF g, w
  <1> QED
    BY <1>1, <1>2, <1>3

\* enet_protocol_check_timeouts finds that the peer must be given up.
LEMMA GiveUpSound ==
    ASSUME IInv, Sound, Held, NEW p \in Peers, GiveUp(p)
    PROVE  Sound' /\ Held' /\ Moved(p)
  <1> DEFINE a == SendAcknowledgements(host, p)
             s == host.state[p]
             w == Slot(host', p)
             silent == a.state[p] \in {"ACKNOWLEDGING_CONNECT",
                                       "CONNECTION_PENDING"}
  <1>1. /\ Consistent(a)
        /\ Changes(host, a, p, Slot(a, p), host.event)
        /\ Settled(Slot(a, p)) /\ Slot(a, p).acks = {}
        /\ \/ a.state[p] = s
           \/ s = "ACKNOWLEDGING_DISCONNECT" /\ a.state[p] = "ZOMBIE"
        /\ s \notin {"DISCONNECTED", "ZOMBIE"} /\ s \in States
    BY AcknowledgedSettled DEF IInv, GiveUp, Consistent, HostType
  <1>2. host' = NotifyDisconnect(a, p, wantsEvent) /\ wantsEvent \in BOOLEAN
    BY DEF GiveUp, IInv, Control
  <1>3. /\ phase \in {"send1", "send2"} /\ doomed = NoPeer /\ doomed' = doomed
        /\ rx = NoPeer /\ rx' = rx /\ host.event = NoEvent
        /\ \/ host'.event = NoEvent
           \/ phase' = "deliver"
    BY SendingQuiet DEF GiveUp
  <1> HIDE DEF a
  <1>4. a.event = NoEvent
    BY <1>1, <1>3 DEF Changes
  <1>5. /\ Changes(a, host', p, w, host'.event) /\ Settled(w) /\ Due(w)
        /\ \/ /\ host'.event = NoEvent
              /\ w.state = IF silent THEN "DISCONNECTED" ELSE "ZOMBIE"
           \/ /\ host'.event = Event("DISCONNECT", p) /\ host'.event # NoEvent
              /\ w.state = "DISCONNECTED" /\ ~silent
    BY <1>1, <1>2, <1>4, NotifiedSettled
  <1>6. Changes(host, host', p, w, host'.event)
    BY <1>1, <1>5 DEF Changes
  <1> HIDE DEF w
  <1>7. Evolves(p, s, w.state, host.event, host'.event)
    BY <1>1, <1>3, <1>5 DEF Evolves, Silent, States
  <1>8. EventHeld'
    <2>1. host'.state[p] = w.state
      BY <1>6, SlotFields DEF Changes
    <2> QED
      BY <1>3, <1>5, <2>1, EventKinds DEF EventHeld
  <1>9. Held'
    BY <1>3, <1>8 DEF Held, FlushHeld
  <1> QED
    BY <1>3, <1>5, <1>6, <1>7, <1>9, OneSlot

\* The pass is over; after a flush the peer is reset.
LEMMA SendDoneSound ==
    ASSUME IInv, Sound, Held, SendDone
    PROVE  Sound' /\ Held' /\ (Steady \/ \E p \in Peers : Moved(p))
  <1>1. CASE phase \in {"send1", "send2"} /\ host' = host /\ doomed' = doomed
    <2>1. host.event = NoEvent /\ doomed = NoPeer /\ rx = NoPeer /\ rx' = rx
      BY <1>1, NoEventYet, IdleHolds DEF SendDone, Held
    <2>2. Held'
      BY <1>1, <2>1, HeldOutside
    <2> QED
      BY <1>1, <2>2, SameHost
  <1>2. CASE /\ phase = "flush" /\ host' = PeerReset(host, doomed)
             /\ doomed' = NoPeer
    <2>1. /\ doomed \in Peers /\ rx = NoPeer /\ rx' = rx /\ host.event = NoEvent
          /\ Consistent(host) /\ NoPeer \notin Peers
      BY <1>2, NoEventYet, PeerCountAssumption
      DEF SendDone, IInv, Control, Held, NoPeer, Peers
    <2>2. Changes(host, host', doomed, Fresh, NoEvent)
      BY <1>2, <2>1, PeerResetSlot
    <2>3. Sound'
      <3>1. \A q \in Peers : Settled(Slot(host', q)) /\ Due(Slot(host', q))
        BY <2>1, <2>2, FreshSettled DEF Changes, Sound
      <3> QED
        BY <3>1 DEF Sound
    <2>4. host'.event = NoEvent /\ host'.state[doomed] = "DISCONNECTED"
          /\ \A q \in Peers \ {doomed} : host'.state[q] = host.state[q]
      BY <2>2, FreshSettled, SlotFields DEF Changes
    <2>5. Aborts \/ host.state[doomed] \in Opening
      BY <2>1 DEF Held, FlushHeld
    <2>6. Moved(doomed)
      BY <2>1, <2>4, <2>5 DEF Moved, Evolves, Silent, Opening
    <2>7. Held'
      BY <1>2, <2>1, <2>4 DEF Held, FlushHeld, EventHeld
    <2> QED
      BY <2>1, <2>3, <2>6, <2>7
  <1> QED
    BY <1>1, <1>2 DEF SendDone

-----------------------------------------------------------------------------
(***************************************************************************)
(* enet_protocol_receive_incoming_commands.                                *)
(***************************************************************************)

\* While a datagram of p is handled an event is set only in states that set no
\* other.
LEMMA ReceivingQuiet ==
    ASSUME IInv, Sound, Held, NEW p \in Peers, rx = p
    PROVE  /\ phase = "receive" /\ doomed = NoPeer /\ p # NoPeer
           /\ Consistent(host) /\ host \in HostType /\ wantsEvent \in BOOLEAN
           /\ Settled(Slot(host, p)) /\ Due(Slot(host, p))
           /\ Slot(host, p).state = host.state[p]
           /\ Slot(host, p).acks = host.acks[p]
           /\ \/ host.event = NoEvent
              \/ /\ host.event = Event("CONNECT", p)
                 /\ host.state[p] \in {"CONNECTED", "ACKNOWLEDGING_DISCONNECT",
                                       "ZOMBIE"}
              \/ /\ host.event = Event("DISCONNECT", p)
                 /\ host.state[p] = "DISCONNECTED"
  <1>1. p # NoPeer
    BY PeerCountAssumption DEF Peers, NoPeer
  <1>2. phase = "receive"
    BY <1>1 DEF Held
  <1>3. doomed = NoPeer
    BY <1>2, IdleHolds
  <1>4. Settled(Slot(host, p)) /\ Due(Slot(host, p))
    BY <1>1, <1>3, SoundSlot
  <1> QED
    BY <1>1, <1>2, <1>3, <1>4, SoundSlot
    DEF Held, EventHeld, IInv, Control, Consistent

\* What handling one command of p has to satisfy.
LEMMA Received ==
    ASSUME IInv, Sound, Held, NEW p \in Peers, rx = p, doomed' = doomed,
           NEW h, h.event = host'.event,
           (rx' = rx /\ phase' = phase) \/ EndOfDatagram(h),
           NEW w, Changes(host, host', p, w, host'.event), Settled(w), Due(w),
           Evolves(p, host.state[p], w.state, host.event, host'.event),
           host'.event # Event("RECEIVE", p),
           host.event = Event("CONNECT", p) =>
               w.state \in {"CONNECTED", "ACKNOWLEDGING_DISCONNECT", "ZOMBIE"},
           host.event = Event("DISCONNECT", p) => w.state = "DISCONNECTED"
    PROVE  Sound' /\ Held' /\ Moved(p)
  <1>1. Sound' /\ Moved(p)
    BY OneSlot
  <1>2. /\ phase = "receive" /\ doomed = NoPeer /\ p # NoPeer
        /\ host.event \in {NoEvent, Event("CONNECT", p), Event("DISCONNECT", p)}
    BY ReceivingQuiet
  <1>3. \/ host'.event = NoEvent
        \/ /\ host'.event = Event("CONNECT", p)
           /\ w.state \in {"CONNECTED", "ACKNOWLEDGING_DISCONNECT", "ZOMBIE"}
        \/ /\ host'.event = Event("DISCONNECT", p)
           /\ w.state = "DISCONNECTED"
    BY <1>2 DEF Evolves
  <1>4. host'.state[p] = w.state
    BY SlotFields DEF Changes
  <1>5. EventHeld'
    <2>1. CASE rx' = rx /\ phase' = phase
      BY <1>2, <1>3, <1>4, <2>1 DEF EventHeld
    <2>2. CASE EndOfDatagram(h) /\ host'.event # NoEvent
      <3>1. phase' = "deliver"
        BY <2>2 DEF EndOfDatagram
      <3>2. \A q \in Peers : host'.event = Event("DISCONNECT", q) =>
                                q = p /\ w.state = "DISCONNECTED"
        BY <1>3, <2>2, EventKinds
      <3> QED
        BY <1>4, <3>1, <3>2 DEF EventHeld
    <2>3. CASE host'.event = NoEvent
      BY <2>3 DEF EventHeld
    <2> QED
      BY <2>1, <2>2, <2>3
  <1>6. rx' # NoPeer => phase' = "receive"
    BY <1>2 DEF EndOfDatagram
  <1>7. Held'
    BY <1>2, <1>5, <1>6 DEF Held, FlushHeld
  <1> QED
    BY <1>1, <1>7

\* A handled command is acknowledged later, a DISCONNECT in one state only.
LEMMA QueuedAcknowledgementSettled ==
    ASSUME NEW h \in HostType, NEW p \in Peers, NEW kind,
           Settled(Slot(h, p)), Due(Slot(h, p)),
           kind = "DISCONNECT" =>
               h.state[p] \in {"DISCONNECTED", "ZOMBIE", "DISCONNECTING",
                               "ACKNOWLEDGING_CONNECT", "ACKNOWLEDGING_DISCONNECT"}
    PROVE  LET g == QueueAcknowledgement(h, p, kind)
               w == Slot(g, p)
           IN  /\ Changes(h, g, p, w, h.event)
               /\ Settled(w) /\ Due(w) /\ w.state = h.state[p]
  <1> DEFINE g == QueueAcknowledgement(h, p, kind)
             v == Slot(h, p)
             u == [v EXCEPT !.acks = @ \cup {kind}]
             w == Slot(g, p)
             refused == \/ h.state[p] \in {"DISCONNECTING", "DISCONNECTED",
                                           "ACKNOWLEDGING_CONNECT", "ZOMBIE"}
                        \/ /\ h.state[p] = "ACKNOWLEDGING_DISCONNECT"
                           /\ kind # "DISCONNECT"
  <1>1. v.state = h.state[p]
    BY SlotFields
  <1>2. CASE refused
    <2>1. g = h
      BY <1>2, QueueAcknowledgementSlot
    <2>2. w = v /\ Changes(h, g, p, w, h.event)
      BY <2>1 DEF Changes
    <2> HIDE DEF g, w
    <2> QED
      BY <1>1, <2>2 DEF g, w
  <1>3. CASE ~refused
    <2>1. Changes(h, g, p, u, h.event)
      BY <1>3, QueueAcknowledgementSlot
    <2>2. w = u /\ Changes(h, g, p, w, h.event)
      BY <2>1 DEF Changes
    <2>3. /\ u.state = v.state /\ u.acks = v.acks \cup {kind}
          /\ u.dispatched = v.dispatched /\ Awaited(u) = Awaited(v)
      BY DEF Slot, Awaited
    <2>4. u.needsDispatch = v.needsDispatch /\ u.unreliable = v.unreliable
      BY DEF Slot
    <2>5. v.state # "DISCONNECTED"
          /\ (kind = "DISCONNECT" => v.state = "ACKNOWLEDGING_DISCONNECT")
      BY <1>1, <1>3
    <2> HIDE DEF g, u, v, w
    <2>6. Settled(u)
      BY <2>3, <2>4, <2>5 DEF Settled, v
    <2>7. Due(u)
      BY <2>3, <2>4 DEF Due, v
    <2> QED
      BY <1>1, <2>2, <2>3, <2>6, <2>7 DEF g, w
  <1> QED
    BY <1>2, <1>3

\* The handshake of p completes.
LEMMA ConnectedSettled ==
    ASSUME NEW h, Consistent(h), NEW p \in Peers, NEW ev \in BOOLEAN,
           Settled(Slot(h, p)), h.event = NoEvent,
           h.state[p] \in {"CONNECTING", "ACKNOWLEDGING_CONNECT"}
    PROVE  LET g == NotifyConnect(h, p, ev)
               w == Slot(g, p)
               s == IF h.state[p] = "CONNECTING" THEN "CONNECTION_SUCCEEDED"
                    ELSE "CONNECTION_PENDING"
           IN  /\ Changes(h, g, p, w, g.event) /\ Settled(w) /\ Due(w)
               /\ \/ g.event = NoEvent /\ w.state = s
                  \/ g.event = Event("CONNECT", p) /\ w.state = "CONNECTED"
  <1> DEFINE g == NotifyConnect(h, p, ev)
             v == Slot(h, p)
             w == Slot(g, p)
             s == IF h.state[p] = "CONNECTING" THEN "CONNECTION_SUCCEEDED"
                  ELSE "CONNECTION_PENDING"
             c == [v EXCEPT !.state = "CONNECTED"]
  <1>1. v.state = h.state[p] /\ v.state \in Opening /\ s \in Opening
    BY SlotFields DEF Opening
  <1>2. CASE ev
    <2>1. Changes(h, g, p, c, Event("CONNECT", p))
      BY <1>2, NotifyConnectSlot
    <2>2. w = c /\ g.event = Event("CONNECT", p) /\ Changes(h, g, p, w, g.event)
      BY <2>1 DEF Changes
    <2>3. c.state = "CONNECTED" /\ c.acks = v.acks /\ c.dispatched = v.dispatched
      BY DEF Slot
    <2> HIDE DEF c, g, v, w
    <2>4. Settled(w) /\ Due(w)
      BY <1>1, <2>2, <2>3 DEF Settled, Due, Opening, v
    <2> QED
      BY <2>2, <2>3, <2>4 DEF g, w
  <1>3. CASE ~ev
    <2>1. Changes(h, g, p, Queued(v, s), NoEvent)
      BY <1>3, NotifyConnectSlot
    <2>2. w = Queued(v, s) /\ g.event = NoEvent /\ Changes(h, g, p, w, g.event)
      BY <2>1 DEF Changes
    <2> HIDE DEF g, s, v, w
    <2>3. Settled(w) /\ Due(w) /\ w.state = s
      BY <1>1, <2>2, QueuedDue, QueuedSettled DEF v
    <2> QED
      BY <2>2, <2>3 DEF g, s, w
  <1> QED
    BY <1>2, <1>3

\* A datagram arrives.
LEMMA ReceiveDatagramSound ==
    ASSUME IInv, Sound, Held, NEW p \in Peers, ReceiveDatagram(p)
    PROVE  Sound' /\ Held' /\ Steady
  <1>1. /\ host' = host /\ doomed' = doomed /\ phase' = phase
        /\ phase = "receive" /\ rx = NoPeer /\ rx' = p
    BY DEF ReceiveDatagram, Receiving
  <1>2. Held'
    BY <1>1, NoEventYet, IdleHolds, HeldOutside
  <1> QED
    BY <1>1, <1>2, SameHost

\* Its last command was handled, or one was in error.
LEMMA EndDatagramSound ==
    ASSUME IInv, Sound, Held, EndDatagram
    PROVE  Sound' /\ Held' /\ Steady
  <1>1. /\ host' = host /\ doomed' = doomed /\ rx \in Peers
        /\ rx' = NoPeer
        /\ phase' = IF host.event # NoEvent THEN "deliver" ELSE "receive"
    BY DEF EndDatagram, EndOfDatagram, IInv, Control
  <1>2. /\ doomed = NoPeer
        /\ \A q \in Peers : host.event = Event("DISCONNECT", q) =>
                               host.state[q] = "DISCONNECTED"
    BY <1>1, ReceivingQuiet, EventKinds DEF Held, EventHeld
  <1>3. Held'
    BY <1>1, <1>2 DEF Held, FlushHeld, EventHeld
  <1> QED
    BY <1>1, <1>3, SameHost

\* No datagram is left.
LEMMA ReceiveDoneSound ==
    ASSUME IInv, Sound, Held, ReceiveDone
    PROVE  Sound' /\ Held' /\ Steady
  <1>1. /\ host' = host /\ doomed' = doomed /\ rx' = rx
        /\ phase = "receive" /\ rx = NoPeer
    BY DEF ReceiveDone, Receiving
  <1>2. Held'
    BY <1>1, NoEventYet, IdleHolds, HeldOutside
  <1> QED
    BY <1>1, <1>2, SameHost

\* enet_protocol_handle_connect
LEMMA HandleConnectSound ==
    ASSUME IInv, Sound, Held, NEW p \in Peers, NEW lim \in BOOLEAN,
           HandleConnect(p, lim)
    PROVE  Sound' /\ Held' /\ Opened(p, FALSE)
  <1> DEFINE r == host.ready[p] \cup {"VERIFY_CONNECT"}
             f == [host EXCEPT !.ready[p] = r]
             g == [f EXCEPT !.limited[p] = lim]
             u == [Slot(host, p) EXCEPT !.ready = r]
             v == [u EXCEPT !.limited = lim]
             w == [v EXCEPT !.state = "ACKNOWLEDGING_CONNECT"]
  <1>1. host \in HostType /\ host.state[p] = "DISCONNECTED"
    BY DEF IInv, Consistent, HandleConnect, IsFirstFree
  <1>2. r \in SUBSET Kinds
    BY <1>1 DEF HostType, Kinds
  <1>3. host' = [g EXCEPT !.state[p] = "ACKNOWLEDGING_CONNECT"]
    BY <1>1 DEF HandleConnect, HostType
  <1> HIDE DEF r
  <1>4. Changes(host, f, p, u, host.event)
    BY <1>1, ReadySlot
  <1>5. f \in HostType
    BY <1>1, <1>2 DEF HostType
  <1> HIDE DEF f
  <1>6. Changes(f, g, p, [Slot(f, p) EXCEPT !.limited = lim], f.event)
    BY <1>5, LimitedSlot
  <1>7. g \in HostType
    BY <1>5 DEF HostType
  <1> HIDE DEF g
  <1>8. Changes(g, host', p, [Slot(g, p) EXCEPT !.state = "ACKNOWLEDGING_CONNECT"],
                g.event)
    BY <1>3, <1>7, StateSlot
  <1>9. Changes(host, host', p, w, host.event)
    BY <1>4, <1>6, <1>8 DEF Changes
  <1>10. /\ w.state = "ACKNOWLEDGING_CONNECT" /\ w.acks = Slot(host, p).acks
         /\ w.dispatched = Slot(host, p).dispatched
    BY DEF Slot
  <1> HIDE DEF w
  <1>11. Settled(w) /\ Due(w)
    BY <1>1, <1>10, SoundSlot, OpenedSettled DEF Opening
  <1>12. /\ doomed' = doomed /\ rx' = p /\ phase' = phase /\ phase = "receive"
         /\ rx = NoPeer /\ NewConnection(p, FALSE)
    BY DEF HandleConnect, Receiving
  <1>13. host.event = NoEvent
    BY <1>12, NoEventYet
  <1>14. /\ Sound' /\ host'.event = NoEvent
         /\ host'.state[p] = "ACKNOWLEDGING_CONNECT"
         /\ \A q \in Peers \ {p} : host'.state[q] = host.state[q]
    BY <1>9, <1>10, <1>11, <1>12, <1>13, SlotStep
  <1>15. Held'
    BY <1>12, <1>14, IdleHolds, HeldOutside DEF Held
  <1> QED
    BY <1>1, <1>12, <1>13, <1>14, <1>15 DEF Opened

\* An acknowledged command is no longer awaited, and forgives the timeouts.
LEMMA AcknowledgeSlot ==
    ASSUME Consistent(host), NEW p \in Peers, NEW kind
    PROVE  LET g == RemoveSentReliable([host EXCEPT !.strikes[p] = 0], p, kind)
               v == Slot(g, p)
           IN  /\ Consistent(g)
               /\ Changes(host, g, p, v, host.event)
               /\ Reordered(Slot(host, p), v)
               /\ v.state = host.state[p] /\ g.state[p] = host.state[p]
               /\ g.event = host.event
  <1> DEFINE f == [host EXCEPT !.strikes[p] = 0]
             g == RemoveSentReliable(f, p, kind)
             u == [Slot(host, p) EXCEPT !.strikes = 0]
             v == Slot(g, p)
  <1>1. Consistent(f) /\ f \in HostType /\ host \in HostType
    BY BoundsAssumption, StrikesConsistent DEF Consistent
  <1>2. Changes(host, f, p, u, host.event)
    BY <1>1, StrikesSlot
  <1>3. /\ u.state = Slot(host, p).state /\ u.acks = Slot(host, p).acks
        /\ u.dispatched = Slot(host, p).dispatched
    BY DEF Slot
  <1>4. /\ u.limited = Slot(host, p).limited
        /\ u.needsDispatch = Slot(host, p).needsDispatch
        /\ u.unreliable = Slot(host, p).unreliable
    BY DEF Slot
  <1> HIDE DEF f, u
  <1>5. /\ Consistent(g) /\ Changes(f, g, p, v, f.event)
        /\ Reordered(Slot(f, p), v)
    BY <1>1, RemoveSentReliableConsistent, RemoveSentReliableSlot
  <1> HIDE DEF g, v
  <1>6. Changes(host, g, p, v, host.event)
    BY <1>2, <1>5 DEF Changes
  <1>7. Reordered(Slot(host, p), v)
    BY <1>2, <1>3, <1>4, <1>5 DEF Changes, Reordered
  <1>8. v.state = host.state[p]
    BY <1>7, SlotFields DEF Reordered
  <1>9. g.state[p] = host.state[p] /\ g.event = host.event
    BY <1>6, <1>8, SlotFields DEF Changes
  <1> QED
    BY <1>5, <1>6, <1>7, <1>8, <1>9 DEF f, g, v

\* enet_protocol_handle_acknowledge
LEMMA HandleAcknowledgeSound ==
    ASSUME IInv, Sound, Held, NEW p \in Peers, NEW kind \in Kinds \ {"CONNECT"},
           HandleAcknowledge(p, kind)
    PROVE  Sound' /\ Held' /\ Moved(p)
  <1> DEFINE g == RemoveSentReliable([host EXCEPT !.strikes[p] = 0], p, kind)
             s == host.state[p]
             u == Slot(host, p)
             v == Slot(g, p)
             w == Slot(host', p)
             removed == kind \in host.sent[p] \cup host.resend[p]
  <1>1. /\ rx = p /\ doomed' = doomed /\ Consistent(host) /\ wantsEvent \in BOOLEAN
        /\ s \notin {"DISCONNECTED", "ZOMBIE"}
        /\ Settled(u) /\ Due(u) /\ u.state = s
        /\ \/ host.event = NoEvent
           \/ /\ host.event = Event("CONNECT", p)
              /\ s \in {"CONNECTED", "ACKNOWLEDGING_DISCONNECT"}
    BY ReceivingQuiet DEF HandleAcknowledge
  <1>2. /\ Consistent(g) /\ Changes(host, g, p, v, host.event)
        /\ Reordered(u, v) /\ v.state = s /\ g.state[p] = s
        /\ g.event = host.event
    BY <1>1, AcknowledgeSlot
  <1>3. \/ /\ s = "ACKNOWLEDGING_CONNECT"
           /\ host' = NotifyConnect(g, p, wantsEvent)
           /\ UNCHANGED <<rx, phase>>
        \/ /\ s = "DISCONNECTING"
           /\ host' = NotifyDisconnect(g, p, wantsEvent)
           /\ UNCHANGED <<rx, phase>>
        \/ /\ s \in {"ACKNOWLEDGING_CONNECT", "DISCONNECTING"}
           /\ host' = g
           /\ EndOfDatagram(g)
        \/ /\ s \notin {"ACKNOWLEDGING_CONNECT", "DISCONNECTING"}
           /\ host' = DisconnectIfDrained(g, p)
           /\ UNCHANGED <<rx, phase>>
    BY DEF HandleAcknowledge
  <1> HIDE DEF g
  <1>4. \/ Settled(v) /\ Due(v) /\ v.acks = u.acks
        \/ s = "DISCONNECT_LATER"
    BY <1>1, <1>2, ReorderedSettled
  <1>5. s = "DISCONNECTING" => "DISCONNECT" \notin v.acks
    BY <1>1, <1>4 DEF Settled
  <1>6. \A q \in Peers \ {p} : Slot(g, q) = Slot(host, q)
    BY <1>2 DEF Changes
  <1>7. CASE /\ s = "ACKNOWLEDGING_CONNECT"
             /\ host' = NotifyConnect(g, p, wantsEvent)
             /\ UNCHANGED <<rx, phase>>
    <2>1. /\ Changes(g, host', p, w, host'.event) /\ Settled(w) /\ Due(w)
          /\ \/ host'.event = NoEvent /\ w.state = "CONNECTION_PENDING"
             \/ host'.event = Event("CONNECT", p) /\ w.state = "CONNECTED"
      BY <1>1, <1>2, <1>4, <1>7, ConnectedSettled
    <2>2. Changes(host, host', p, w, host'.event)
      BY <1>6, <2>1 DEF Changes
    <2> HIDE DEF w
    <2>3. host.event = NoEvent
      BY <1>1, <1>7
    <2>4. Evolves(p, s, w.state, host.event, host'.event)
      BY <1>7, <2>1, <2>3 DEF Evolves, Silent, Opening
    <2>5. host'.event # Event("RECEIVE", p)
      BY <2>1 DEF Event, NoEvent
    <2>6. NoEvent # Event("CONNECT", p) /\ NoEvent # Event("DISCONNECT", p)
      BY DEF Event, NoEvent
    <2> QED
      BY <1>1, <1>7, <2>1, <2>2, <2>3, <2>4, <2>5, <2>6, Received
  <1>8. CASE /\ s = "DISCONNECTING"
             /\ host' = NotifyDisconnect(g, p, wantsEvent)
             /\ UNCHANGED <<rx, phase>>
    <2>1. /\ Changes(g, host', p, w, host'.event) /\ Settled(w) /\ Due(w)
          /\ \/ host'.event = NoEvent /\ w.state = "ZOMBIE"
             \/ host'.event = Event("DISCONNECT", p) /\ w.state = "DISCONNECTED"
      BY <1>1, <1>2, <1>4, <1>5, <1>8, NotifiedSettled
    <2>2. Changes(host, host', p, w, host'.event)
      BY <1>6, <2>1 DEF Changes
    <2> HIDE DEF w
    <2>3. host.event = NoEvent
      BY <1>1, <1>8
    <2>4. Evolves(p, s, w.state, host.event, host'.event)
      BY <1>8, <2>1, <2>3 DEF Evolves, Silent
    <2>5. host'.event # Event("RECEIVE", p)
      BY <2>1 DEF Event, NoEvent
    <2>6. NoEvent # Event("CONNECT", p) /\ NoEvent # Event("DISCONNECT", p)
      BY DEF Event, NoEvent
    <2> QED
      BY <1>1, <1>8, <2>1, <2>2, <2>3, <2>4, <2>5, <2>6, Received
  <1>9. CASE /\ s \in {"ACKNOWLEDGING_CONNECT", "DISCONNECTING"}
             /\ host' = g
             /\ EndOfDatagram(g)
    <2>1. Changes(host, host', p, v, host'.event) /\ host'.event = host.event
      BY <1>2, <1>9 DEF Changes
    <2> HIDE DEF v
    <2>2. host.event = NoEvent
      BY <1>1, <1>9
    <2>3. Evolves(p, s, v.state, host.event, host'.event)
      BY <1>2, <2>1 DEF Evolves, Silent
    <2>4. /\ NoEvent # Event("CONNECT", p) /\ NoEvent # Event("DISCONNECT", p)
          /\ NoEvent # Event("RECEIVE", p)
      BY DEF Event, NoEvent
    <2>5. Settled(v) /\ Due(v) /\ g.event = host'.event
      BY <1>4, <1>9
    <2> QED
      BY <1>1, <1>9, <2>1, <2>2, <2>3, <2>4, <2>5, Received
  <1>10. CASE /\ s \notin {"ACKNOWLEDGING_CONNECT", "DISCONNECTING"}
              /\ host' = DisconnectIfDrained(g, p)
              /\ UNCHANGED <<rx, phase>>
    <2> DEFINE due == /\ s = "DISCONNECT_LATER"
                      /\ Drained(g, p) /\ ~g.unreliable[p]
    <2>1. /\ due => Changes(g, host', p, Disconnecting(v), g.event)
          /\ ~due => host' = g
      BY <1>2, <1>10, DisconnectIfDrainedSlot
    <2>2. /\ NoEvent # Event("CONNECT", p) /\ NoEvent # Event("DISCONNECT", p)
          /\ NoEvent # Event("RECEIVE", p)
          /\ Event("CONNECT", p) # Event("RECEIVE", p)
          /\ Event("CONNECT", p) # Event("DISCONNECT", p)
      BY DEF Event, NoEvent
    <2>3. CASE due
      <3>1. Changes(host, host', p, Disconnecting(v), host'.event)
            /\ host'.event = host.event
        BY <1>2, <1>6, <2>1, <2>3 DEF Changes
      <3>2. host.event = NoEvent
        BY <1>1, <2>3
      <3>3. Evolves(p, s, Disconnecting(v).state, host.event, host'.event)
        BY <2>3, <3>1, DisconnectingSettled DEF Evolves, Silent
      <3> QED
        BY <1>1, <1>10, <2>2, <3>1, <3>2, <3>3, DisconnectingSettled, Received
    <2>4. CASE ~due
      <3>1. Changes(host, host', p, v, host'.event) /\ host'.event = host.event
        BY <1>2, <2>1, <2>4 DEF Changes
      <3>2. s = "DISCONNECT_LATER" => v.unreliable \/ Awaited(v) # {}
        <4>1. v.unreliable = g.unreliable[p]
          BY SlotFields
        <4>2. Awaited(v) = g.ready[p] \cup g.resend[p] \cup g.sent[p]
          BY SlotFields DEF Awaited
        <4> QED
          BY <2>4, <4>1, <4>2 DEF Drained
      <3>3. /\ v.acks = u.acks /\ v.dispatched = u.dispatched
            /\ v.needsDispatch = u.needsDispatch
        BY <1>2 DEF Reordered
      <3> HIDE DEF u, v
      <3>4. Settled(v)
        BY <1>1, <1>2, <3>2, <3>3 DEF Settled, Opening
      <3>5. Due(v)
        BY <1>1, <1>2, <3>3 DEF Due
      <3>6. Evolves(p, s, v.state, host.event, host'.event)
        BY <1>2, <3>1 DEF Evolves, Silent
      <3> QED
        BY <1>1, <1>2, <1>10, <2>2, <3>1, <3>4, <3>5, <3>6, Received
    <2> QED
      BY <2>3, <2>4
  <1> QED
    BY <1>3, <1>7, <1>8, <1>9, <1>10

\* An acknowledgement of the command is all that happens.
LEMMA OnlyAcknowledged ==
    ASSUME IInv, Sound, Held, NEW p \in Peers, rx = p, doomed' = doomed,
           UNCHANGED <<rx, phase>>,
           NEW h, Consistent(h), h.event = host.event,
           \A q \in Peers \ {p} : Slot(h, q) = Slot(host, q),
           Settled(Slot(h, p)), Due(Slot(h, p)), h.state[p] = host.state[p],
           host' = QueueAcknowledgement(h, p, "OTHER")
    PROVE  Sound' /\ Held' /\ Moved(p)
  <1> DEFINE w == Slot(host', p)
  <1>1. Changes(h, host', p, w, h.event) /\ Settled(w) /\ Due(w)
        /\ w.state = host.state[p]
    BY QueuedAcknowledgementSettled DEF Consistent
  <1>2. Changes(host, host', p, w, host'.event) /\ host'.event = host.event
    BY <1>1 DEF Changes
  <1> HIDE DEF w
  <1>3. Evolves(p, host.state[p], w.state, host.event, host'.event)
    BY <1>1, <1>2 DEF Evolves, Silent
  <1>4. /\ \/ host.event = NoEvent
           \/ /\ host.event = Event("CONNECT", p)
              /\ w.state \in {"CONNECTED", "ACKNOWLEDGING_DISCONNECT", "ZOMBIE"}
           \/ /\ host.event = Event("DISCONNECT", p)
              /\ w.state = "DISCONNECTED"
    BY <1>1, ReceivingQuiet
  <1>5. /\ NoEvent # Event("CONNECT", p) /\ NoEvent # Event("DISCONNECT", p)
        /\ NoEvent # Event("RECEIVE", p)
        /\ Event("CONNECT", p) # Event("RECEIVE", p)
        /\ Event("CONNECT", p) # Event("DISCONNECT", p)
        /\ Event("DISCONNECT", p) # Event("RECEIVE", p)
    BY DEF Event, NoEvent
  <1> QED
    BY <1>1, <1>2, <1>3, <1>4, <1>5, Received

\* enet_protocol_handle_verify_connect
LEMMA HandleVerifyConnectSound ==
    ASSUME IInv, Sound, Held, NEW p \in Peers, NEW good \in BOOLEAN,
           NEW lim \in BOOLEAN, HandleVerifyConnect(p, good, lim)
    PROVE  Sound' /\ Held' /\ Moved(p)
  <1> DEFINE f == RemoveSentReliable(host, p, "CONNECT")
             g == [f EXCEPT !.limited[p] = lim]
             n == NotifyConnect(g, p, wantsEvent)
             s == host.state[p]
             u == Slot(host, p)
             x == [Slot(f, p) EXCEPT !.limited = lim]
             w == Slot(host', p)
  <1>1. /\ rx = p /\ doomed' = doomed /\ Consistent(host) /\ host \in HostType
        /\ wantsEvent \in BOOLEAN
        /\ Settled(u) /\ Due(u) /\ u.state = s /\ u.acks = host.acks[p]
        /\ s = "CONNECTING" => host.event = NoEvent
    BY ReceivingQuiet DEF HandleVerifyConnect
  <1>2. /\ NoEvent # Event("CONNECT", p) /\ NoEvent # Event("DISCONNECT", p)
        /\ NoEvent # Event("RECEIVE", p)
        /\ Event("CONNECT", p) # Event("RECEIVE", p)
        /\ Event("CONNECT", p) # Event("DISCONNECT", p)
    BY DEF Event, NoEvent
  <1>3. CASE /\ s # "CONNECTING"
             /\ host' = QueueAcknowledgement(host, p, "OTHER")
             /\ UNCHANGED <<rx, phase>>
    BY <1>1, <1>3, OnlyAcknowledged
  <1>4. CASE /\ s = "CONNECTING"
             /\ host' = QueueAcknowledgement(n, p, "OTHER")
             /\ UNCHANGED <<rx, phase>>
    <2>1. Consistent(f) /\ f \in HostType /\ f.state = host.state
      BY <1>1, RemoveSentReliableConsistent DEF Consistent
    <2>2. Changes(host, f, p, Slot(f, p), host.event) /\ Reordered(u, Slot(f, p))
      BY <1>1, RemoveSentReliableSlot
    <2> HIDE DEF f
    <2>3. Consistent(g)
      BY <1>4, <2>1, NotLive, LimitConsistent
    <2>4. Changes(f, g, p, x, f.event)
      BY <2>1, LimitedSlot
    <2>5. /\ x.state = Slot(f, p).state /\ x.acks = Slot(f, p).acks
          /\ x.dispatched = Slot(f, p).dispatched
      BY DEF Slot
    <2> HIDE DEF g, x
    <2>6. Slot(g, p) = x /\ g.event = NoEvent /\ g.state[p] = "CONNECTING"
          /\ \A q \in Peers \ {p} : Slot(g, q) = Slot(host, q)
      <3>1. x.state = "CONNECTING"
        BY <1>1, <1>4, <2>2, <2>5 DEF Reordered
      <3> QED
        BY <1>1, <1>4, <2>2, <2>4, <3>1, SlotFields DEF Changes
    <2>7. Settled(x)
      BY <1>1, <1>4, <2>2, <2>5 DEF Settled, Reordered, Opening
    <2>8. /\ Changes(g, n, p, Slot(n, p), n.event)
          /\ Settled(Slot(n, p)) /\ Due(Slot(n, p))
          /\ \/ n.event = NoEvent /\ Slot(n, p).state = "CONNECTION_SUCCEEDED"
             \/ /\ n.event = Event("CONNECT", p)
                /\ Slot(n, p).state = "CONNECTED"
      BY <1>1, <2>3, <2>6, <2>7, ConnectedSettled
    <2>9. Consistent(n) /\ n \in HostType
      BY <1>1, <2>3, NotifyConnectConsistent DEF Consistent
    <2> HIDE DEF n
    <2>10. /\ Changes(n, host', p, w, n.event) /\ Settled(w) /\ Due(w)
           /\ w.state = n.state[p]
      BY <1>4, <2>8, <2>9, QueuedAcknowledgementSettled
    <2>11. Changes(host, host', p, w, host'.event) /\ host'.event = n.event
           /\ w.state = Slot(n, p).state
      BY <2>6, <2>8, <2>10, SlotFields DEF Changes
    <2> HIDE DEF w
    <2>12. Evolves(p, s, w.state, host.event, host'.event)
      BY <1>1, <1>4, <2>8, <2>11 DEF Evolves, Silent, Opening
    <2> QED
      BY <1>1, <1>2, <1>4, <2>8, <2>10, <2>11, <2>12, Received
  <1>5. CASE /\ s = "CONNECTING"
             /\ host' = DispatchState(host, p, "ZOMBIE")
             /\ EndOfDatagram(host)
    <2>1. Changes(host, host', p, Queued(u, "ZOMBIE"), host.event)
      BY <1>1, <1>5, DispatchStateSlot DEF States
    <2>2. host'.event = host.event /\ host.event = NoEvent
      BY <1>1, <1>5, <2>1 DEF Changes
    <2>3. "DISCONNECT" \notin u.acks
      BY <1>1, <1>5 DEF Settled
    <2> HIDE DEF u
    <2>4. /\ Settled(Queued(u, "ZOMBIE")) /\ Due(Queued(u, "ZOMBIE"))
          /\ Queued(u, "ZOMBIE").state = "ZOMBIE"
      BY <1>1, <2>3, QueuedSettled, QueuedDue
    <2>5. Evolves(p, s, Queued(u, "ZOMBIE").state, host.event, host'.event)
      BY <1>5, <2>2, <2>4 DEF Evolves, Silent
    <2> QED
      BY <1>1, <1>2, <1>5, <2>1, <2>2, <2>4, <2>5, Received
  <1> QED
    BY <1>3, <1>4, <1>5 DEF HandleVerifyConnect

\* What a DISCONNECT does to a slot.
LEMMA DisconnectedSettled ==
    ASSUME Consistent(host), NEW p \in Peers, NEW ack \in BOOLEAN,
           Settled(Slot(host, p)), Due(Slot(host, p))
    PROVE  LET g == Disconnected(host, p, ack)
               w == Slot(g, p)
               s == host.state[p]
           IN  /\ Changes(host, g, p, w, host.event) /\ Settled(w) /\ Due(w)
               /\ w.state \in {"DISCONNECTED", "ACKNOWLEDGING_DISCONNECT", "ZOMBIE"}
               /\ Silent(s, w.state)
               /\ s = "CONNECTED" => w.state # "DISCONNECTED"
               /\ s = "ACKNOWLEDGING_DISCONNECT" => w.state = s
               /\ s = "ZOMBIE" => w.state = s
  <1> DEFINE g == Disconnected(host, p, ack)
             v == Emptied(Slot(host, p))
             s == host.state[p]
             w == Slot(g, p)
             a == [v EXCEPT !.state = "ACKNOWLEDGING_DISCONNECT"]
  <1>1. s \in States
    BY DEF Consistent, HostType
  <1>2. v.acks = {} /\ v.state = s
    BY DEF Emptied, Slot
  <1>3. CASE \/ s \in {"CONNECTION_SUCCEEDED", "DISCONNECTING", "CONNECTING"}
             \/ s \in Live /\ ~ack
    <2>1. Changes(host, g, p, Queued(v, "ZOMBIE"), host.event)
      BY <1>3, DisconnectedSlot
    <2>2. w = Queued(v, "ZOMBIE") /\ Changes(host, g, p, w, host.event)
      BY <2>1 DEF Changes
    <2> HIDE DEF g, v, w
    <2>3. w.state = "ZOMBIE" /\ Due(w)
      BY <2>2, QueuedDue
    <2>4. w.acks = {}
      BY <1>2, <2>2 DEF Queued
    <2>5. Settled(w)
      BY <2>3, <2>4 DEF Settled, Opening
    <2>6. Silent(s, "ZOMBIE") /\ s # "ACKNOWLEDGING_DISCONNECT"
      BY <1>3 DEF Silent, Live
    <2> QED
      BY <2>2, <2>3, <2>5, <2>6 DEF g, w
  <1>4. CASE s \in {"ACKNOWLEDGING_CONNECT", "CONNECTION_PENDING"}
    <2>1. Changes(host, g, p, Fresh, host.event)
      BY <1>4, DisconnectedSlot
    <2>2. w = Fresh /\ Changes(host, g, p, w, host.event)
      BY <2>1 DEF Changes
    <2> HIDE DEF g, w
    <2>3. Silent(s, "DISCONNECTED")
      BY <1>4 DEF Silent
    <2> QED
      BY <1>4, <2>2, <2>3, FreshSettled DEF g, w
  <1>5. CASE s \in Live /\ ack
    <2>1. Changes(host, g, p, a, host.event)
      BY <1>5, DisconnectedSlot
    <2>2. w = a /\ Changes(host, g, p, w, host.event)
      BY <2>1 DEF Changes
    <2>3. a.state = "ACKNOWLEDGING_DISCONNECT"
      BY DEF Emptied
    <2> HIDE DEF a, g, w
    <2>4. Settled(w) /\ Due(w)
      BY <2>2, <2>3 DEF Settled, Due, Opening
    <2>5. Silent(s, "ACKNOWLEDGING_DISCONNECT")
      BY <1>5 DEF Silent, Live
    <2> QED
      BY <1>5, <2>2, <2>3, <2>4, <2>5 DEF g, w, Live
  <1>6. CASE s \in {"DISCONNECTED", "ACKNOWLEDGING_DISCONNECT", "ZOMBIE"}
    <2>1. g = host
      BY <1>6, DisconnectedSlot
    <2>2. /\ w = Slot(host, p) /\ Changes(host, g, p, w, host.event)
          /\ w.state = s
      BY <2>1, SlotFields DEF Changes
    <2> HIDE DEF g, w
    <2>3. Silent(s, s)
      BY DEF Silent
    <2> QED
      BY <1>6, <2>2, <2>3 DEF g, w
  <1> QED
    BY <1>1, <1>3, <1>4, <1>5, <1>6 DEF States, Live

\* enet_protocol_handle_disconnect
LEMMA HandleDisconnectSound ==
    ASSUME IInv, Sound, Held, NEW p \in Peers, NEW ack \in BOOLEAN,
           HandleDisconnect(p, ack)
    PROVE  Sound' /\ Held' /\ Moved(p)
  <1> DEFINE g == Disconnected(host, p, ack)
             s == host.state[p]
             w == Slot(host', p)
  <1>1. /\ rx = p /\ doomed' = doomed /\ rx' = rx /\ phase' = phase
        /\ Consistent(host) /\ Settled(Slot(host, p)) /\ Due(Slot(host, p))
        /\ \/ host.event = NoEvent
           \/ /\ host.event = Event("CONNECT", p)
              /\ s \in {"CONNECTED", "ACKNOWLEDGING_DISCONNECT", "ZOMBIE"}
           \/ /\ host.event = Event("DISCONNECT", p)
              /\ s = "DISCONNECTED"
    BY ReceivingQuiet DEF HandleDisconnect
  <1>2. /\ Changes(host, g, p, Slot(g, p), host.event)
        /\ Settled(Slot(g, p)) /\ Due(Slot(g, p))
        /\ Slot(g, p).state \in {"DISCONNECTED", "ACKNOWLEDGING_DISCONNECT",
                                 "ZOMBIE"}
        /\ Silent(s, Slot(g, p).state)
        /\ s = "CONNECTED" => Slot(g, p).state # "DISCONNECTED"
        /\ s = "ACKNOWLEDGING_DISCONNECT" => Slot(g, p).state = s
        /\ s = "ZOMBIE" => Slot(g, p).state = s
    BY <1>1, DisconnectedSettled
  <1>3. Consistent(g) /\ g \in HostType
    BY <1>1, DisconnectedConsistent DEF Consistent
  <1>4. host' = IF ack THEN QueueAcknowledgement(g, p, "DISCONNECT") ELSE g
    BY DEF HandleDisconnect
  <1> HIDE DEF g
  <1>5. g.state[p] = Slot(g, p).state
    BY SlotFields
  <1>6. /\ Changes(g, host', p, w, g.event) /\ Settled(w) /\ Due(w)
        /\ w.state = Slot(g, p).state
    <2>1. CASE ack
      BY <1>2, <1>3, <1>4, <1>5, <2>1, QueuedAcknowledgementSettled
    <2>2. CASE ~ack
      BY <1>2, <1>4, <2>2 DEF Changes
    <2> QED
      BY <2>1, <2>2
  <1>7. Changes(host, host', p, w, host'.event) /\ host'.event = host.event
    BY <1>2, <1>6 DEF Changes
  <1> HIDE DEF w
  <1>8. Evolves(p, s, w.state, host.event, host'.event)
    BY <1>2, <1>6, <1>7 DEF Evolves
  <1>9. s = "DISCONNECTED" /\ host.event = Event("DISCONNECT", p)
            => w.state = "DISCONNECTED"
    <2>1. s = "DISCONNECTED" => Slot(g, p).state = "DISCONNECTED"
      BY <1>2 DEF Silent
    <2> QED
      BY <1>6, <2>1
  <1>10. /\ NoEvent # Event("CONNECT", p) /\ NoEvent # Event("DISCONNECT", p)
         /\ NoEvent # Event("RECEIVE", p)
         /\ Event("CONNECT", p) # Event("RECEIVE", p)
         /\ Event("CONNECT", p) # Event("DISCONNECT", p)
         /\ Event("DISCONNECT", p) # Event("RECEIVE", p)
    BY DEF Event, NoEvent
  <1>11. host.event = Event("CONNECT", p) =>
            w.state \in {"CONNECTED", "ACKNOWLEDGING_DISCONNECT", "ZOMBIE"}
    BY <1>1, <1>2, <1>6, <1>10
  <1> QED
    BY <1>1, <1>6, <1>7, <1>8, <1>9, <1>10, <1>11, Received

\* A command only a live peer may send.
LEMMA HandleLiveSound ==
    ASSUME IInv, Sound, Held, NEW p \in Peers, NEW h, HandleLive(p, h),
           NEW g, NEW ack \in BOOLEAN,
           h = IF ack THEN QueueAcknowledgement(g, p, "OTHER") ELSE g,
           host.state[p] \in Live =>
               /\ Consistent(g) /\ Changes(host, g, p, Slot(g, p), host.event)
               /\ Settled(Slot(g, p)) /\ Due(Slot(g, p))
               /\ g.state[p] = host.state[p]
    PROVE  Sound' /\ Held' /\ Moved(p)
  <1> DEFINE s == host.state[p]
  <1>1. /\ rx = p /\ doomed' = doomed
        /\ Settled(Slot(host, p)) /\ Due(Slot(host, p))
        /\ Slot(host, p).state = s
        /\ \/ host.event = NoEvent
           \/ /\ host.event = Event("CONNECT", p)
              /\ s \in {"CONNECTED", "ACKNOWLEDGING_DISCONNECT", "ZOMBIE"}
           \/ /\ host.event = Event("DISCONNECT", p)
              /\ s = "DISCONNECTED"
    BY ReceivingQuiet DEF HandleLive
  <1>2. /\ NoEvent # Event("CONNECT", p) /\ NoEvent # Event("DISCONNECT", p)
        /\ NoEvent # Event("RECEIVE", p)
        /\ Event("CONNECT", p) # Event("RECEIVE", p)
        /\ Event("CONNECT", p) # Event("DISCONNECT", p)
        /\ Event("DISCONNECT", p) # Event("RECEIVE", p)
    BY DEF Event, NoEvent
  <1>3. Evolves(p, s, s, host.event, host.event)
    BY DEF Evolves, Silent
  <1>4. CASE s \in Live /\ ack
    <2>1. host' = QueueAcknowledgement(g, p, "OTHER") /\ UNCHANGED <<rx, phase>>
      BY <1>4 DEF HandleLive
    <2>2. /\ \A q \in Peers \ {p} : Slot(g, q) = Slot(host, q)
          /\ g.event = host.event
      BY <1>4 DEF Changes
    <2> QED
      BY <1>1, <1>4, <2>1, <2>2, OnlyAcknowledged
  <1>5. CASE s \in Live /\ ~ack
    <2>1. host' = g /\ UNCHANGED <<rx, phase>>
      BY <1>5 DEF HandleLive
    <2>2. /\ Changes(host, host', p, Slot(g, p), host'.event)
          /\ host'.event = host.event /\ Slot(g, p).state = s
      BY <1>5, <2>1, SlotFields DEF Changes
    <2> QED
      BY <1>1, <1>2, <1>3, <1>5, <2>1, <2>2, Received
  <1>6. CASE s \notin Live
    <2>1. host' = host /\ EndOfDatagram(host)
      BY <1>6 DEF HandleLive
    <2>2. /\ Changes(host, host', p, Slot(host, p), host'.event)
          /\ host'.event = host.event
      BY <2>1 DEF Changes
    <2> QED
      BY <1>1, <1>2, <1>3, <2>1, <2>2, Received
  <1> QED
    BY <1>4, <1>5, <1>6

\* enet_protocol_handle_ping
LEMMA HandlePingSound ==
    ASSUME IInv, Sound, Held, NEW p \in Peers, HandlePing(p)
    PROVE  Sound' /\ Held' /\ Moved(p)
  <1>1. rx = p /\ HandleLive(p, QueueAcknowledgement(host, p, "OTHER"))
    BY DEF HandlePing, HandleLive
  <1>2. /\ Consistent(host) /\ Changes(host, host, p, Slot(host, p), host.event)
        /\ Settled(Slot(host, p)) /\ Due(Slot(host, p))
    BY <1>1, ReceivingQuiet DEF Changes
  <1>3. TRUE \in BOOLEAN
    OBVIOUS
  <1> QED
    BY <1>1, <1>2, <1>3, HandleLiveSound

\* enet_protocol_handle_bandwidth_limit
LEMMA HandleBandwidthLimitSound ==
    ASSUME IInv, Sound, Held, NEW p \in Peers, NEW lim \in BOOLEAN,
           HandleBandwidthLimit(p, lim)
    PROVE  Sound' /\ Held' /\ Moved(p)
  <1> DEFINE g == [host EXCEPT !.bandwidthLimitedPeers =
                                   @ - One(host.limited[p]) + One(lim),
                               !.limited[p] = lim]
             v == Slot(host, p)
             w == [v EXCEPT !.limited = lim]
  <1>1. /\ Consistent(host) /\ host \in HostType
        /\ Settled(v) /\ Due(v) /\ v.state = host.state[p]
    BY ReceivingQuiet DEF HandleBandwidthLimit, HandleLive
  <1>2. host.state[p] \in Live => Consistent(g)
    BY <1>1, BandwidthLimitConsistent
  <1>3. Changes(host, g, p, w, host.event)
    BY <1>1, BandwidthLimitSlot
  <1>4. HandleLive(p, QueueAcknowledgement(g, p, "OTHER"))
    BY DEF HandleBandwidthLimit
  <1> HIDE DEF g
  <1>5. Slot(g, p) = w /\ Changes(host, g, p, Slot(g, p), host.event)
    BY <1>3 DEF Changes
  <1>6. /\ w.state = v.state /\ w.acks = v.acks /\ w.dispatched = v.dispatched
        /\ Awaited(w) = Awaited(v)
    BY DEF Slot, Awaited
  <1>7. w.needsDispatch = v.needsDispatch /\ w.unreliable = v.unreliable
    BY DEF Slot
  <1> HIDE DEF v, w
  <1>8. ASSUME host.state[p] \in Live
        PROVE  Settled(w) /\ Due(w) /\ g.state[p] = host.state[p]
    <2>1. Settled(w)
      BY <1>1, <1>6, <1>7, <1>8 DEF Settled, Live, Opening
    <2>2. Due(w)
      BY <1>1, <1>6, <1>7 DEF Due
    <2>3. g.state[p] = host.state[p]
      BY <1>1, <1>5, <1>6, SlotFields
    <2> QED
      BY <2>1, <2>2, <2>3
  <1>9. TRUE \in BOOLEAN
    OBVIOUS
  <1> QED
    BY <1>2, <1>4, <1>5, <1>8, <1>9, HandleLiveSound

\* The handlers of the SEND commands.
LEMMA HandleSendSound ==
    ASSUME IInv, Sound, Held, NEW p \in Peers, NEW n \in 0 .. MaxDispatched,
           NEW ack \in BOOLEAN, HandleSend(p, n, ack)
    PROVE  Sound' /\ Held' /\ Moved(p)
  <1> DEFINE g == DispatchPackets(host, p, n)
             h == IF ack THEN QueueAcknowledgement(g, p, "OTHER") ELSE g
             s == host.state[p]
             v == Slot(host, p)
             m == host.dispatched[p] + n
             x == [v EXCEPT !.dispatched = m]
  <1>1. /\ n \in Nat /\ n <= MaxDispatched - host.dispatched[p]
        /\ s = "DISCONNECT_LATER" => n = 0
        /\ HandleLive(p, h)
    BY BoundsAssumption DEF HandleSend
  <1>2. /\ Consistent(host) /\ host \in HostType
        /\ Settled(v) /\ Due(v) /\ v.state = s
    BY <1>1, ReceivingQuiet DEF HandleLive
  <1>3. Consistent(g)
    BY <1>1, <1>2, DispatchPacketsConsistent
  <1>4. /\ n = 0 => g = host
        /\ n # 0 => Changes(host, g, p, Queued(x, s), host.event)
    BY <1>1, <1>2, DispatchPacketsSlot
  <1> HIDE DEF g
  <1>5. ASSUME s \in Live
        PROVE  /\ Changes(host, g, p, Slot(g, p), host.event)
               /\ Settled(Slot(g, p)) /\ Due(Slot(g, p)) /\ g.state[p] = s
    <2>1. CASE n = 0
      BY <1>2, <1>4, <2>1 DEF Changes
    <2>2. CASE n # 0
      <3>1. Slot(g, p) = Queued(x, s) /\ Changes(host, g, p, Slot(g, p), host.event)
        BY <1>4, <2>2 DEF Changes
      <3>2. x.state = v.state /\ x.acks = v.acks /\ s = "CONNECTED"
        BY <1>1, <1>5, <2>2 DEF Slot, Live
      <3> HIDE DEF x, v
      <3>3. Settled(x)
        BY <1>2, <3>2 DEF Settled, Opening
      <3> HIDE DEF s
      <3>4. Settled(Queued(x, s)) /\ Due(Queued(x, s)) /\ Queued(x, s).state = s
        BY <1>2, <3>2, <3>3, QueuedSettled, QueuedDue
      <3> QED
        BY <3>1, <3>4, SlotFields
    <2> QED
      BY <2>1, <2>2
  <1> QED
    BY <1>1, <1>3, <1>5, HandleLiveSound

\* Any command.
LEMMA HandleSound ==
    ASSUME IInv, Sound, Held, NEW p \in Peers, Handle(p)
    PROVE  Sound' /\ Held' /\ Moved(p)
  BY LimitsAssumption, HandleAcknowledgeSound, HandleVerifyConnectSound,
     HandleDisconnectSound, HandlePingSound, HandleBandwidthLimitSound,
     HandleSendSound DEF Handle

-----------------------------------------------------------------------------
(***************************************************************************)
(* Every step.                                                             *)
(***************************************************************************)

\* enet_host_create
LEMMA InitSound == Init => Sound /\ Held
  <1> SUFFICES ASSUME Init
               PROVE  Sound /\ Held
    OBVIOUS
  <1>1. /\ doomed = NoPeer /\ rx = NoPeer
        /\ host.event = NoEvent
        /\ \A p \in Peers : Slot(host, p) = Fresh
    BY DEF Init, Slot, Fresh
  <1>2. Sound
    BY <1>1, FreshSettled DEF Sound
  <1> QED
    BY <1>1, <1>2 DEF Held, FlushHeld, EventHeld

\* The steps by which the history of a connection changes.
Recorded == told' = told /\ initiator' = initiator

\* The application's calls: one starts a connection.
LEMMA ApplicationSound ==
    ASSUME IInv, Sound, Held, NEW p \in Peers, Application(p)
    PROVE  Sound' /\ Held' /\ (Opened(p, TRUE) \/ (Moved(p) /\ Recorded))
  <1>1. CASE Connect(p)
    BY <1>1, ConnectSound
  <1>2. CASE \E reliable \in Sends : Send(p, reliable)
    BY <1>2, SendsAssumption, SendSound DEF Send, Recorded, history
  <1>3. CASE Disconnect(p)
    BY <1>3, DisconnectSound DEF Disconnect, Recorded, history
  <1>4. CASE DisconnectLater(p)
    BY <1>4, DisconnectLaterSound DEF DisconnectLater, Disconnect, Recorded, history
  <1>5. CASE DisconnectNow(p)
    BY <1>5, DisconnectNowSound DEF DisconnectNow, Recorded, history
  <1> QED
    BY <1>1, <1>2, <1>3, <1>4, <1>5 DEF Application

\* enet_protocol_dispatch_incoming_commands and the return of its event.
LEMMA DispatchSound ==
    ASSUME IInv, Sound, Held, Dispatch
    PROVE  /\ Sound' /\ Held'
           /\ \/ Steady /\ Recorded
              \/ \E p \in Peers : Moved(p) /\ Recorded
              \/ \E p \in Peers : Delivered /\ Deliver(p)
  <1>1. CASE DispatchDone
    BY <1>1, DispatchDoneSound DEF DispatchDone, Recorded, history
  <1>2. ASSUME NEW p \in Peers, DispatchNext(p)
        PROVE  Sound' /\ Held' /\ Moved(p) /\ Recorded
    BY <1>2, DispatchNextSound DEF DispatchNext, Recorded, history
  <1>3. ASSUME NEW p \in Peers, Deliver(p)
        PROVE  Sound' /\ Held' /\ Delivered
    BY <1>3, DeliverSound
  <1> QED
    BY <1>1, <1>2, <1>3 DEF Dispatch

\* enet_protocol_send_outgoing_commands
LEMMA SendOutgoingSound ==
    ASSUME IInv, Sound, Held, SendOutgoing
    PROVE  /\ Sound' /\ Held' /\ Recorded
           /\ Steady \/ \E p \in Peers : Moved(p)
  <1>1. CASE SendDone
    BY <1>1, SendDoneSound DEF SendDone, Recorded, history
  <1>2. ASSUME NEW p \in Peers, SkipPeer(p)
        PROVE  Sound' /\ Held' /\ Steady /\ Recorded
    BY <1>2, SkipPeerSound DEF SkipPeer, Recorded, history
  <1>3. ASSUME NEW p \in Peers, NEW expired \in SUBSET host.sent[p],
               NEW ping \in BOOLEAN, NEW fails \in BOOLEAN,
               SendTo(p, expired, ping, fails)
        PROVE  Sound' /\ Held' /\ Moved(p) /\ Recorded
    BY <1>3, SendToSound DEF SendTo, Recorded, history
  <1>4. ASSUME NEW p \in Peers, GiveUp(p)
        PROVE  Sound' /\ Held' /\ Moved(p) /\ Recorded
    BY <1>4, GiveUpSound DEF GiveUp, Recorded, history
  <1> QED
    BY <1>1, <1>2, <1>3, <1>4 DEF SendOutgoing

\* enet_protocol_receive_incoming_commands
LEMMA ReceiveSound ==
    ASSUME IInv, Sound, Held, Receive
    PROVE  /\ Sound' /\ Held'
           /\ \/ Steady /\ Recorded
              \/ \E p \in Peers : Opened(p, FALSE) \/ (Moved(p) /\ Recorded)
  <1>1. ASSUME NEW p \in Peers, ReceiveDatagram(p)
        PROVE  Sound' /\ Held' /\ Steady /\ Recorded
    BY <1>1, ReceiveDatagramSound DEF ReceiveDatagram, Recorded, history
  <1>2. CASE EndDatagram
    BY <1>2, EndDatagramSound DEF EndDatagram, Recorded, history
  <1>3. CASE ReceiveDone
    BY <1>3, ReceiveDoneSound DEF ReceiveDone, Recorded, history
  <1>4. ASSUME NEW p \in Peers, NEW lim \in Limits, HandleConnect(p, lim)
        PROVE  Sound' /\ Held' /\ Opened(p, FALSE)
    BY <1>4, LimitsAssumption, HandleConnectSound
  <1>5. ASSUME NEW p \in Peers, Handle(p)
        PROVE  Sound' /\ Held' /\ Moved(p) /\ Recorded
    <2>1. Recorded
      BY <1>5 DEF Handle, HandleAcknowledge, HandleVerifyConnect, HandleDisconnect,
                  HandlePing, HandleBandwidthLimit, HandleSend, HandleLive,
                  Recorded, history
    <2> QED
      BY <1>5, <2>1, HandleSound
  <1> QED
    BY <1>1, <1>2, <1>3, <1>4, <1>5 DEF Receive

\* Every step starts a connection, delivers an event, or moves at most one peer
\* along the state diagram and sets at most its event.
LEMMA StepSound ==
    ASSUME IInv, Sound, Held, [Next]_vars
    PROVE  /\ Sound' /\ Held'
           /\ \/ Steady /\ Recorded
              \/ \E p \in Peers : Moved(p) /\ Recorded
              \/ \E p \in Peers, mine \in BOOLEAN : Opened(p, mine)
              \/ \E p \in Peers : Delivered /\ Deliver(p)
  <1>1. CASE \E p \in Peers : Application(p)
    BY <1>1, ApplicationSound
  <1>2. CASE Service
    BY <1>2, ServiceSound DEF Service, Recorded, history
  <1>3. CASE BandwidthThrottle
    BY <1>3, BandwidthThrottleSound DEF BandwidthThrottle, Recorded, history
  <1>4. CASE Dispatch
    BY <1>4, DispatchSound
  <1>5. CASE SendOutgoing
    BY <1>5, SendOutgoingSound
  <1>6. CASE Receive
    BY <1>6, ReceiveSound
  <1>7. CASE UNCHANGED vars
    <2>1. host' = host /\ doomed' = doomed /\ phase' = phase /\ rx' = rx
          /\ told' = told /\ initiator' = initiator
      BY <1>7 DEF vars
    <2>2. Held'
      BY <2>1 DEF Held, FlushHeld, EventHeld
    <2> QED
      BY <2>1, <2>2, SameHost DEF Recorded
  <1> QED
    BY <1>1, <1>2, <1>3, <1>4, <1>5, <1>6, <1>7 DEF Next

-----------------------------------------------------------------------------
(***************************************************************************)
(* What the application has heard.                                         *)
(***************************************************************************)

\* The states a peer leaves only for ZOMBIE or DISCONNECTED.
Leaving == {"DISCONNECTING", "ACKNOWLEDGING_DISCONNECT", "ZOMBIE"}

\* What was told of the connection in slot p; an event that is set counts too.
HeardOf(p) ==
    LET s == host.state[p]
        confirmed == "CONNECT" \in told[p] \/ host.event = Event("CONNECT", p)
    IN  /\ s # "DISCONNECTED" => "DISCONNECT" \notin told[p]
        /\ s \in Opening => told[p] = {} /\ host.event # Event("CONNECT", p)
        /\ s \in {"CONNECTING", "CONNECTION_SUCCEEDED"} => initiator[p]
        /\ s \in Live => confirmed
        /\ s \in Leaving => confirmed \/ initiator[p]

\* The event that is set is in order.
EventOf(p) ==
    /\ host.event.peer = p /\ host.event # NoEvent =>
           "DISCONNECT" \notin told[p]
    /\ host.event = Event("CONNECT", p) => "CONNECT" \notin told[p]
    /\ host.event = Event("RECEIVE", p) => "CONNECT" \in told[p]
    /\ host.event = Event("DISCONNECT", p) =>
           "CONNECT" \in told[p] \/ initiator[p]

Heard == \A p \in Peers : HeardOf(p) /\ EventOf(p)

\* The inductive invariant.
Safe == IInv /\ Sound /\ Held /\ Heard

\* Every state is one of these.
LEMMA StateKinds ==
    ASSUME host \in HostType, NEW p \in Peers
    PROVE  host.state[p] \in Opening \cup Live \cup Leaving \cup {"DISCONNECTED"}
  BY DEF HostType, States, Opening, Live, Leaving

\* The events of one peer, which differ.
LEMMA EventsDiffer ==
    ASSUME NEW p
    PROVE  /\ NoEvent # Event("CONNECT", p) /\ NoEvent # Event("DISCONNECT", p)
           /\ NoEvent # Event("RECEIVE", p)
           /\ Event("CONNECT", p) # Event("RECEIVE", p)
           /\ Event("CONNECT", p) # Event("DISCONNECT", p)
           /\ Event("DISCONNECT", p) # Event("RECEIVE", p)
           /\ \A t, u, q : Event(t, p) = Event(u, q) => p = q
           /\ Event("CONNECT", p).peer = p /\ Event("RECEIVE", p).peer = p
           /\ Event("DISCONNECT", p).peer = p
  BY DEF Event, NoEvent

\* A peer whose state, history and event a step leaves alone.
LEMMA HeardElsewhere ==
    ASSUME Heard, NEW q \in Peers, host'.state[q] = host.state[q],
           told'[q] = told[q], initiator'[q] = initiator[q],
           \/ host'.event = host.event
           \/ /\ host.event = NoEvent
              /\ \E p \in Peers \ {q} :
                    host'.event \in {Event("CONNECT", p), Event("RECEIVE", p),
                                     Event("DISCONNECT", p)}
    PROVE  HeardOf(q)' /\ EventOf(q)'
  <1>1. HeardOf(q) /\ EventOf(q)
    BY DEF Heard
  <1>2. CASE host'.event = host.event
    <2>1. HeardOf(q)'
      BY <1>1, <1>2 DEF HeardOf
    <2>2. EventOf(q)'
      BY <1>1, <1>2 DEF EventOf
    <2> QED
      BY <2>1, <2>2
  <1>3. ASSUME NEW p \in Peers \ {q}, host.event = NoEvent,
               host'.event \in {Event("CONNECT", p), Event("RECEIVE", p),
                                Event("DISCONNECT", p)}
        PROVE  HeardOf(q)' /\ EventOf(q)'
    <2>1. /\ host'.event.peer = p
          /\ host'.event \notin {Event("CONNECT", q), Event("RECEIVE", q),
                                 Event("DISCONNECT", q)}
          /\ host.event # Event("CONNECT", q)
      BY <1>3, EventsDiffer
    <2>2. HeardOf(q)'
      BY <1>1, <1>3, <2>1 DEF HeardOf
    <2>3. EventOf(q)'
      BY <2>1 DEF EventOf
    <2> QED
      BY <2>2, <2>3
  <1> QED
    BY <1>2, <1>3

\* One step of the state diagram.
LEMMA MovedHeard ==
    ASSUME host \in HostType, Heard, NEW p \in Peers, Moved(p), Recorded
    PROVE  Heard'
  <1> DEFINE s == host.state[p]
             t == host'.state[p]
             e == host.event
             f == host'.event
  <1>1. /\ Evolves(p, s, t, e, f)
        /\ told'[p] = told[p] /\ initiator'[p] = initiator[p]
        /\ HeardOf(p) /\ EventOf(p)
    BY DEF Moved, Recorded, Heard
  <1>2. HeardOf(p)' /\ EventOf(p)'
    <2>1. CASE f = e /\ Silent(s, t)
      <3>1. \/ t = s
            \/ t = "DISCONNECTED"
            \/ s = "CONNECTING" /\ t = "CONNECTION_SUCCEEDED"
            \/ s = "ACKNOWLEDGING_CONNECT" /\ t = "CONNECTION_PENDING"
            \/ s \in {"CONNECTING", "CONNECTION_SUCCEEDED"} /\ t \in Leaving
            \/ s \in Live /\ t \in Live
            \/ s \in Live \cup Leaving /\ t \in Leaving
        BY <2>1 DEF Silent, Live, Leaving
      <3>2. HeardOf(p)'
        BY <1>1, <2>1, <3>1 DEF HeardOf, Opening, Live, Leaving
      <3>3. EventOf(p)'
        BY <1>1, <2>1 DEF EventOf
      <3> QED
        BY <3>2, <3>3
    <2>2. CASE /\ e = NoEvent /\ f = Event("CONNECT", p)
               /\ s \in Opening /\ t = "CONNECTED"
      <3>1. told[p] = {}
        BY <1>1, <2>2 DEF HeardOf
      <3>2. HeardOf(p)'
        BY <1>1, <2>2, <3>1 DEF HeardOf, Opening, Live, Leaving
      <3>3. EventOf(p)'
        BY <1>1, <2>2, <3>1, EventsDiffer DEF EventOf
      <3> QED
        BY <3>2, <3>3
    <2>3. CASE /\ e = NoEvent /\ f = Event("RECEIVE", p)
               /\ s = "CONNECTED" /\ t = "CONNECTED"
      <3>1. "CONNECT" \in told[p] /\ "DISCONNECT" \notin told[p]
        BY <1>1, <2>3, EventsDiffer DEF HeardOf, Live
      <3>2. HeardOf(p)'
        BY <1>1, <2>3, <3>1 DEF HeardOf, Opening, Live, Leaving
      <3>3. EventOf(p)'
        BY <1>1, <2>3, <3>1, EventsDiffer DEF EventOf
      <3> QED
        BY <3>2, <3>3
    <2>4. CASE /\ e = NoEvent /\ f = Event("DISCONNECT", p)
               /\ s \notin {"DISCONNECTED", "ACKNOWLEDGING_CONNECT",
                            "CONNECTION_PENDING"}
               /\ t = "DISCONNECTED"
      <3>1. /\ "CONNECT" \in told[p] \/ initiator[p]
            /\ "DISCONNECT" \notin told[p]
        <4>1. s \in {"CONNECTING", "CONNECTION_SUCCEEDED"} \cup Live \cup Leaving
          BY <2>4, StateKinds DEF Opening
        <4>2. e # Event("CONNECT", p)
          BY <2>4, EventsDiffer
        <4> QED
          BY <1>1, <2>4, <4>1, <4>2 DEF HeardOf
      <3>2. HeardOf(p)'
        BY <2>4 DEF HeardOf, Opening, Live, Leaving
      <3>3. EventOf(p)'
        BY <1>1, <2>4, <3>1, EventsDiffer DEF EventOf
      <3> QED
        BY <3>2, <3>3
    <2> QED
      BY <1>1, <2>1, <2>2, <2>3, <2>4 DEF Evolves
  <1>3. \/ f = e
        \/ e = NoEvent /\ f \in {Event("CONNECT", p), Event("RECEIVE", p),
                                 Event("DISCONNECT", p)}
    BY <1>1 DEF Evolves
  <1>4. ASSUME NEW q \in Peers \ {p}
        PROVE  HeardOf(q)' /\ EventOf(q)'
    BY <1>3, HeardElsewhere DEF Moved, Recorded
  <1> QED
    BY <1>2, <1>4 DEF Heard

\* A new connection has no history.
LEMMA OpenedHeard ==
    ASSUME IInv, Heard, NEW p \in Peers, NEW mine \in BOOLEAN, Opened(p, mine)
    PROVE  Heard'
  <1>1. /\ told \in [Peers -> SUBSET {"CONNECT", "DISCONNECT"}]
        /\ initiator \in [Peers -> BOOLEAN]
    BY DEF IInv, Control
  <1>2. /\ told' = [told EXCEPT ![p] = {}]
        /\ initiator' = [initiator EXCEPT ![p] = mine]
    BY DEF Opened, NewConnection
  <1>3. told'[p] = {} /\ (mine => initiator'[p])
        /\ \A q \in Peers \ {p} : told'[q] = told[q] /\ initiator'[q] = initiator[q]
    BY <1>1, <1>2
  <1>4. /\ host.event = NoEvent /\ host'.event = NoEvent
        /\ host'.state[p] = IF mine THEN "CONNECTING" ELSE "ACKNOWLEDGING_CONNECT"
        /\ \A q \in Peers \ {p} : host'.state[q] = host.state[q]
    BY DEF Opened
  <1>5. HeardOf(p)' /\ EventOf(p)'
    <2>1. HeardOf(p)'
      BY <1>3, <1>4, EventsDiffer DEF HeardOf, Opening, Live, Leaving
    <2>2. EventOf(p)'
      BY <1>4, EventsDiffer DEF EventOf
    <2> QED
      BY <2>1, <2>2
  <1>6. ASSUME NEW q \in Peers \ {p}
        PROVE  HeardOf(q)' /\ EventOf(q)'
    BY <1>3, <1>4, HeardElsewhere
  <1> QED
    BY <1>5, <1>6 DEF Heard

\* The event becomes part of the history.
LEMMA DeliveredHeard ==
    ASSUME IInv, Held, Heard, NEW p \in Peers, Delivered, Deliver(p)
    PROVE  Heard'
  <1>1. /\ told \in [Peers -> SUBSET {"CONNECT", "DISCONNECT"}]
        /\ host.event \in Events /\ initiator' = initiator
        /\ host.event.peer = p
    BY DEF IInv, Control, Consistent, HostType, Deliver
  <1>2. /\ host'.event = NoEvent /\ host'.state = host.state
        /\ host'.event # Event("CONNECT", p)
    BY EventsDiffer DEF Delivered
  <1>3. \A q \in Peers : EventOf(q)'
    BY <1>2, EventsDiffer DEF EventOf
  <1>4. p # NoPeer /\ host.event # NoEvent
    BY <1>1, PeerCountAssumption DEF NoEvent, Event, NoPeer, Peers
  <1>5. host.event \in {Event("CONNECT", p), Event("RECEIVE", p),
                        Event("DISCONNECT", p)}
    BY <1>1, <1>4 DEF Events, Event
  <1>6. HeardOf(p) /\ EventOf(p)
    BY DEF Heard
  <1>7. HeardOf(p)'
    <2>1. CASE host.event = Event("RECEIVE", p)
      <3>1. told' = told
        BY <2>1 DEF Deliver, Event
      <3> QED
        BY <1>1, <1>2, <1>6, <2>1, <3>1, EventsDiffer DEF HeardOf
    <2>2. CASE host.event = Event("CONNECT", p)
      <3>1. told'[p] = told[p] \cup {"CONNECT"}
        BY <1>1, <2>2 DEF Deliver, Event
      <3> QED
        BY <1>1, <1>2, <1>6, <2>2, <3>1 DEF HeardOf, Opening, Live, Leaving
    <2>3. CASE host.event = Event("DISCONNECT", p)
      <3>1. phase = "deliver"
        BY DEF Delivered
      <3>2. host.state[p] = "DISCONNECTED"
        BY <2>3, <3>1, <1>4 DEF Held, EventHeld
      <3> QED
        BY <1>2, <3>2 DEF HeardOf, Opening, Live, Leaving
    <2> QED
      BY <1>5, <2>1, <2>2, <2>3
  <1>8. ASSUME NEW q \in Peers \ {p}
        PROVE  HeardOf(q)'
    <2>1. told'[q] = told[q]
      BY <1>1 DEF Deliver
    <2>2. host.event # Event("CONNECT", q)
      BY <1>5, EventsDiffer
    <2> QED
      BY <1>1, <1>2, <2>1, <2>2, EventsDiffer DEF Heard, HeardOf
  <1> QED
    BY <1>3, <1>7, <1>8 DEF Heard

\* Nothing was told yet.
LEMMA InitHeard == Init => Heard
  <1> SUFFICES ASSUME Init, NEW p \in Peers
               PROVE  HeardOf(p) /\ EventOf(p)
    BY DEF Heard
  <1>1. host.state[p] = "DISCONNECTED" /\ host.event = NoEvent
    BY DEF Init
  <1>2. HeardOf(p)
    BY <1>1 DEF HeardOf, Opening, Live, Leaving
  <1>3. EventOf(p)
    BY <1>1, EventsDiffer DEF EventOf
  <1> QED
    BY <1>2, <1>3

\* Every step keeps the invariant.
LEMMA StepSafe == Safe /\ [Next]_vars => Safe'
  <1> SUFFICES ASSUME Safe, [Next]_vars
               PROVE  Safe'
    OBVIOUS
  <1>1. IInv'
    BY StepInvariant DEF Safe
  <1>2. /\ Sound' /\ Held'
        /\ \/ Steady /\ Recorded
           \/ \E p \in Peers : Moved(p) /\ Recorded
           \/ \E p \in Peers, mine \in BOOLEAN : Opened(p, mine)
           \/ \E p \in Peers : Delivered /\ Deliver(p)
    BY StepSound DEF Safe
  <1>3. CASE Steady /\ Recorded
    <2>1. Heard'
      BY <1>3, HeardElsewhere DEF Safe, Heard, Steady, Recorded
    <2> QED
      BY <1>1, <1>2, <2>1 DEF Safe
  <1>4. CASE \E p \in Peers : Moved(p) /\ Recorded
    BY <1>1, <1>2, <1>4, MovedHeard DEF Safe, IInv, Consistent
  <1>5. CASE \E p \in Peers, mine \in BOOLEAN : Opened(p, mine)
    BY <1>1, <1>2, <1>5, OpenedHeard DEF Safe
  <1>6. CASE \E p \in Peers : Delivered /\ Deliver(p)
    BY <1>1, <1>2, <1>6, DeliveredHeard DEF Safe
  <1> QED
    BY <1>2, <1>3, <1>4, <1>5, <1>6

\* The inductive invariant is one.
THEOREM Safety == Spec => []Safe
  <1>1. Init => Safe
    BY InitInvariant, InitSound, InitHeard DEF Safe
  <1> QED
    BY <1>1, StepSafe, PTL DEF Spec

-----------------------------------------------------------------------------
(***************************************************************************)
(* The properties.                                                         *)
(***************************************************************************)

\* An event that is owed to the application cannot be forgotten: the peer is in
\* the dispatch queue, whichever path led to its state.
THEOREM NoEventForgotten == Spec => []OwedEventIsQueued
  <1>1. Safe => OwedEventIsQueued
    <2> SUFFICES ASSUME Safe, NEW p \in Peers,
                        \/ host.state[p] \in {"CONNECTION_PENDING", "ZOMBIE",
                                              "CONNECTION_SUCCEEDED"}
                        \/ host.state[p] = "CONNECTED" /\ host.dispatched[p] > 0
                 PROVE  host.needsDispatch[p] \/ doomed = p
      BY DEF OwedEventIsQueued
    <2>1. Due(Slot(host, p)) \/ doomed = p
      BY SoundSlot DEF Safe
    <2> QED
      BY <2>1, SlotFields DEF Due
  <1> QED
    BY <1>1, Safety, PTL

\* A slot that is reused starts clean, whichever path freed it.
THEOREM ReusedSlotIsClean == Spec => []DisconnectedIsClean
  <1>1. Safe => DisconnectedIsClean
    <2> SUFFICES ASSUME Safe, NEW p \in Peers, host.state[p] = "DISCONNECTED"
                 PROVE  /\ Outstanding(host, p) = {} /\ host.acks[p] = {}
                        /\ ~host.unreliable[p] /\ ~host.limited[p]
                        /\ host.dispatched[p] = 0 /\ ~host.needsDispatch[p]
                        /\ host.strikes[p] = 0
      BY DEF DisconnectedIsClean
    <2>1. Slot(host, p) = Fresh
      BY SoundSlot DEF Safe, Settled
    <2>2. ~host.unreliable[p] /\ ~host.limited[p] /\ ~host.needsDispatch[p]
      BY <2>1, SlotFields, FreshFields
    <2>3. Outstanding(host, p) = {} /\ host.acks[p] = {}
      BY <2>1, SlotFields, FreshFields DEF Awaited, Outstanding
    <2>4. host.dispatched[p] = 0 /\ host.strikes[p] = 0
      BY <2>1, SlotFields, FreshFields
    <2> QED
      BY <2>2, <2>3, <2>4
  <1> QED
    BY <1>1, Safety, PTL

\* A disconnection that was put off always has something that will start it.
THEOREM LaterAlwaysWaits == Spec => []LaterIsWaiting
  <1>1. Safe => LaterIsWaiting
    <2> SUFFICES ASSUME Safe, NEW p \in Peers,
                        host.state[p] = "DISCONNECT_LATER"
                 PROVE  host.unreliable[p] \/ ~Drained(host, p)
      BY DEF LaterIsWaiting
    <2>1. Slot(host, p).unreliable \/ Awaited(Slot(host, p)) # {}
      BY SoundSlot DEF Safe, Settled
    <2>2. CASE Slot(host, p).unreliable
      BY <2>2, SlotFields
    <2>3. CASE Awaited(Slot(host, p)) # {}
      BY <2>3, SlotFields DEF Awaited, Drained
    <2> QED
      BY <2>1, <2>2, <2>3
  <1> QED
    BY <1>1, Safety, PTL

\* An event that is set is one of a peer.
LEMMA EventPeer ==
    ASSUME host \in HostType, host.event # NoEvent
    PROVE  \E p \in Peers : /\ host.event.peer = p
                            /\ host.event \in {Event("CONNECT", p),
                                               Event("RECEIVE", p),
                                               Event("DISCONNECT", p)}
  BY DEF HostType, Events, Event

\* The application hears of a connection in order: CONNECT, then packets, then
\* DISCONNECT, each of the ends once.
THEOREM EventsInOrder == Spec => []EventOrder
  <1>1. Safe => EventOrder
    <2> SUFFICES ASSUME Safe, host.event # NoEvent
                 PROVE  LET e == host.event
                            heard == told[e.peer]
                        IN  /\ "DISCONNECT" \notin heard
                            /\ e.type = "CONNECT" => "CONNECT" \notin heard
                            /\ e.type = "RECEIVE" => "CONNECT" \in heard
                            /\ e.type = "DISCONNECT" =>
                                   "CONNECT" \in heard \/ initiator[e.peer]
      BY DEF EventOrder
    <2>1. PICK p \in Peers :
             /\ host.event.peer = p
             /\ host.event \in {Event("CONNECT", p), Event("RECEIVE", p),
                                Event("DISCONNECT", p)}
      BY EventPeer DEF Safe, IInv, Consistent
    <2>2. EventOf(p)
      BY DEF Safe, Heard
    <2>3. /\ host.event.type = "CONNECT" => host.event = Event("CONNECT", p)
          /\ host.event.type = "RECEIVE" => host.event = Event("RECEIVE", p)
          /\ host.event.type = "DISCONNECT" => host.event = Event("DISCONNECT", p)
      BY <2>1 DEF Event
    <2> QED
      BY <2>1, <2>2, <2>3 DEF EventOf
  <1> QED
    BY <1>1, Safety, PTL

\* No command of a datagram, and nothing else, overwrites an event that was set
\* before the call has returned it.
THEOREM EventsKept == Spec => EventKept
  <1>1. Safe /\ [Next]_vars =>
            [host.event # NoEvent =>
                 \/ host'.event = host.event
                 \/ phase = "deliver" /\ phase' = "idle"]_vars
    <2> SUFFICES ASSUME Safe, [Next]_vars, host.event # NoEvent,
                        host'.event # host.event
                 PROVE  phase = "deliver" /\ phase' = "idle"
      OBVIOUS
    <2>1. \/ Steady \/ Delivered
          \/ \E p \in Peers : Moved(p)
          \/ \E p \in Peers, mine \in BOOLEAN : Opened(p, mine)
      BY StepSound DEF Safe
    <2> QED
      BY <2>1 DEF Steady, Delivered, Moved, Evolves, Opened
  <1> QED
    BY <1>1, Safety, PTL DEF Spec, EventKept

\* A connection that ends does not start again, in any state of its ending.
THEOREM NoneResurrected == Spec => NoResurrection
  <1> DEFINE Ended == {"DISCONNECTING", "ACKNOWLEDGING_DISCONNECT", "ZOMBIE",
                       "DISCONNECTED"}
  <1>1. Safe /\ [Next]_vars =>
            [\A p \in Peers :
                /\ host.state[p] \in {"DISCONNECTING", "ACKNOWLEDGING_DISCONNECT",
                                      "ZOMBIE", "DISCONNECTED"}
                /\ host'.state[p] \notin {"DISCONNECTING",
                                          "ACKNOWLEDGING_DISCONNECT",
                                          "ZOMBIE", "DISCONNECTED"}
                => /\ host.state[p] = "DISCONNECTED"
                   /\ host'.state[p] \in {"CONNECTING",
                                          "ACKNOWLEDGING_CONNECT"}]_vars
    <2> SUFFICES ASSUME Safe, [Next]_vars, NEW p \in Peers,
                        host.state[p] \in Ended, host'.state[p] \notin Ended
                 PROVE  /\ host.state[p] = "DISCONNECTED"
                        /\ host'.state[p] \in {"CONNECTING",
                                               "ACKNOWLEDGING_CONNECT"}
      OBVIOUS
    <2>1. \/ Steady \/ Delivered
          \/ \E q \in Peers : Moved(q)
          \/ \E q \in Peers, mine \in BOOLEAN : Opened(q, mine)
      BY StepSound DEF Safe
    <2>2. CASE Steady \/ Delivered
      BY <2>2 DEF Steady, Delivered
    <2>3. ASSUME NEW q \in Peers, Moved(q)
          PROVE  FALSE
      <3>1. q = p /\ Evolves(p, host.state[p], host'.state[p], host.event,
                             host'.event)
        BY <2>3 DEF Moved
      <3> QED
        BY <3>1 DEF Evolves, Silent, Opening
    <2>4. ASSUME NEW q \in Peers, NEW mine \in BOOLEAN, Opened(q, mine)
          PROVE  /\ host.state[p] = "DISCONNECTED"
                 /\ host'.state[p] \in {"CONNECTING", "ACKNOWLEDGING_CONNECT"}
      BY <2>4 DEF Opened
    <2> QED
      BY <2>1, <2>2, <2>3, <2>4
  <1> QED
    BY <1>1, Safety, PTL DEF Spec, NoResurrection

-----------------------------------------------------------------------------
(***************************************************************************)
(* The host implements EnetPeerLife.                                       *)
(***************************************************************************)

Lives == [p \in Peers |-> LifeOf(host.state[p])]

\* What the application sees of each state.
LEMMA LifeKinds ==
    /\ LifeOf("DISCONNECTED") = "free" /\ LifeOf("CONNECTED") = "open"
    /\ LifeOf("ZOMBIE") = "lost"
    /\ \A s \in Opening : LifeOf(s) = "opening"
    /\ \A s \in {"DISCONNECT_LATER", "DISCONNECTING",
                 "ACKNOWLEDGING_DISCONNECT"} : LifeOf(s) = "closing"
  BY DEF LifeOf, Opening

\* One peer's life changes.
LEMMA LifeStep ==
    ASSUME NEW p \in Peers,
           \A q \in Peers \ {p} : host'.state[q] = host.state[q]
    PROVE  /\ Lives' = [Lives EXCEPT ![p] = LifeOf(host'.state[p])]
           /\ Lives[p] = LifeOf(host.state[p])
           /\ LifeOf(host'.state[p]) = LifeOf(host.state[p]) => Lives' = Lives
  BY DEF Lives

\* A step of the state diagram is a step of the contract, or a stutter.
LEMMA MovedLife ==
    ASSUME ~Aborts, host \in HostType, NEW p \in Peers, Moved(p)
    PROVE  Life!Next \/ UNCHANGED Life!vars
  <1> DEFINE s == host.state[p]
             t == host'.state[p]
             e == host.event
             f == host'.event
  <1>1. Evolves(p, s, t, e, f)
    BY DEF Moved
  <1>2. /\ Lives' = [Lives EXCEPT ![p] = LifeOf(t)]
        /\ Lives[p] = LifeOf(s)
        /\ LifeOf(t) = LifeOf(s) => Lives' = Lives
    BY LifeStep DEF Moved
  <1>3. CASE f = e /\ LifeOf(t) = LifeOf(s)
    BY <1>2, <1>3 DEF Life!vars, Lives
  <1>4. CASE f = e /\ Silent(s, t) /\ LifeOf(t) # LifeOf(s)
    <2>1. \/ s \in Opening /\ t \in {"ZOMBIE", "DISCONNECTED"}
          \/ s = "CONNECTED" /\ t \in {"DISCONNECT_LATER", "DISCONNECTING",
                                       "ACKNOWLEDGING_DISCONNECT", "ZOMBIE"}
          \/ s \in {"DISCONNECT_LATER", "DISCONNECTING",
                    "ACKNOWLEDGING_DISCONNECT"} /\ t = "ZOMBIE"
      BY <1>4, LifeKinds DEF Silent, Opening
    <2>2. \/ LifeOf(s) = "opening" /\ LifeOf(t) \in {"lost", "free"}
          \/ LifeOf(s) = "open" /\ LifeOf(t) \in {"closing", "lost"}
          \/ LifeOf(s) = "closing" /\ LifeOf(t) = "lost"
      BY <2>1, LifeKinds
    <2>3. Life!Lose(p) \/ Life!Abandon(p) \/ Life!Close(p)
      BY <1>2, <1>4, <2>2
      DEF Life!Lose, Life!Abandon, Life!Close, Life!Becomes, Lives
    <2> QED
      BY <2>3 DEF Life!Next
  <1>5. CASE /\ e = NoEvent /\ f = Event("CONNECT", p)
             /\ s \in Opening /\ t = "CONNECTED"
    <2>1. Life!Establish(p)
      BY <1>2, <1>5, LifeKinds
      DEF Life!Establish, Life!Becomes, Life!Reports, Life!None, NoEvent, Event,
          Lives
    <2> QED
      BY <2>1 DEF Life!Next
  <1>6. CASE /\ e = NoEvent /\ f = Event("RECEIVE", p)
             /\ s = "CONNECTED" /\ t = "CONNECTED"
    <2>1. Life!Receive(p)
      BY <1>2, <1>6, LifeKinds
      DEF Life!Receive, Life!Reports, Life!None, NoEvent, Event, Lives
    <2> QED
      BY <2>1 DEF Life!Next
  <1>7. CASE /\ e = NoEvent /\ f = Event("DISCONNECT", p)
             /\ s \notin {"DISCONNECTED", "ACKNOWLEDGING_CONNECT",
                          "CONNECTION_PENDING"}
             /\ t = "DISCONNECTED"
    <2>1. LifeOf(s) \in {"opening", "open", "closing", "lost"}
      <3>1. s \in Opening \cup {"CONNECTED", "ZOMBIE", "DISCONNECT_LATER",
                                "DISCONNECTING", "ACKNOWLEDGING_DISCONNECT"}
        BY <1>7 DEF HostType, States, Opening
      <3> QED
        BY <3>1, LifeKinds
    <2>2. Life!End(p)
      BY <1>2, <1>7, <2>1, LifeKinds
      DEF Life!End, Life!Becomes, Life!Reports, Life!Lives, Life!None, NoEvent,
          Event, Lives
    <2> QED
      BY <2>2 DEF Life!Next
  <1> QED
    BY <1>1, <1>3, <1>4, <1>5, <1>6, <1>7 DEF Evolves

\* When the application does not call enet_peer_disconnect_now, and Proxy.ts
\* never does, the host implements the contract of EnetPeerLife: an established
\* connection never opens without a CONNECT nor ends without a DISCONNECT event,
\* a packet is reported only while it is open, and no event is set over another.
THEOREM HostImplementsLife ==
    ASSUME ~Aborts
    PROVE  Spec => ImplementsLife
  <1>1. Init => Life!Init
    BY LifeKinds DEF Init, Life!Init, Life!None, NoEvent
  <1>2. Safe /\ [Next]_vars => [Life!Next]_(Life!vars)
    <2> SUFFICES ASSUME Safe, [Next]_vars
                 PROVE  Life!Next \/ UNCHANGED Life!vars
      OBVIOUS
    <2>1. host \in HostType
      BY DEF Safe, IInv, Consistent
    <2>2. \/ Steady
          \/ \E p \in Peers : Moved(p)
          \/ \E p \in Peers, mine \in BOOLEAN : Opened(p, mine)
          \/ \E p \in Peers : Delivered /\ Deliver(p)
      BY StepSound DEF Safe
    <2>3. CASE Steady
      BY <2>3 DEF Steady, Life!vars
    <2>4. CASE \E p \in Peers : Moved(p)
      BY <2>1, <2>4, MovedLife
    <2>5. ASSUME NEW p \in Peers, NEW mine \in BOOLEAN, Opened(p, mine)
          PROVE  Life!Next
      <3>1. /\ Lives' = [Lives EXCEPT ![p] = "opening"] /\ Lives[p] = "free"
            /\ host'.event = host.event
        <4>1. host'.state[p] \in Opening /\ host.state[p] = "DISCONNECTED"
              /\ host'.event = host.event
              /\ \A q \in Peers \ {p} : host'.state[q] = host.state[q]
          BY <2>5 DEF Opened, Opening
        <4>2. LifeOf(host'.state[p]) = "opening" /\ LifeOf(host.state[p]) = "free"
          BY <4>1, LifeKinds
        <4> QED
          BY <4>1, <4>2, LifeStep
      <3>2. Life!Open(p)
        BY <3>1 DEF Life!Open, Life!Becomes, Lives
      <3> QED
        BY <3>2 DEF Life!Next
    <2>6. ASSUME NEW p \in Peers, Delivered, Deliver(p)
          PROVE  Life!Next
      <3>1. host.event.peer = p /\ host'.event = NoEvent
            /\ host'.state = host.state
        BY <2>6 DEF Deliver, Delivered
      <3>2. host.event # NoEvent
        BY <3>1, PeerCountAssumption DEF NoEvent, Peers
      <3>3. Life!Deliver
        BY <3>1, <3>2 DEF Life!Deliver, Life!None, NoEvent
      <3> QED
        BY <3>3 DEF Life!Next
    <2> QED
      BY <2>2, <2>3, <2>4, <2>5, <2>6
  <1> QED
    BY <1>1, <1>2, Safety, PTL DEF Spec, ImplementsLife, Life!Spec
=============================================================================
