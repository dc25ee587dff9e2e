--------------------------- MODULE EnetHostProofs ---------------------------
(***************************************************************************)
(* Proofs about EnetHost for every number of peers and every bound: its    *)
(* type invariant, the two counters of the host and the dispatch queue.    *)
(*                                                                         *)
(* The three are proved together, for each function of the C code first:   *)
(* Consistent(h) is what every function of peer.c and protocol.c preserves *)
(* of the record h.  The actions then follow one by one.  The last part    *)
(* takes the record apart into the slots of the peers.                     *)
(***************************************************************************)
EXTENDS EnetHost, TLAPS, FiniteSetTheorems, SequenceTheorems

Counted(h) ==
    /\ h.connectedPeers = Cardinality(LivePeers(h))
    /\ h.bandwidthLimitedPeers = Cardinality(LimitedPeers(h))

Linked(h) ==
    /\ IsInjective(h.dispatchQueue)
    /\ ToSet(h.dispatchQueue) = {p \in Peers : h.needsDispatch[p]}

Consistent(h) == h \in HostType /\ Counted(h) /\ Linked(h)

-----------------------------------------------------------------------------
(***************************************************************************)
(* Sets of peers and the dispatch queue.                                   *)
(***************************************************************************)

\* Every set of peers is finite: there are PeerCount slots.
LEMMA FinitePeers ==
    ASSUME NEW S \in SUBSET Peers
    PROVE  IsFiniteSet(S) /\ Cardinality(S) \in Nat
  <1>1. IsFiniteSet(Peers)
    BY FS_Interval, PeerCountAssumption DEF Peers
  <1> QED
    BY <1>1, FS_Subset, FS_CardinalityType

\* A peer that joins a set of peers adds one to its size.
LEMMA Joined ==
    ASSUME NEW S \in SUBSET Peers, NEW p \in Peers, p \notin S
    PROVE  Cardinality(S \cup {p}) = Cardinality(S) + 1
  BY FinitePeers, FS_AddElement

\* A peer that leaves a set of peers takes one from its size.
LEMMA Left ==
    ASSUME NEW S \in SUBSET Peers, NEW p \in S
    PROVE  /\ Cardinality(S \ {p}) = Cardinality(S) - 1
           /\ Cardinality(S) - 1 \in Nat
  <1>1. Cardinality(S \ {p}) = Cardinality(S) - 1
    BY FinitePeers, FS_RemoveElement
  <1>2. S \ {p} \in SUBSET Peers
    OBVIOUS
  <1> QED
    BY <1>1, <1>2, FinitePeers

\* enet_list_insert of a peer that is not in the queue keeps it free of
\* duplicates and adds the peer to its elements.
LEMMA InsertLinked ==
    ASSUME NEW q \in Seq(Peers), NEW p \in Peers,
           IsInjective(q), p \notin ToSet(q)
    PROVE  /\ Append(q, p) \in Seq(Peers)
           /\ IsInjective(Append(q, p))
           /\ ToSet(Append(q, p)) = ToSet(q) \cup {p}
  <1> DEFINE r == Append(q, p)
  <1>1. /\ r \in Seq(Peers) /\ Len(r) = Len(q) + 1
        /\ \A i \in 1 .. Len(q) : r[i] = q[i]
        /\ r[Len(q) + 1] = p
    BY AppendProperties
  <1>2. DOMAIN q = 1 .. Len(q) /\ DOMAIN r = 1 .. (Len(q) + 1) /\ Len(q) \in Nat
    BY <1>1, LenProperties
  <1> HIDE DEF r
  <1>3. IsInjective(r)
    BY <1>1, <1>2 DEF IsInjective, ToSet
  <1>4. ToSet(r) = ToSet(q) \cup {p}
    BY <1>1, <1>2 DEF ToSet
  <1> QED
    BY <1>1, <1>3, <1>4 DEF r

\* enet_list_remove of a peer in the queue keeps it free of duplicates and
\* removes exactly that peer.
LEMMA UnlinkLinked ==
    ASSUME NEW q \in Seq(Peers), NEW p \in ToSet(q), IsInjective(q)
    PROVE  /\ Unlink(q, p) \in Seq(Peers)
           /\ IsInjective(Unlink(q, p))
           /\ ToSet(Unlink(q, p)) = ToSet(q) \ {p}
  <1> DEFINE k == CHOOSE i \in DOMAIN q : q[i] = p
             a == SubSeq(q, 1, k - 1)
             b == SubSeq(q, k + 1, Len(q))
             r == a \o b
  <1>1. k \in DOMAIN q /\ q[k] = p
    BY DEF ToSet
  <1>2. DOMAIN q = 1 .. Len(q) /\ Len(q) \in Nat
    BY LenProperties
  <1> HIDE DEF k
  <1>3. /\ a \in Seq(Peers) /\ Len(a) = k - 1
        /\ \A i \in 1 .. k - 1 : a[i] = q[i]
    BY <1>1, <1>2, SubSeqProperties
  <1>4. /\ b \in Seq(Peers) /\ Len(b) = Len(q) - k
        /\ \A i \in 1 .. Len(q) - k : b[i] = q[k + i]
    BY <1>1, <1>2, SubSeqProperties
  <1> HIDE DEF a, b
  <1>5. /\ r \in Seq(Peers) /\ Len(r) = Len(q) - 1
        /\ \A i \in 1 .. Len(q) - 1 : r[i] = IF i < k THEN q[i] ELSE q[i + 1]
    <2>1. /\ r \in Seq(Peers) /\ Len(r) = Len(a) + Len(b)
          /\ \A i \in 1 .. Len(a) + Len(b) :
                r[i] = IF i <= Len(a) THEN a[i] ELSE b[i - Len(a)]
      BY <1>3, <1>4, ConcatProperties
    <2> HIDE DEF r
    <2>2. Len(a) + Len(b) = Len(q) - 1
      BY <1>1, <1>2, <1>3, <1>4
    <2>3. ASSUME NEW i \in 1 .. Len(q) - 1
          PROVE  r[i] = IF i < k THEN q[i] ELSE q[i + 1]
      <3>1. CASE i < k
        BY <3>1, <2>1, <2>2, <1>1, <1>2, <1>3
      <3>2. CASE i >= k
        <4>1. r[i] = b[i - (k - 1)]
          BY <3>2, <2>1, <2>2, <1>1, <1>2, <1>3
        <4>2. i - (k - 1) \in 1 .. Len(q) - k
          BY <3>2, <1>1, <1>2
        <4> QED
          BY <4>1, <4>2, <3>2, <1>1, <1>2, <1>4
      <3> QED
        BY <3>1, <3>2, <1>1, <1>2
    <2> QED
      BY <2>1, <2>2, <2>3
  <1>6. DOMAIN r = 1 .. Len(q) - 1
    BY <1>5, LenProperties
  <1> HIDE DEF r
  <1>7. IsInjective(r)
    BY SMTT(30), <1>1, <1>2, <1>5, <1>6 DEF IsInjective
  <1>8. ToSet(r) \subseteq ToSet(q) \ {p}
    BY <1>1, <1>2, <1>5, <1>6 DEF IsInjective, ToSet
  <1>9. ToSet(q) \ {p} \subseteq ToSet(r)
    <2> SUFFICES ASSUME NEW j \in DOMAIN q, q[j] # p
                 PROVE  q[j] \in ToSet(r)
      BY DEF ToSet
    <2>1. CASE j < k
      BY <2>1, <1>1, <1>2, <1>5, <1>6 DEF ToSet
    <2>2. CASE j > k
      <3>1. j - 1 \in DOMAIN r /\ r[j - 1] = q[j]
        BY <2>2, <1>1, <1>2, <1>5, <1>6
      <3> QED
        BY <3>1 DEF ToSet
    <2> QED
      BY <2>1, <2>2, <1>1, <1>2
  <1> QED
    BY <1>5, <1>7, <1>8, <1>9 DEF Unlink, RemoveAt, r, a, b, k

-----------------------------------------------------------------------------
(***************************************************************************)
(* The functions that change a peer's state.                               *)
(***************************************************************************)

\* The fields of a record of HostType that the counters and the queue use.
LEMMA Fields ==
    ASSUME NEW h \in HostType
    PROVE  /\ h.state \in [Peers -> States]
           /\ h.limited \in [Peers -> BOOLEAN]
           /\ h.needsDispatch \in [Peers -> BOOLEAN]
           /\ h.dispatchQueue \in Seq(Peers)
           /\ h.connectedPeers \in Nat
           /\ h.bandwidthLimitedPeers \in Nat
  BY DEF HostType

LEMMA OneType == \A b : One(b) \in {0, 1}
  BY DEF One

\* A function that changes none of those fields keeps the record consistent.
LEMMA Unrelated ==
    ASSUME NEW h, Consistent(h), NEW g \in HostType,
           g.state = h.state, g.limited = h.limited,
           g.needsDispatch = h.needsDispatch, g.dispatchQueue = h.dispatchQueue,
           g.connectedPeers = h.connectedPeers,
           g.bandwidthLimitedPeers = h.bandwidthLimitedPeers
    PROVE  Consistent(g)
  BY DEF Consistent, Counted, Linked, LivePeers, LimitedPeers

\* A peer moves among the live states, or among the others, or the limit of a
\* peer that is not live changes: nothing is to be counted.
LEMMA StaysPut ==
    ASSUME NEW h, Consistent(h), NEW g \in HostType,
           \A q \in Peers : (g.state[q] \in Live) <=> (h.state[q] \in Live),
           \A q \in LivePeers(h) : g.limited[q] = h.limited[q],
           g.needsDispatch = h.needsDispatch, g.dispatchQueue = h.dispatchQueue,
           g.connectedPeers = h.connectedPeers,
           g.bandwidthLimitedPeers = h.bandwidthLimitedPeers
    PROVE  Consistent(g)
  <1>1. LivePeers(g) = LivePeers(h)
    BY DEF LivePeers
  <1>2. LimitedPeers(g) = LimitedPeers(h)
    BY <1>1 DEF LimitedPeers
  <1> QED
    BY <1>1, <1>2 DEF Consistent, Counted, Linked

\* What enet_peer_on_connect counts when p becomes live.
LEMMA Enters ==
    ASSUME NEW h, Consistent(h), NEW p \in Peers, NEW g \in HostType,
           h.state[p] \notin Live, g.state[p] \in Live,
           \A q \in Peers \ {p} : g.state[q] = h.state[q],
           g.limited = h.limited,
           g.needsDispatch = h.needsDispatch, g.dispatchQueue = h.dispatchQueue,
           g.connectedPeers = h.connectedPeers + 1,
           g.bandwidthLimitedPeers = h.bandwidthLimitedPeers + One(h.limited[p])
    PROVE  Consistent(g)
  <1>1. LivePeers(g) = LivePeers(h) \cup {p} /\ p \notin LivePeers(h)
    BY DEF LivePeers
  <1>2. g.connectedPeers = Cardinality(LivePeers(g))
    BY <1>1, Joined DEF LivePeers, Consistent, Counted
  <1>3. LimitedPeers(h) \in SUBSET Peers /\ p \notin LimitedPeers(h)
    BY <1>1 DEF LimitedPeers, LivePeers
  <1>4. g.bandwidthLimitedPeers = Cardinality(LimitedPeers(g))
    <2>1. CASE h.limited[p]
      <3>1. LimitedPeers(g) = LimitedPeers(h) \cup {p}
        BY <1>1, <2>1 DEF LimitedPeers
      <3> QED
        BY <3>1, <2>1, <1>3, Joined DEF One, Consistent, Counted
    <2>2. CASE ~h.limited[p]
      <3>1. LimitedPeers(g) = LimitedPeers(h)
        BY <1>1, <2>2 DEF LimitedPeers
      <3> QED
        BY <3>1, <2>2, Fields DEF One, Consistent, Counted
    <2> QED
      BY <2>1, <2>2
  <1> QED
    BY <1>2, <1>4 DEF Consistent, Counted, Linked

\* Neither counter, which are unsigned, falls below zero when a live p leaves.
LEMMA Countable ==
    ASSUME NEW h, Consistent(h), NEW p \in Peers, h.state[p] \in Live
    PROVE  /\ h.connectedPeers - 1 \in Nat
           /\ h.bandwidthLimitedPeers - One(h.limited[p]) \in Nat
  <1>1. LivePeers(h) \in SUBSET Peers /\ p \in LivePeers(h)
    BY DEF LivePeers
  <1>2. LimitedPeers(h) \in SUBSET Peers
    BY <1>1 DEF LimitedPeers
  <1>3. h.connectedPeers - 1 \in Nat
    BY <1>1, Left DEF Consistent, Counted
  <1>4. h.bandwidthLimitedPeers - One(h.limited[p]) \in Nat
    <2>1. CASE h.limited[p]
      <3>1. p \in LimitedPeers(h)
        BY <2>1, <1>1 DEF LimitedPeers
      <3>2. Cardinality(LimitedPeers(h)) - 1 \in Nat
        BY <3>1, <1>2, Left
      <3> QED
        BY <2>1, <3>2 DEF One, Consistent, Counted
    <2>2. CASE ~h.limited[p]
      BY <2>2, Fields DEF One, Consistent
    <2> QED
      BY <2>1, <2>2
  <1> QED
    BY <1>3, <1>4

\* What enet_peer_on_disconnect counts when p stops being live; its bandwidth
\* limit may be forgotten at the same time.
LEMMA Leaves ==
    ASSUME NEW h, Consistent(h), NEW p \in Peers, NEW g \in HostType,
           h.state[p] \in Live, g.state[p] \notin Live,
           \A q \in Peers \ {p} : g.state[q] = h.state[q],
           \A q \in Peers \ {p} : g.limited[q] = h.limited[q],
           g.needsDispatch = h.needsDispatch, g.dispatchQueue = h.dispatchQueue,
           g.connectedPeers = h.connectedPeers - 1,
           g.bandwidthLimitedPeers = h.bandwidthLimitedPeers - One(h.limited[p])
    PROVE  Consistent(g)
  <1>1. LivePeers(h) \in SUBSET Peers /\ p \in LivePeers(h)
    BY DEF LivePeers
  <1>2. LimitedPeers(h) \in SUBSET Peers
    BY <1>1 DEF LimitedPeers
  <1>3. LivePeers(g) = LivePeers(h) \ {p}
    BY DEF LivePeers
  <1>4. g.connectedPeers = Cardinality(LivePeers(g))
    BY <1>1, <1>3, Left DEF Consistent, Counted
  <1>5. LimitedPeers(g) = LimitedPeers(h) \ {p}
    BY <1>3 DEF LimitedPeers, LivePeers
  <1>6. g.bandwidthLimitedPeers = Cardinality(LimitedPeers(g))
    <2>1. CASE h.limited[p]
      <3>1. p \in LimitedPeers(h)
        BY <2>1, <1>1 DEF LimitedPeers
      <3>2. Cardinality(LimitedPeers(g)) = Cardinality(LimitedPeers(h)) - 1
        BY <3>1, <1>2, <1>5, Left
      <3> QED
        BY <2>1, <3>2 DEF One, Consistent, Counted
    <2>2. CASE ~h.limited[p]
      <3>1. LimitedPeers(g) = LimitedPeers(h)
        BY <2>2, <1>5 DEF LimitedPeers
      <3> QED
        BY <2>2, <3>1, Fields DEF One, Consistent, Counted
    <2> QED
      BY <2>1, <2>2
  <1> QED
    BY <1>4, <1>6 DEF Consistent, Counted, Linked

-----------------------------------------------------------------------------
(***************************************************************************)
(* Each function keeps the record consistent.                              *)
(***************************************************************************)

\* Assigning the state of a peer, the counters, and the queues of a peer.
LEMMA AssignState ==
    ASSUME NEW h \in HostType, NEW p \in Peers, NEW s \in States
    PROVE  [h EXCEPT !.state[p] = s] \in HostType
  BY DEF HostType

LEMMA AssignCounters ==
    ASSUME NEW h \in HostType, NEW v \in Nat, NEW w \in Nat
    PROVE  [h EXCEPT !.bandwidthLimitedPeers = w, !.connectedPeers = v]
              \in HostType
  BY DEF HostType

LEMMA AssignDispatched ==
    ASSUME NEW h \in HostType, NEW p \in Peers, NEW n \in 0 .. MaxDispatched
    PROVE  [h EXCEPT !.dispatched[p] = n] \in HostType
  <1>1. [h.dispatched EXCEPT ![p] = n] \in [Peers -> 0 .. MaxDispatched]
    BY DEF HostType
  <1>2. ASSUME NEW d \in [Peers -> 0 .. MaxDispatched]
        PROVE  [h EXCEPT !.dispatched = d] \in HostType
    BY DEF HostType
  <1> QED
    BY <1>1, <1>2

LEMMA AssignQueues ==
    ASSUME NEW h \in HostType, NEW p \in Peers, NEW q \in Seq(Peers)
    PROVE  [h EXCEPT !.dispatchQueue = q,
                     !.needsDispatch[p] = FALSE,
                     !.acks[p] = {},
                     !.sent[p] = {}, !.ready[p] = {}, !.resend[p] = {},
                     !.unreliable[p] = FALSE,
                     !.dispatched[p] = 0] \in HostType
  <1> DEFINE f == [h EXCEPT !.dispatchQueue = q,
                            !.needsDispatch[p] = FALSE,
                            !.acks[p] = {},
                            !.sent[p] = {}]
             g == [f EXCEPT !.ready[p] = {}, !.resend[p] = {},
                            !.unreliable[p] = FALSE]
  <1>1. f \in HostType
    BY DEF HostType
  <1> HIDE DEF f
  <1>2. g \in HostType
    BY <1>1 DEF HostType
  <1> HIDE DEF g
  <1>3. [g EXCEPT !.dispatched[p] = 0] \in HostType
    BY <1>2, BoundsAssumption, AssignDispatched
  <1> QED
    BY <1>3 DEF f, g

LEMMA OnConnectCounts ==
    ASSUME NEW h, Consistent(h), NEW p \in Peers
    PROVE  OnConnect(h, p) \in HostType
  <1>1. h \in HostType
    BY DEF Consistent
  <1> DEFINE w == h.bandwidthLimitedPeers + One(h.limited[p])
             v == h.connectedPeers + 1
  <1>2. w \in Nat /\ v \in Nat
    BY <1>1, Fields, OneType
  <1>3. OnConnect(h, p) = IF h.state[p] \in Live THEN h
                          ELSE [h EXCEPT !.bandwidthLimitedPeers = w,
                                         !.connectedPeers = v]
    BY DEF OnConnect
  <1> HIDE DEF v, w
  <1>4. [h EXCEPT !.bandwidthLimitedPeers = w, !.connectedPeers = v] \in HostType
    BY <1>1, <1>2, AssignCounters
  <1> QED
    BY <1>1, <1>3, <1>4

LEMMA OnDisconnectCounts ==
    ASSUME NEW h, Consistent(h), NEW p \in Peers
    PROVE  OnDisconnect(h, p) \in HostType
  <1>1. h \in HostType
    BY DEF Consistent
  <1>2. CASE h.state[p] \in Live
    <2> DEFINE w == h.bandwidthLimitedPeers - One(h.limited[p])
               v == h.connectedPeers - 1
    <2>1. w \in Nat /\ v \in Nat
      BY <1>2, Countable
    <2>2. OnDisconnect(h, p) = [h EXCEPT !.bandwidthLimitedPeers = w,
                                         !.connectedPeers = v]
      BY <1>2 DEF OnDisconnect
    <2> HIDE DEF v, w
    <2>3. [h EXCEPT !.bandwidthLimitedPeers = w, !.connectedPeers = v]
             \in HostType
      BY <1>1, <2>1, AssignCounters
    <2> QED
      BY <2>2, <2>3
  <1>3. CASE h.state[p] \notin Live
    BY <1>1, <1>3 DEF OnDisconnect
  <1> QED
    BY <1>2, <1>3

LEMMA ChangeStateConsistent ==
    ASSUME NEW h, Consistent(h), NEW p \in Peers, NEW s \in States
    PROVE  Consistent(ChangeState(h, p, s))
  <1> DEFINE g == ChangeState(h, p, s)
  <1>1. h \in HostType
    BY DEF Consistent
  <1>2. g \in HostType
    <2>1. CASE s \in Live
      BY <2>1, OnConnectCounts, AssignState DEF ChangeState
    <2>2. CASE s \notin Live
      BY <2>2, OnDisconnectCounts, AssignState DEF ChangeState
    <2> QED
      BY <2>1, <2>2
  <1>3. CASE s \in Live /\ h.state[p] \in Live
    <2>1. g = [h EXCEPT !.state[p] = s]
      BY <1>3 DEF ChangeState, OnConnect
    <2> QED
      BY <1>1, <1>2, <1>3, <2>1, StaysPut DEF HostType, LivePeers
  <1>4. CASE s \in Live /\ h.state[p] \notin Live
    <2>1. g = [[h EXCEPT !.bandwidthLimitedPeers = @ + One(h.limited[p]),
                         !.connectedPeers = @ + 1] EXCEPT !.state[p] = s]
      BY <1>4 DEF ChangeState, OnConnect
    <2> HIDE DEF g
    <2>2. /\ g.state = [h.state EXCEPT ![p] = s]
          /\ g.limited = h.limited
          /\ g.needsDispatch = h.needsDispatch
          /\ g.dispatchQueue = h.dispatchQueue
          /\ g.connectedPeers = h.connectedPeers + 1
          /\ g.bandwidthLimitedPeers = h.bandwidthLimitedPeers + One(h.limited[p])
      BY <1>1, <2>1 DEF HostType
    <2> QED
      BY <1>1, <1>2, <1>4, <2>2, Fields, Enters DEF g
  <1>5. CASE s \notin Live /\ h.state[p] \in Live
    <2>1. g = [[h EXCEPT !.bandwidthLimitedPeers = @ - One(h.limited[p]),
                         !.connectedPeers = @ - 1] EXCEPT !.state[p] = s]
      BY <1>5 DEF ChangeState, OnDisconnect
    <2> HIDE DEF g
    <2>2. /\ g.state = [h.state EXCEPT ![p] = s]
          /\ g.limited = h.limited
          /\ g.needsDispatch = h.needsDispatch
          /\ g.dispatchQueue = h.dispatchQueue
          /\ g.connectedPeers = h.connectedPeers - 1
          /\ g.bandwidthLimitedPeers = h.bandwidthLimitedPeers - One(h.limited[p])
      BY <1>1, <2>1 DEF HostType
    <2> QED
      BY <1>1, <1>2, <1>5, <2>2, Fields, Leaves DEF g
  <1>6. CASE s \notin Live /\ h.state[p] \notin Live
    <2>1. g = [h EXCEPT !.state[p] = s]
      BY <1>6 DEF ChangeState, OnDisconnect
    <2> QED
      BY <1>1, <1>2, <1>6, <2>1, StaysPut DEF HostType, LivePeers
  <1> QED
    BY <1>3, <1>4, <1>5, <1>6

\* p enters the dispatch queue if it is not there.
LEMMA EnqueueConsistent ==
    ASSUME NEW h, Consistent(h), NEW p \in Peers
    PROVE  Consistent(Enqueue(h, p))
  <1>1. h \in HostType
    BY DEF Consistent
  <1>2. CASE h.needsDispatch[p]
    BY <1>2 DEF Enqueue
  <1>3. CASE ~h.needsDispatch[p]
    <2> DEFINE q == Append(h.dispatchQueue, p)
               g == [h EXCEPT !.dispatchQueue = q, !.needsDispatch[p] = TRUE]
    <2>1. /\ q \in Seq(Peers) /\ IsInjective(q)
          /\ ToSet(q) = ToSet(h.dispatchQueue) \cup {p}
      BY <1>1, <1>3, Fields, InsertLinked DEF Consistent, Linked
    <2> HIDE DEF q
    <2>2. /\ g \in HostType
          /\ g.needsDispatch = [h.needsDispatch EXCEPT ![p] = TRUE]
          /\ g.dispatchQueue = q
          /\ g.state = h.state /\ g.limited = h.limited
          /\ g.connectedPeers = h.connectedPeers
          /\ g.bandwidthLimitedPeers = h.bandwidthLimitedPeers
      BY <1>1, <2>1 DEF HostType
    <2> HIDE DEF g
    <2>3. Linked(g)
      <3>1. {r \in Peers : g.needsDispatch[r]} =
            {r \in Peers : h.needsDispatch[r]} \cup {p}
        BY <1>1, <2>2, Fields
      <3> QED
        BY <2>1, <2>2, <3>1 DEF Consistent, Linked
    <2>4. Counted(g)
      BY <2>2 DEF Consistent, Counted, LivePeers, LimitedPeers
    <2>5. Enqueue(h, p) = g
      BY <1>3 DEF Enqueue, g, q
    <2> QED
      BY <2>2, <2>3, <2>4, <2>5 DEF Consistent
  <1> QED
    BY <1>2, <1>3

LEMMA DispatchStateConsistent ==
    ASSUME NEW h, Consistent(h), NEW p \in Peers, NEW s \in States
    PROVE  Consistent(DispatchState(h, p, s))
  BY ChangeStateConsistent, EnqueueConsistent DEF DispatchState

\* The queues of p are emptied; nothing else of the record changes.
LEMMA ResetQueuesConsistent ==
    ASSUME NEW h, Consistent(h), NEW p \in Peers
    PROVE  /\ Consistent(ResetQueues(h, p))
           /\ ResetQueues(h, p).state = h.state
           /\ ResetQueues(h, p).limited = h.limited
  <1> DEFINE q == IF h.needsDispatch[p] THEN Unlink(h.dispatchQueue, p)
                  ELSE h.dispatchQueue
             g == [h EXCEPT !.dispatchQueue = q,
                            !.needsDispatch[p] = FALSE,
                            !.acks[p] = {},
                            !.sent[p] = {}, !.ready[p] = {}, !.resend[p] = {},
                            !.unreliable[p] = FALSE,
                            !.dispatched[p] = 0]
  <1>1. h \in HostType
    BY DEF Consistent
  <1>2. /\ q \in Seq(Peers) /\ IsInjective(q)
        /\ ToSet(q) = {r \in Peers : h.needsDispatch[r]} \ {p}
    <2>1. CASE h.needsDispatch[p]
      BY <1>1, <2>1, Fields, UnlinkLinked DEF Consistent, Linked
    <2>2. CASE ~h.needsDispatch[p]
      BY <1>1, <2>2, Fields DEF Consistent, Linked
    <2> QED
      BY <2>1, <2>2
  <1>3. g = ResetQueues(h, p)
    BY <1>1 DEF ResetQueues
  <1> HIDE DEF q
  <1>4. /\ g.needsDispatch = [h.needsDispatch EXCEPT ![p] = FALSE]
        /\ g.dispatchQueue = q
        /\ g.state = h.state /\ g.limited = h.limited
        /\ g.connectedPeers = h.connectedPeers
        /\ g.bandwidthLimitedPeers = h.bandwidthLimitedPeers
    BY <1>1 DEF HostType
  <1>5. g \in HostType
    BY <1>1, <1>2, AssignQueues
  <1> HIDE DEF g
  <1>6. Linked(g)
    <2>1. {r \in Peers : g.needsDispatch[r]} =
          {r \in Peers : h.needsDispatch[r]} \ {p}
      BY <1>1, <1>4, Fields
    <2> QED
      BY <1>2, <1>4, <2>1 DEF Linked
  <1>7. Counted(g)
    BY <1>4 DEF Consistent, Counted, LivePeers, LimitedPeers
  <1> QED
    BY <1>3, <1>4, <1>5, <1>6, <1>7 DEF Consistent

LEMMA AssignStrikes ==
    ASSUME NEW h \in HostType, NEW p \in Peers, NEW n \in 0 .. MaxStrikes
    PROVE  [h EXCEPT !.strikes[p] = n] \in HostType
  <1>1. [h.strikes EXCEPT ![p] = n] \in [Peers -> 0 .. MaxStrikes]
    BY DEF HostType
  <1>2. ASSUME NEW d \in [Peers -> 0 .. MaxStrikes]
        PROVE  [h EXCEPT !.strikes = d] \in HostType
    BY DEF HostType
  <1> QED
    BY <1>1, <1>2

LEMMA EventTypes ==
    ASSUME NEW p \in Peers
    PROVE  /\ Event("CONNECT", p) \in Events
           /\ Event("RECEIVE", p) \in Events
           /\ Event("DISCONNECT", p) \in Events
           /\ NoEvent \in Events
  BY DEF Event, Events, NoEvent

\* What is not counted nor linked may be assigned.
LEMMA EventConsistent ==
    ASSUME NEW h, Consistent(h), NEW e \in Events
    PROVE  Consistent([h EXCEPT !.event = e])
  <1> DEFINE g == [h EXCEPT !.event = e]
  <1>1. h \in HostType
    BY DEF Consistent
  <1>2. g \in HostType
    BY <1>1 DEF HostType
  <1>3. /\ g.state = h.state /\ g.limited = h.limited
        /\ g.needsDispatch = h.needsDispatch
        /\ g.dispatchQueue = h.dispatchQueue
        /\ g.connectedPeers = h.connectedPeers
        /\ g.bandwidthLimitedPeers = h.bandwidthLimitedPeers
    BY <1>1 DEF HostType
  <1> QED
    BY <1>2, <1>3, Unrelated

LEMMA RecalculateConsistent ==
    ASSUME NEW h, Consistent(h), NEW b \in BOOLEAN
    PROVE  /\ Consistent([h EXCEPT !.recalculate = b])
           /\ [h EXCEPT !.recalculate = b].state = h.state
  <1> DEFINE g == [h EXCEPT !.recalculate = b]
  <1>1. h \in HostType
    BY DEF Consistent
  <1>2. g \in HostType
    BY <1>1 DEF HostType
  <1>3. /\ g.state = h.state /\ g.limited = h.limited
        /\ g.needsDispatch = h.needsDispatch
        /\ g.dispatchQueue = h.dispatchQueue
        /\ g.connectedPeers = h.connectedPeers
        /\ g.bandwidthLimitedPeers = h.bandwidthLimitedPeers
    BY <1>1 DEF HostType
  <1> QED
    BY <1>2, <1>3, Unrelated

\* The incoming bandwidth of a peer that is not live is not counted.
LEMMA LimitConsistent ==
    ASSUME NEW h, Consistent(h), NEW p \in Peers, h.state[p] \notin Live,
           NEW b \in BOOLEAN
    PROVE  Consistent([h EXCEPT !.limited[p] = b])
  <1> DEFINE g == [h EXCEPT !.limited[p] = b]
  <1>1. h \in HostType
    BY DEF Consistent
  <1>2. g \in HostType
    BY <1>1 DEF HostType
  <1>3. /\ g.state = h.state /\ g.limited = [h.limited EXCEPT ![p] = b]
        /\ g.needsDispatch = h.needsDispatch
        /\ g.dispatchQueue = h.dispatchQueue
        /\ g.connectedPeers = h.connectedPeers
        /\ g.bandwidthLimitedPeers = h.bandwidthLimitedPeers
    BY <1>1 DEF HostType
  <1>4. \A q \in LivePeers(h) : g.limited[q] = h.limited[q]
    BY <1>1, <1>3, Fields DEF LivePeers
  <1> QED
    BY <1>2, <1>3, <1>4, StaysPut

\* enet_peer_reset
LEMMA PeerResetConsistent ==
    ASSUME NEW h, Consistent(h), NEW p \in Peers
    PROVE  Consistent(PeerReset(h, p))
  <1> DEFINE d == OnDisconnect(h, p)
             g == [d EXCEPT !.state[p] = "DISCONNECTED",
                            !.limited[p] = FALSE, !.strikes[p] = 0]
  <1>1. h \in HostType /\ d \in HostType
    BY OnDisconnectCounts DEF Consistent
  <1>2. g \in HostType
    <2> HIDE DEF d
    <2> DEFINE f == [d EXCEPT !.state[p] = "DISCONNECTED", !.limited[p] = FALSE]
    <2>1. f \in HostType
      BY <1>1 DEF HostType, States
    <2> HIDE DEF f
    <2>2. [f EXCEPT !.strikes[p] = 0] \in HostType
      BY <2>1, BoundsAssumption, AssignStrikes
    <2> QED
      BY <2>2 DEF f
  <1>3. /\ d.state = h.state /\ d.limited = h.limited
        /\ d.needsDispatch = h.needsDispatch
        /\ d.dispatchQueue = h.dispatchQueue
    BY <1>1 DEF OnDisconnect, HostType
  <1>4. /\ g.state = [h.state EXCEPT ![p] = "DISCONNECTED"]
        /\ g.limited = [h.limited EXCEPT ![p] = FALSE]
        /\ g.needsDispatch = h.needsDispatch
        /\ g.dispatchQueue = h.dispatchQueue
        /\ g.connectedPeers = d.connectedPeers
        /\ g.bandwidthLimitedPeers = d.bandwidthLimitedPeers
    <2> HIDE DEF d
    <2> QED
      BY <1>1, <1>3 DEF HostType
  <1>5. CASE h.state[p] \in Live
    <2>1. /\ d.connectedPeers = h.connectedPeers - 1
          /\ d.bandwidthLimitedPeers = h.bandwidthLimitedPeers - One(h.limited[p])
      BY <1>1, <1>5 DEF OnDisconnect, HostType
    <2> HIDE DEF g, d
    <2>2. Consistent(g)
      BY <1>1, <1>2, <1>4, <1>5, <2>1, Fields, Leaves DEF Live
    <2> QED
      BY <2>2, ResetQueuesConsistent DEF PeerReset, g, d
  <1>6. CASE h.state[p] \notin Live
    <2>1. d = h
      BY <1>6 DEF OnDisconnect
    <2> HIDE DEF g, d
    <2>2. Consistent(g)
      BY <1>1, <1>2, <1>4, <1>6, <2>1, Fields, StaysPut DEF Live, LivePeers
    <2> QED
      BY <2>2, ResetQueuesConsistent DEF PeerReset, g, d
  <1> QED
    BY <1>5, <1>6

LEMMA NotifyConnectConsistent ==
    ASSUME NEW h, Consistent(h), NEW p \in Peers, NEW ev \in BOOLEAN
    PROVE  Consistent(NotifyConnect(h, p, ev))
  <1> DEFINE g == [h EXCEPT !.recalculate = TRUE]
             s == IF h.state[p] = "CONNECTING" THEN "CONNECTION_SUCCEEDED"
                  ELSE "CONNECTION_PENDING"
  <1>1. Consistent(g)
    BY RecalculateConsistent
  <1>2. s \in States /\ "CONNECTED" \in States
    BY DEF States
  <1> HIDE DEF g, s
  <1>3. CASE ev
    <2>1. Consistent(ChangeState(g, p, "CONNECTED"))
      BY <1>1, <1>2, ChangeStateConsistent
    <2>2. Consistent([ChangeState(g, p, "CONNECTED") EXCEPT
                         !.event = Event("CONNECT", p)])
      BY <2>1, EventTypes, EventConsistent
    <2> QED
      BY <1>3, <2>2 DEF NotifyConnect, g
  <1>4. CASE ~ev
    <2>1. Consistent(DispatchState(g, p, s))
      BY <1>1, <1>2, DispatchStateConsistent
    <2> QED
      BY <1>4, <2>1 DEF NotifyConnect, g, s
  <1> QED
    BY <1>3, <1>4

LEMMA NotifyDisconnectConsistent ==
    ASSUME NEW h, Consistent(h), NEW p \in Peers, NEW ev \in BOOLEAN
    PROVE  Consistent(NotifyDisconnect(h, p, ev))
  <1> DEFINE b == h.recalculate
                     \/ h.state[p] \notin {"DISCONNECTED", "CONNECTING",
                                            "ACKNOWLEDGING_CONNECT"}
             g == [h EXCEPT !.recalculate = b]
             e == [g EXCEPT !.event = Event("DISCONNECT", p)]
  <1>1. b \in BOOLEAN
    BY DEF Consistent, HostType
  <1> HIDE DEF b
  <1>2. Consistent(g)
    BY <1>1, RecalculateConsistent
  <1> HIDE DEF g
  <1>3. Consistent(e)
    BY <1>2, EventTypes, EventConsistent
  <1> HIDE DEF e
  <1>4. /\ Consistent(PeerReset(g, p)) /\ Consistent(PeerReset(e, p))
        /\ Consistent(DispatchState(g, p, "ZOMBIE"))
    BY <1>2, <1>3, PeerResetConsistent, DispatchStateConsistent DEF States
  <1>5. NotifyDisconnect(h, p, ev) \in
           {PeerReset(g, p), PeerReset(e, p), DispatchState(g, p, "ZOMBIE")}
    BY DEF NotifyDisconnect, b, g, e
  <1> QED
    BY <1>4, <1>5

\* enet_peer_disconnect of a live peer takes it out of the counters.
LEMMA DisconnectLiveConsistent ==
    ASSUME NEW h, Consistent(h), NEW p \in Peers, h.state[p] \in Live
    PROVE  Consistent(DisconnectLive(h, p))
  <1> DEFINE r == ResetQueues(h, p)
             d == OnDisconnect(r, p)
             g == [d EXCEPT !.ready[p] = {"DISCONNECT"},
                            !.state[p] = "DISCONNECTING"]
  <1>1. Consistent(r) /\ r.state = h.state
    BY ResetQueuesConsistent
  <1> HIDE DEF r
  <1>2. r \in HostType /\ d \in HostType
    BY <1>1, OnDisconnectCounts DEF Consistent
  <1>3. /\ d.state = r.state /\ d.limited = r.limited
        /\ d.needsDispatch = r.needsDispatch
        /\ d.dispatchQueue = r.dispatchQueue
        /\ d.connectedPeers = r.connectedPeers - 1
        /\ d.bandwidthLimitedPeers = r.bandwidthLimitedPeers - One(r.limited[p])
    BY <1>1, <1>2 DEF OnDisconnect, HostType
  <1> HIDE DEF d
  <1>4. /\ g \in HostType
        /\ g.state = [r.state EXCEPT ![p] = "DISCONNECTING"]
        /\ g.limited = d.limited
        /\ g.needsDispatch = d.needsDispatch
        /\ g.dispatchQueue = d.dispatchQueue
        /\ g.connectedPeers = d.connectedPeers
        /\ g.bandwidthLimitedPeers = d.bandwidthLimitedPeers
    BY <1>2, <1>3 DEF HostType, States, Kinds
  <1>5. g.state[p] \notin Live /\ \A q \in Peers \ {p} : g.state[q] = r.state[q]
    BY <1>2, <1>4, Fields DEF Live
  <1>6. g = DisconnectLive(h, p)
    BY DEF DisconnectLive, d, r
  <1> HIDE DEF g
  <1>7. Consistent(g)
    BY ZenonT(40), <1>1, <1>3, <1>4, <1>5, Leaves
  <1> QED
    BY <1>6, <1>7

LEMMA DisconnectIfDrainedConsistent ==
    ASSUME NEW h, Consistent(h), NEW p \in Peers
    PROVE  Consistent(DisconnectIfDrained(h, p))
  BY DisconnectLiveConsistent DEF DisconnectIfDrained, Live

LEMMA SendReliableConsistent ==
    ASSUME NEW h, Consistent(h), NEW p \in Peers
    PROVE  /\ Consistent(SendReliable(h, p))
           /\ SendReliable(h, p).state = h.state
  <1> DEFINE g == [h EXCEPT !.sent[p] = @ \cup h.ready[p] \cup h.resend[p],
                            !.ready[p] = {}, !.resend[p] = {}]
  <1>1. h \in HostType
    BY DEF Consistent
  <1>2. g \in HostType
    BY <1>1 DEF HostType
  <1>3. /\ g.state = h.state /\ g.limited = h.limited
        /\ g.needsDispatch = h.needsDispatch
        /\ g.dispatchQueue = h.dispatchQueue
        /\ g.connectedPeers = h.connectedPeers
        /\ g.bandwidthLimitedPeers = h.bandwidthLimitedPeers
    BY <1>1 DEF HostType
  <1>4. Consistent(g)
    BY <1>2, <1>3, Unrelated
  <1> QED
    BY <1>3, <1>4 DEF SendReliable

LEMMA RemoveSentReliableConsistent ==
    ASSUME NEW h, Consistent(h), NEW p \in Peers, NEW kind
    PROVE  /\ Consistent(RemoveSentReliable(h, p, kind))
           /\ RemoveSentReliable(h, p, kind).state = h.state
  <1> DEFINE g == [h EXCEPT !.sent[p] = @ \ {kind}, !.resend[p] = @ \ {kind}]
  <1>1. h \in HostType
    BY DEF Consistent
  <1>2. g \in HostType
    BY <1>1 DEF HostType
  <1>3. /\ g.state = h.state /\ g.limited = h.limited
        /\ g.needsDispatch = h.needsDispatch
        /\ g.dispatchQueue = h.dispatchQueue
        /\ g.connectedPeers = h.connectedPeers
        /\ g.bandwidthLimitedPeers = h.bandwidthLimitedPeers
    BY <1>1 DEF HostType
  <1>4. Consistent(g)
    BY <1>2, <1>3, Unrelated
  <1> QED
    BY <1>3, <1>4 DEF RemoveSentReliable

\* Queueing commands for p.
LEMMA ReadyConsistent ==
    ASSUME NEW h, Consistent(h), NEW p \in Peers,
           NEW r \in SUBSET Kinds
    PROVE  /\ Consistent([h EXCEPT !.ready[p] = r])
           /\ [h EXCEPT !.ready[p] = r].state = h.state
  <1> DEFINE g == [h EXCEPT !.ready[p] = r]
  <1>1. h \in HostType
    BY DEF Consistent
  <1>2. g \in HostType
    BY <1>1 DEF HostType
  <1>3. /\ g.state = h.state /\ g.limited = h.limited
        /\ g.needsDispatch = h.needsDispatch
        /\ g.dispatchQueue = h.dispatchQueue
        /\ g.connectedPeers = h.connectedPeers
        /\ g.bandwidthLimitedPeers = h.bandwidthLimitedPeers
    BY <1>1 DEF HostType
  <1>4. Consistent(g)
    BY <1>2, <1>3, Unrelated
  <1> QED
    BY <1>3, <1>4

LEMMA UnreliableConsistent ==
    ASSUME NEW h, Consistent(h), NEW p \in Peers, NEW u \in BOOLEAN
    PROVE  /\ Consistent([h EXCEPT !.unreliable[p] = u])
           /\ [h EXCEPT !.unreliable[p] = u].state = h.state
  <1> DEFINE g == [h EXCEPT !.unreliable[p] = u]
  <1>1. h \in HostType
    BY DEF Consistent
  <1>2. g \in HostType
    BY <1>1 DEF HostType
  <1>3. /\ g.state = h.state /\ g.limited = h.limited
        /\ g.needsDispatch = h.needsDispatch
        /\ g.dispatchQueue = h.dispatchQueue
        /\ g.connectedPeers = h.connectedPeers
        /\ g.bandwidthLimitedPeers = h.bandwidthLimitedPeers
    BY <1>1 DEF HostType
  <1>4. Consistent(g)
    BY <1>2, <1>3, Unrelated
  <1> QED
    BY <1>3, <1>4

LEMMA AcknowledgementsConsistent ==
    ASSUME NEW h, Consistent(h), NEW p \in Peers,
           NEW a \in SUBSET {"DISCONNECT", "OTHER"}
    PROVE  /\ Consistent([h EXCEPT !.acks[p] = a])
           /\ [h EXCEPT !.acks[p] = a].state = h.state
  <1> DEFINE g == [h EXCEPT !.acks[p] = a]
  <1>1. h \in HostType
    BY DEF Consistent
  <1>2. g \in HostType
    BY <1>1 DEF HostType
  <1>3. /\ g.state = h.state /\ g.limited = h.limited
        /\ g.needsDispatch = h.needsDispatch
        /\ g.dispatchQueue = h.dispatchQueue
        /\ g.connectedPeers = h.connectedPeers
        /\ g.bandwidthLimitedPeers = h.bandwidthLimitedPeers
    BY <1>1 DEF HostType
  <1>4. Consistent(g)
    BY <1>2, <1>3, Unrelated
  <1> QED
    BY <1>3, <1>4

LEMMA QueueAcknowledgementConsistent ==
    ASSUME NEW h, Consistent(h), NEW p \in Peers, NEW kind \in {"DISCONNECT", "OTHER"}
    PROVE  Consistent(QueueAcknowledgement(h, p, kind))
  <1> DEFINE a == h.acks[p] \cup {kind}
  <1>1. a \in SUBSET {"DISCONNECT", "OTHER"}
    BY DEF Consistent, HostType
  <1>2. QueueAcknowledgement(h, p, kind) \in {h, [h EXCEPT !.acks[p] = a]}
    BY DEF QueueAcknowledgement
  <1> HIDE DEF a
  <1>3. Consistent([h EXCEPT !.acks[p] = a])
    BY <1>1, AcknowledgementsConsistent
  <1> QED
    BY <1>2, <1>3

\* Neither the state of p nor its acknowledgements count the timeouts.
LEMMA DispatchStateKeepsStrikes ==
    ASSUME NEW h, Consistent(h), NEW p \in Peers, NEW s \in States
    PROVE  DispatchState(h, p, s).strikes = h.strikes
  <1>1. h \in HostType /\ OnConnect(h, p) \in HostType
        /\ OnDisconnect(h, p) \in HostType /\ ChangeState(h, p, s) \in HostType
    BY OnConnectCounts, OnDisconnectCounts, ChangeStateConsistent DEF Consistent
  <1>2. OnConnect(h, p).strikes = h.strikes /\ OnDisconnect(h, p).strikes = h.strikes
    BY <1>1 DEF OnConnect, OnDisconnect, HostType
  <1>3. ChangeState(h, p, s).strikes = h.strikes
    BY <1>1, <1>2 DEF ChangeState, HostType
  <1>4. Enqueue(ChangeState(h, p, s), p).strikes = ChangeState(h, p, s).strikes
    <2> DEFINE c == ChangeState(h, p, s)
    <2>1. c \in HostType
      BY <1>1
    <2> HIDE DEF c
    <2>2. Enqueue(c, p).strikes = c.strikes
      BY <2>1 DEF Enqueue, HostType
    <2> QED
      BY <2>2 DEF c
  <1> QED
    BY <1>3, <1>4 DEF DispatchState

LEMMA SendAcknowledgementsConsistent ==
    ASSUME NEW h, Consistent(h), NEW p \in Peers
    PROVE  /\ Consistent(SendAcknowledgements(h, p))
           /\ SendAcknowledgements(h, p).strikes = h.strikes
  <1> DEFINE g == IF "DISCONNECT" \in h.acks[p] THEN DispatchState(h, p, "ZOMBIE")
                  ELSE h
  <1>1. Consistent(g) /\ g.strikes = h.strikes
    BY DispatchStateConsistent, DispatchStateKeepsStrikes DEF States
  <1>2. SendAcknowledgements(h, p) = [g EXCEPT !.acks[p] = {}]
    BY DEF SendAcknowledgements
  <1> HIDE DEF g
  <1>3. Consistent([g EXCEPT !.acks[p] = {}])
    BY <1>1, AcknowledgementsConsistent
  <1>4. [g EXCEPT !.acks[p] = {}].strikes = g.strikes
    BY <1>1 DEF Consistent, HostType
  <1> QED
    BY <1>1, <1>2, <1>3, <1>4

LEMMA StrikesConsistent ==
    ASSUME NEW h, Consistent(h), NEW p \in Peers, NEW n \in 0 .. MaxStrikes
    PROVE  Consistent([h EXCEPT !.strikes[p] = n])
  <1> DEFINE g == [h EXCEPT !.strikes[p] = n]
  <1>1. h \in HostType
    BY DEF Consistent
  <1>2. g \in HostType
    BY <1>1, AssignStrikes
  <1>3. /\ g.state = h.state /\ g.limited = h.limited
        /\ g.needsDispatch = h.needsDispatch
        /\ g.dispatchQueue = h.dispatchQueue
        /\ g.connectedPeers = h.connectedPeers
        /\ g.bandwidthLimitedPeers = h.bandwidthLimitedPeers
    BY <1>1 DEF HostType
  <1> QED
    BY <1>2, <1>3, Unrelated

\* A timeout counts one strike more, below the bound the step has guarded.
LEMMA CheckTimeoutsConsistent ==
    ASSUME NEW h, Consistent(h), NEW p \in Peers, NEW expired \in SUBSET Kinds,
           h.strikes[p] = MaxStrikes => expired = {}
    PROVE  Consistent(CheckTimeouts(h, p, expired))
  <1> DEFINE n == h.strikes[p] + 1
             f == [h EXCEPT !.sent[p] = @ \ expired,
                            !.resend[p] = @ \cup expired]
             g == [h EXCEPT !.sent[p] = @ \ expired,
                            !.resend[p] = @ \cup expired,
                            !.strikes[p] = n]
  <1>1. CASE expired = {}
    BY <1>1 DEF CheckTimeouts
  <1>2. CASE expired # {}
    <2>1. h \in HostType /\ f \in HostType
      BY DEF Consistent, HostType
    <2>2. /\ f.state = h.state /\ f.limited = h.limited
          /\ f.needsDispatch = h.needsDispatch
          /\ f.dispatchQueue = h.dispatchQueue
          /\ f.connectedPeers = h.connectedPeers
          /\ f.bandwidthLimitedPeers = h.bandwidthLimitedPeers
      BY <2>1 DEF HostType
    <2>3. Consistent(f)
      BY <2>1, <2>2, Unrelated
    <2>4. h.strikes[p] \in 0 .. MaxStrikes /\ h.strikes[p] # MaxStrikes
      BY <1>2, <2>1 DEF HostType
    <2>5. n \in 0 .. MaxStrikes
      BY <2>4, BoundsAssumption
    <2> HIDE DEF n
    <2>6. g = [f EXCEPT !.strikes[p] = n]
      BY <2>1 DEF HostType
    <2>7. Consistent(g)
      <3> HIDE DEF f, g
      <3> QED
        BY <2>3, <2>5, <2>6, StrikesConsistent
    <2> QED
      BY <1>2, <2>7 DEF CheckTimeouts, n
  <1> QED
    BY <1>1, <1>2

LEMMA PingConsistent ==
    ASSUME NEW h, Consistent(h), NEW p \in Peers
    PROVE  Consistent(Ping(h, p))
  <1>1. Consistent([h EXCEPT !.ready[p] = {"CONTROL"}])
    BY ReadyConsistent DEF Kinds
  <1> QED
    BY <1>1, SendReliableConsistent DEF Ping

LEMMA SendUnreliableConsistent ==
    ASSUME NEW h, Consistent(h), NEW p \in Peers
    PROVE  Consistent(SendUnreliable(h, p))
  <1>1. Consistent([h EXCEPT !.unreliable[p] = FALSE])
    BY UnreliableConsistent
  <1> QED
    BY <1>1, DisconnectIfDrainedConsistent DEF SendUnreliable

\* A DISCONNECT leads to a consistent record from every state.
LEMMA DisconnectedConsistent ==
    ASSUME NEW h, Consistent(h), NEW p \in Peers, NEW ack \in BOOLEAN
    PROVE  Consistent(Disconnected(h, p, ack))
  <1> DEFINE g == ResetQueues(h, p)
             b == g.recalculate \/ h.state[p] = "CONNECTION_PENDING"
             r == [g EXCEPT !.recalculate = b]
  <1>1. Consistent(g)
    BY ResetQueuesConsistent
  <1>2. b \in BOOLEAN
    BY <1>1 DEF Consistent, HostType
  <1>3. /\ Consistent(DispatchState(g, p, "ZOMBIE"))
        /\ Consistent(ChangeState(g, p, "ACKNOWLEDGING_DISCONNECT"))
    BY <1>1, DispatchStateConsistent, ChangeStateConsistent DEF States
  <1>4. Consistent(PeerReset(r, p))
    <2> HIDE DEF g, b
    <2>1. Consistent(r)
      BY <1>1, <1>2, RecalculateConsistent
    <2> HIDE DEF r
    <2> QED
      BY <2>1, PeerResetConsistent
  <1>5. Disconnected(h, p, ack) \in
           {h, DispatchState(g, p, "ZOMBIE"), PeerReset(r, p),
            ChangeState(g, p, "ACKNOWLEDGING_DISCONNECT")}
    <2> HIDE DEF g, r
    <2> QED
      BY DEF Disconnected, g, b, r
  <1> QED
    BY <1>3, <1>4, <1>5

LEMMA DispatchPacketsConsistent ==
    ASSUME NEW h, Consistent(h), NEW p \in Peers, NEW n \in Nat,
           n <= MaxDispatched - h.dispatched[p]
    PROVE  Consistent(DispatchPackets(h, p, n))
  <1> DEFINE m == h.dispatched[p] + n
             g == [h EXCEPT !.dispatched[p] = m]
  <1>1. h \in HostType
    BY DEF Consistent
  <1>2. h.dispatched[p] \in 0 .. MaxDispatched
    BY <1>1 DEF HostType
  <1>3. m \in 0 .. MaxDispatched
    BY <1>2, BoundsAssumption
  <1>4. DispatchPackets(h, p, n) \in {h, Enqueue(g, p)}
    BY DEF DispatchPackets
  <1> HIDE DEF m
  <1>5. g \in HostType
    BY <1>1, <1>3, AssignDispatched
  <1>6. /\ g.state = h.state /\ g.limited = h.limited
        /\ g.needsDispatch = h.needsDispatch
        /\ g.dispatchQueue = h.dispatchQueue
        /\ g.connectedPeers = h.connectedPeers
        /\ g.bandwidthLimitedPeers = h.bandwidthLimitedPeers
    BY <1>1 DEF HostType
  <1> HIDE DEF g
  <1>7. Consistent(Enqueue(g, p))
    BY <1>5, <1>6, Unrelated, EnqueueConsistent
  <1> QED
    BY <1>4, <1>7

\* A live peer that announces a new bandwidth is uncounted, then counted.
LEMMA BandwidthLimitConsistent ==
    ASSUME NEW h, Consistent(h), NEW p \in Peers, h.state[p] \in Live,
           NEW lim \in BOOLEAN
    PROVE  Consistent([h EXCEPT !.bandwidthLimitedPeers =
                                    @ - One(h.limited[p]) + One(lim),
                                !.limited[p] = lim])
  <1> DEFINE w == h.bandwidthLimitedPeers - One(h.limited[p]) + One(lim)
             g == [h EXCEPT !.bandwidthLimitedPeers = w, !.limited[p] = lim]
             rest == LimitedPeers(h) \ {p}
  <1>1. h \in HostType
    BY DEF Consistent
  <1>2. w \in Nat
    BY Countable, OneType
  <1>3. LimitedPeers(h) \in SUBSET Peers /\ rest \in SUBSET Peers /\ p \notin rest
    BY DEF LimitedPeers, LivePeers
  <1>4. Cardinality(rest) = h.bandwidthLimitedPeers - One(h.limited[p])
    <2>1. CASE h.limited[p]
      <3>1. p \in LimitedPeers(h)
        BY <2>1 DEF LimitedPeers, LivePeers
      <3>2. Cardinality(rest) = Cardinality(LimitedPeers(h)) - 1
        BY <1>3, <3>1, Left
      <3> QED
        BY <2>1, <3>2 DEF One, Consistent, Counted
    <2>2. CASE ~h.limited[p]
      <3>1. rest = LimitedPeers(h)
        BY <2>2 DEF LimitedPeers
      <3>2. One(h.limited[p]) = 0 /\ h.bandwidthLimitedPeers \in Nat
        BY <2>2, <1>1, Fields DEF One
      <3>3. h.bandwidthLimitedPeers = Cardinality(LimitedPeers(h))
        BY DEF Consistent, Counted
      <3> QED
        BY <3>1, <3>2, <3>3
    <2> QED
      BY <2>1, <2>2
  <1>5. Cardinality(rest) + One(lim) = w /\ Cardinality(rest) \in Nat
    BY <1>3, <1>4, FinitePeers
  <1> HIDE DEF w
  <1>6. g \in HostType
    BY <1>1, <1>2 DEF HostType
  <1>7. /\ g.state = h.state /\ g.limited = [h.limited EXCEPT ![p] = lim]
        /\ g.needsDispatch = h.needsDispatch
        /\ g.dispatchQueue = h.dispatchQueue
        /\ g.connectedPeers = h.connectedPeers
        /\ g.bandwidthLimitedPeers = w
    BY <1>1 DEF HostType
  <1> HIDE DEF g
  <1>8. LivePeers(g) = LivePeers(h) /\ p \in LivePeers(h)
    BY <1>7 DEF LivePeers
  <1>9. w = Cardinality(LimitedPeers(g))
    <2>1. CASE lim
      <3>1. LimitedPeers(g) = rest \cup {p}
        BY <1>1, <1>7, <1>8, <2>1, Fields DEF LimitedPeers
      <3> HIDE DEF rest
      <3> QED
        BY <1>3, <1>5, <2>1, <3>1, Joined DEF One
    <2>2. CASE ~lim
      <3>1. LimitedPeers(g) = rest
        BY <1>1, <1>7, <1>8, <2>2, Fields DEF LimitedPeers
      <3> HIDE DEF rest
      <3> QED
        BY <1>5, <2>2, <3>1 DEF One
    <2> QED
      BY <2>1, <2>2
  <1>10. Consistent(g)
    BY <1>6, <1>7, <1>8, <1>9 DEF Consistent, Counted, Linked
  <1> QED
    BY <1>10 DEF g, w

\* The head of a queue without duplicates is not in its tail.
LEMMA TailLinked ==
    ASSUME NEW q \in Seq(Peers), IsInjective(q), q # <<>>
    PROVE  /\ Head(q) \in Peers /\ Tail(q) \in Seq(Peers)
           /\ IsInjective(Tail(q))
           /\ ToSet(Tail(q)) = ToSet(q) \ {Head(q)}
  <1> DEFINE r == Tail(q)
  <1>1. /\ Head(q) = q[1] /\ Head(q) \in Peers
        /\ r \in Seq(Peers) /\ Len(r) = Len(q) - 1
        /\ \A i \in 1 .. Len(r) : r[i] = q[i + 1]
    BY HeadTailProperties
  <1>2. /\ DOMAIN q = 1 .. Len(q) /\ Len(q) \in Nat /\ Len(q) > 0
        /\ DOMAIN r = 1 .. Len(q) - 1
    BY <1>1, LenProperties, EmptySeq
  <1> HIDE DEF r
  <1>3. IsInjective(r)
    BY SMTT(30), <1>1, <1>2 DEF IsInjective
  <1>4. ToSet(r) \subseteq ToSet(q) \ {q[1]}
    BY <1>1, <1>2 DEF IsInjective, ToSet
  <1>5. ASSUME NEW j \in DOMAIN q, q[j] # q[1]
        PROVE  q[j] \in ToSet(r)
    <2>1. j - 1 \in DOMAIN r /\ r[j - 1] = q[j]
      BY <1>1, <1>2, <1>5
    <2> QED
      BY <2>1 DEF ToSet
  <1>6. ToSet(q) \ {q[1]} \subseteq ToSet(r)
    BY <1>5 DEF ToSet
  <1> QED
    BY <1>1, <1>3, <1>4, <1>6 DEF r

\* The peer that is dispatched leaves the queue.
LEMMA DequeueConsistent ==
    ASSUME NEW h, Consistent(h), h.dispatchQueue # <<>>,
           NEW p \in Peers, p = Head(h.dispatchQueue)
    PROVE  LET g == [h EXCEPT !.dispatchQueue = Tail(@),
                              !.needsDispatch[p] = FALSE]
           IN  Consistent(g) /\ g.dispatched = h.dispatched
  <1> DEFINE t == Tail(h.dispatchQueue)
             g == [h EXCEPT !.dispatchQueue = t, !.needsDispatch[p] = FALSE]
  <1>1. h \in HostType
    BY DEF Consistent
  <1>2. /\ t \in Seq(Peers) /\ IsInjective(t)
        /\ ToSet(t) = ToSet(h.dispatchQueue) \ {p}
    BY <1>1, Fields, TailLinked DEF Consistent, Linked
  <1> HIDE DEF t
  <1>3. /\ g \in HostType
        /\ g.needsDispatch = [h.needsDispatch EXCEPT ![p] = FALSE]
        /\ g.dispatchQueue = t
        /\ g.state = h.state /\ g.limited = h.limited
        /\ g.connectedPeers = h.connectedPeers
        /\ g.bandwidthLimitedPeers = h.bandwidthLimitedPeers
        /\ g.dispatched = h.dispatched
    BY <1>1, <1>2 DEF HostType
  <1> HIDE DEF g
  <1>4. {r \in Peers : g.needsDispatch[r]} = {r \in Peers : h.needsDispatch[r]} \ {p}
    BY <1>1, <1>3, Fields
  <1>5. Linked(g)
    BY <1>2, <1>3, <1>4 DEF Consistent, Linked
  <1>6. Counted(g)
    BY <1>3 DEF Consistent, Counted, LivePeers, LimitedPeers
  <1> QED
    BY <1>3, <1>5, <1>6 DEF Consistent, g, t

-----------------------------------------------------------------------------
(***************************************************************************)
(* The invariant.                                                          *)
(***************************************************************************)

\* TypeOK and the counters are not inductive alone: that the unsigned counters
\* do not wrap follows from what they count, and that unlinking a peer finds it
\* follows from what is linked.  A flush knows the peer it will reset.
Control ==
    /\ phase \in Phases
    /\ wantsEvent \in BOOLEAN
    /\ cursor \in 0 .. PeerCount
    /\ rx \in Peers \cup {NoPeer}
    /\ doomed \in Peers \cup {NoPeer}
    /\ told \in [Peers -> SUBSET {"CONNECT", "DISCONNECT"}]
    /\ initiator \in [Peers -> BOOLEAN]
    /\ asked \in [Peers -> BOOLEAN]
    /\ phase = "flush" => doomed \in Peers

IInv == Consistent(host) /\ Control

LEMMA InvariantImplies ==
    IInv => TypeOK /\ ConnectedCount /\ LimitedCount /\ DispatchQueueLinked
  BY DEF IInv, Control, TypeOK, ConnectedCount, LimitedCount,
         DispatchQueueLinked, Consistent, Counted, Linked

\* enet_host_create
LEMMA InitInvariant == Init => IInv
  <1> SUFFICES ASSUME Init
               PROVE  IInv
    OBVIOUS
  <1>1. host \in HostType
    BY BoundsAssumption, EventTypes DEF Init, HostType, States, Events
  <1>2. LivePeers(host) = {} /\ LimitedPeers(host) = {}
    BY DEF Init, LivePeers, LimitedPeers, Live
  <1>3. Counted(host)
    BY <1>2, FS_EmptySet DEF Init, Counted
  <1>4. Linked(host)
    BY DEF Init, Linked, IsInjective, ToSet
  <1>5. Control
    <2>1. cursor \in 0 .. PeerCount
      BY PeerCountAssumption DEF Init
    <2>2. phase \in Phases /\ phase # "flush"
      BY DEF Init, Phases
    <2> QED
      BY <2>1, <2>2 DEF Init, Control
  <1> QED
    BY <1>1, <1>3, <1>4, <1>5 DEF IInv, Consistent

-----------------------------------------------------------------------------
(***************************************************************************)
(* The application's calls.                                                *)
(***************************************************************************)

\* Neither DISCONNECTED nor one of the states of a handshake is live.
LEMMA NotLive ==
    {"DISCONNECTED", "CONNECTING", "ACKNOWLEDGING_CONNECT", "DISCONNECTING",
     "ACKNOWLEDGING_DISCONNECT", "ZOMBIE"} \cap Live = {}
  BY DEF Live

LEMMA ConnectInvariant ==
    ASSUME IInv, NEW p \in Peers, Connect(p)
    PROVE  IInv'
  <1> DEFINE r == host.ready[p] \cup {"CONNECT"}
             f == [host EXCEPT !.ready[p] = r]
             g == [f EXCEPT !.state[p] = "CONNECTING"]
  <1>1. Consistent(host) /\ host \in HostType /\ host.state[p] = "DISCONNECTED"
    BY DEF IInv, Consistent, Connect, IsFirstFree
  <1>2. r \in SUBSET Kinds
    BY <1>1 DEF HostType, Kinds
  <1> HIDE DEF r
  <1>3. Consistent(f) /\ f.state = host.state
    BY <1>1, <1>2, ReadyConsistent
  <1> HIDE DEF f
  <1>4. g = ChangeState(f, p, "CONNECTING")
    BY <1>1, <1>3 DEF ChangeState, OnDisconnect, Live
  <1>5. Consistent(g)
    BY <1>3, <1>4, ChangeStateConsistent DEF States
  <1>6. host' = g
    BY <1>1 DEF Connect, HostType, g, f, r
  <1>7. Control'
    BY DEF IInv, Control, Connect, NewConnection
  <1> QED
    BY <1>5, <1>6, <1>7 DEF IInv

LEMMA SendInvariant ==
    ASSUME IInv, NEW p \in Peers, NEW reliable \in BOOLEAN, Send(p, reliable)
    PROVE  IInv'
  <1> DEFINE r == host.ready[p] \cup {"DATA"}
  <1>1. Consistent(host)
    BY DEF IInv
  <1>2. r \in SUBSET Kinds
    BY <1>1 DEF Consistent, HostType, Kinds
  <1>3. \/ host' = [host EXCEPT !.ready[p] = r]
        \/ host' = [host EXCEPT !.unreliable[p] = TRUE]
    BY DEF Send
  <1> HIDE DEF r
  <1>4. Consistent(host')
    <2>1. Consistent([host EXCEPT !.ready[p] = r])
      BY <1>1, <1>2, ReadyConsistent
    <2>2. Consistent([host EXCEPT !.unreliable[p] = TRUE])
      BY <1>1, UnreliableConsistent
    <2> QED
      BY <1>3, <2>1, <2>2
  <1>5. Control'
    BY DEF IInv, Control, Send, history
  <1> QED
    BY <1>4, <1>5 DEF IInv

LEMMA FlushAndResetInvariant ==
    ASSUME IInv, NEW p \in Peers, FlushAndReset(p),
           told' = told, initiator' = initiator, asked' \in [Peers -> BOOLEAN]
    PROVE  IInv'
  <1> DEFINE g == ResetQueues(host, p)
  <1>1. Consistent(g)
    BY ResetQueuesConsistent DEF IInv
  <1>2. host' = [g EXCEPT !.unreliable[p] = TRUE]
    BY DEF FlushAndReset
  <1> HIDE DEF g
  <1>3. Consistent(host')
    BY <1>1, <1>2, UnreliableConsistent
  <1>4. Control'
    BY PeerCountAssumption DEF IInv, Control, FlushAndReset, Phases
  <1> QED
    BY <1>3, <1>4 DEF IInv

LEMMA DisconnectInvariant ==
    ASSUME IInv, NEW p \in Peers, Disconnect(p)
    PROVE  IInv'
  <1>1. /\ told' = told /\ initiator' = initiator
        /\ asked' \in [Peers -> BOOLEAN]
    BY DEF Disconnect, IInv, Control
  <1>2. CASE FlushAndReset(p)
    BY <1>1, <1>2, FlushAndResetInvariant
  <1>3. CASE /\ host.state[p] \in Live
             /\ host' = DisconnectLive(host, p)
             /\ UNCHANGED <<phase, wantsEvent, cursor, rx, doomed>>
    <2>1. Consistent(host')
      BY <1>3, DisconnectLiveConsistent DEF IInv
    <2>2. Control'
      BY <1>1, <1>3 DEF IInv, Control
    <2> QED
      BY <2>1, <2>2 DEF IInv
  <1> QED
    BY <1>2, <1>3 DEF Disconnect

LEMMA DisconnectLaterInvariant ==
    ASSUME IInv, NEW p \in Peers, DisconnectLater(p)
    PROVE  IInv'
  <1>1. CASE host.state[p] \in Live /\ ~(Drained(host, p) /\ ~host.unreliable[p])
    <2>1. host' = ChangeState(host, p, "DISCONNECT_LATER")
      BY <1>1 DEF DisconnectLater, ChangeState, OnConnect, Live
    <2>2. Consistent(host')
      BY <2>1, ChangeStateConsistent DEF IInv, States
    <2>3. Control'
      BY <1>1 DEF DisconnectLater, IInv, Control
    <2> QED
      BY <2>2, <2>3 DEF IInv
  <1>2. CASE Disconnect(p)
    BY <1>2, DisconnectInvariant
  <1> QED
    BY <1>1, <1>2 DEF DisconnectLater

LEMMA DisconnectNowInvariant ==
    ASSUME IInv, NEW p \in Peers, DisconnectNow(p)
    PROVE  IInv'
  <1>1. /\ told' = told /\ initiator' = initiator
        /\ asked' \in [Peers -> BOOLEAN]
    BY DEF DisconnectNow, IInv, Control
  <1>2. CASE FlushAndReset(p)
    BY <1>1, <1>2, FlushAndResetInvariant
  <1>3. CASE /\ host' = PeerReset(host, p)
             /\ UNCHANGED <<phase, wantsEvent, cursor, rx, doomed>>
    <2>1. Consistent(host')
      BY <1>3, PeerResetConsistent DEF IInv
    <2>2. Control'
      BY <1>1, <1>3 DEF IInv, Control
    <2> QED
      BY <2>1, <2>2 DEF IInv
  <1> QED
    BY <1>2, <1>3 DEF DisconnectNow

LEMMA ApplicationInvariant ==
    ASSUME IInv, NEW p \in Peers, Application(p)
    PROVE  IInv'
  BY SendsAssumption, ConnectInvariant, SendInvariant, DisconnectInvariant,
     DisconnectLaterInvariant, DisconnectNowInvariant DEF Application

-----------------------------------------------------------------------------
(***************************************************************************)
(* enet_host_service.                                                      *)
(***************************************************************************)

\* The loop of send_outgoing_commands stays between the first peer and the end.
LEMMA CursorRange ==
    /\ 0 \in 0 .. PeerCount /\ PeerCount \in 0 .. PeerCount
    /\ \A c \in 0 .. PeerCount : c < PeerCount => c + 1 \in 0 .. PeerCount
  BY PeerCountAssumption

LEMMA ServiceInvariant ==
    ASSUME IInv, Service
    PROVE  IInv'
  <1>1. Control'
    BY EventArgsAssumption DEF IInv, Control, Service, Idle, Phases, history
  <1> QED
    BY <1>1 DEF IInv, Service

LEMMA BandwidthThrottleInvariant ==
    ASSUME IInv, BandwidthThrottle
    PROVE  IInv'
  <1> DEFINE r == [p \in Peers |->
                     IF /\ host.state[p] \in Live
                        /\ "CONTROL" \notin Outstanding(host, p)
                     THEN host.ready[p] \cup {"CONTROL"}
                     ELSE host.ready[p]]
             g == [host EXCEPT !.recalculate = FALSE, !.ready = r]
  <1>1. Consistent(host) /\ host \in HostType
    BY DEF IInv, Consistent
  <1>2. r \in [Peers -> SUBSET Kinds]
    BY <1>1 DEF HostType, Kinds
  <1>3. host' = host \/ host' = g
    BY DEF BandwidthThrottle
  <1> HIDE DEF r
  <1>4. /\ g \in HostType
        /\ g.state = host.state /\ g.limited = host.limited
        /\ g.needsDispatch = host.needsDispatch
        /\ g.dispatchQueue = host.dispatchQueue
        /\ g.connectedPeers = host.connectedPeers
        /\ g.bandwidthLimitedPeers = host.bandwidthLimitedPeers
    BY <1>1, <1>2 DEF HostType
  <1> HIDE DEF g
  <1>5. Consistent(g)
    BY <1>1, <1>4, Unrelated
  <1>6. Control'
    BY DEF BandwidthThrottle, IInv, Control, Phases, history
  <1> QED
    BY <1>1, <1>3, <1>5, <1>6 DEF IInv

LEMMA DispatchNextInvariant ==
    ASSUME IInv, NEW p \in Peers, DispatchNext(p)
    PROVE  IInv'
  <1> DEFINE g == [host EXCEPT !.dispatchQueue = Tail(@),
                               !.needsDispatch[p] = FALSE]
             c == ChangeState(g, p, "CONNECTED")
             z == [g EXCEPT !.recalculate = TRUE, !.event = Event("DISCONNECT", p)]
             r == [g EXCEPT !.dispatched[p] = @ - 1, !.event = Event("RECEIVE", p)]
  <1>1. Consistent(g) /\ g.dispatched = host.dispatched
    BY DequeueConsistent DEF IInv, DispatchNext
  <1>2. \/ host' = [c EXCEPT !.event = Event("CONNECT", p)]
        \/ host' = PeerReset(z, p)
        \/ host.dispatched[p] > 0 /\ host' \in {Enqueue(r, p), r}
        \/ host' = g
    BY DEF DispatchNext
  <1> HIDE DEF g
  <1>3. Consistent([c EXCEPT !.event = Event("CONNECT", p)])
    <2>1. Consistent(c)
      BY <1>1, ChangeStateConsistent DEF States
    <2> HIDE DEF c
    <2> QED
      BY <2>1, EventTypes, EventConsistent
  <1>4. Consistent(PeerReset(z, p))
    <2> DEFINE y == [g EXCEPT !.recalculate = TRUE]
    <2>1. Consistent(y)
      BY <1>1, RecalculateConsistent
    <2>2. z = [y EXCEPT !.event = Event("DISCONNECT", p)]
      BY <1>1 DEF Consistent, HostType
    <2> HIDE DEF y, z
    <2> QED
      BY <2>1, <2>2, EventTypes, EventConsistent, PeerResetConsistent
  <1>5. ASSUME host.dispatched[p] > 0
        PROVE  Consistent(r) /\ Consistent(Enqueue(r, p))
    <2> DEFINE n == g.dispatched[p] - 1
               y == [g EXCEPT !.dispatched[p] = n]
    <2>1. g.dispatched[p] \in 0 .. MaxDispatched /\ g.dispatched[p] > 0
      BY <1>1, <1>5 DEF Consistent, HostType
    <2>2. n \in 0 .. MaxDispatched
      BY <2>1, BoundsAssumption
    <2>3. r = [y EXCEPT !.event = Event("RECEIVE", p)]
      BY <1>1 DEF Consistent, HostType
    <2> HIDE DEF n
    <2>4. g \in HostType /\ y \in HostType
      BY <1>1, <2>2, AssignDispatched DEF Consistent
    <2>5. /\ y.state = g.state /\ y.limited = g.limited
          /\ y.needsDispatch = g.needsDispatch
          /\ y.dispatchQueue = g.dispatchQueue
          /\ y.connectedPeers = g.connectedPeers
          /\ y.bandwidthLimitedPeers = g.bandwidthLimitedPeers
      BY <2>4 DEF HostType
    <2> HIDE DEF y, r
    <2>6. Consistent(y)
      BY <1>1, <2>4, <2>5, Unrelated
    <2> QED
      BY <2>3, <2>6, EventTypes, EventConsistent, EnqueueConsistent
  <1> HIDE DEF c, z, r
  <1>6. Consistent(host')
    BY <1>1, <1>2, <1>3, <1>4, <1>5
  <1>7. Control'
    BY DEF DispatchNext, IInv, Control, Phases, history
  <1> QED
    BY <1>6, <1>7 DEF IInv

LEMMA DispatchDoneInvariant ==
    ASSUME IInv, DispatchDone
    PROVE  IInv'
  <1>1. Control'
    BY CursorRange
       DEF DispatchDone, Return, IInv, Control, Phases, history
  <1> QED
    BY <1>1 DEF IInv, DispatchDone

LEMMA DeliverInvariant ==
    ASSUME IInv, NEW p \in Peers, Deliver(p)
    PROVE  IInv'
  <1>1. Consistent(host')
    BY EventTypes, EventConsistent DEF IInv, Deliver
  <1>2. told' \in [Peers -> SUBSET {"CONNECT", "DISCONNECT"}]
    <2>1. /\ host.event \in Events /\ host.event.peer = p
          /\ told \in [Peers -> SUBSET {"CONNECT", "DISCONNECT"}]
      BY DEF IInv, Control, Consistent, HostType, Deliver
    <2>2. host.event.type \in {"CONNECT", "RECEIVE", "DISCONNECT"}
      BY <2>1 DEF Events, NoEvent, Peers
    <2> QED
      BY <2>1, <2>2 DEF Deliver
  <1>3. Control'
    BY <1>2, CursorRange DEF Deliver, Return, IInv, Control, Phases
  <1> QED
    BY <1>1, <1>3 DEF IInv

-----------------------------------------------------------------------------
(***************************************************************************)
(* Sending.                                                                *)
(***************************************************************************)

LEMMA SkipPeerInvariant ==
    ASSUME IInv, NEW p \in Peers, SkipPeer(p)
    PROVE  IInv'
  <1>1. Control'
    BY CursorRange DEF SkipPeer, Sending, IInv, Control, history
  <1> QED
    BY <1>1 DEF IInv, SkipPeer

LEMMA SendToInvariant ==
    ASSUME IInv, NEW p \in Peers, NEW expired \in SUBSET host.sent[p],
           NEW ping \in BOOLEAN, NEW fails \in BOOLEAN,
           SendTo(p, expired, ping, fails)
    PROVE  IInv'
  <1> DEFINE a == SendAcknowledgements(host, p)
             t == CheckTimeouts(a, p, expired)
             r == SendReliable(t, p)
             q == IF ping THEN Ping(r, p) ELSE r
  <1>1. Consistent(a) /\ a.strikes = host.strikes
    BY SendAcknowledgementsConsistent DEF IInv
  <1>2. expired \in SUBSET Kinds
    BY DEF IInv, Consistent, HostType
  <1>3. host.strikes[p] = MaxStrikes => expired = {}
    BY DEF SendTo
  <1>4. host' = SendUnreliable(q, p)
    BY DEF SendTo
  <1> HIDE DEF a
  <1>5. Consistent(t)
    BY <1>1, <1>2, <1>3, CheckTimeoutsConsistent
  <1> HIDE DEF t
  <1>6. Consistent(r)
    BY <1>5, SendReliableConsistent
  <1> HIDE DEF r
  <1>7. Consistent(q)
    BY <1>6, PingConsistent
  <1> HIDE DEF q
  <1>8. Consistent(host')
    BY <1>4, <1>7, SendUnreliableConsistent
  <1>9. Control'
    <2>1. /\ phase' \in {phase, "idle"} /\ wantsEvent' \in BOOLEAN
          /\ cursor' \in 0 .. PeerCount
      BY CursorRange DEF SendTo, Sending, Return, IInv, Control
    <2> QED
      BY <2>1 DEF SendTo, IInv, Control, Phases, history
  <1> QED
    BY <1>8, <1>9 DEF IInv

LEMMA GiveUpInvariant ==
    ASSUME IInv, NEW p \in Peers, GiveUp(p)
    PROVE  IInv'
  <1> DEFINE a == SendAcknowledgements(host, p)
  <1>1. Consistent(a)
    BY SendAcknowledgementsConsistent DEF IInv
  <1>2. host' = NotifyDisconnect(a, p, wantsEvent) /\ wantsEvent \in BOOLEAN
    BY DEF GiveUp, IInv, Control
  <1> HIDE DEF a
  <1>3. Consistent(host')
    BY <1>1, <1>2, NotifyDisconnectConsistent
  <1>4. Control'
    BY CursorRange
       DEF GiveUp, Sending, IInv, Control, Phases, history
  <1> QED
    BY <1>3, <1>4 DEF IInv

LEMMA SendDoneInvariant ==
    ASSUME IInv, SendDone
    PROVE  IInv'
  <1>1. Consistent(host')
    <2>1. CASE host' = host
      BY <2>1 DEF IInv
    <2>2. CASE phase = "flush" /\ host' = PeerReset(host, doomed)
      BY <2>2, PeerResetConsistent DEF IInv, Control
    <2> QED
      BY <2>1, <2>2 DEF SendDone
  <1>2. Control'
    BY CursorRange DEF SendDone, Return, IInv, Control, Phases, history
  <1> QED
    BY <1>1, <1>2 DEF IInv

-----------------------------------------------------------------------------
(***************************************************************************)
(* Receiving.                                                              *)
(***************************************************************************)

\* A step of the receive loop that leaves the record consistent: it only moves
\* on to the next command or datagram, to the delivery or to the second send.
LEMMA ReceiveStep ==
    ASSUME IInv, Consistent(host'), phase' \in Phases \ {"flush"},
           rx' \in Peers \cup {NoPeer},
           UNCHANGED <<wantsEvent, cursor, doomed, told, initiator, asked>>
    PROVE  IInv'
  BY DEF IInv, Control

LEMMA ReceiveDatagramInvariant ==
    ASSUME IInv, NEW p \in Peers, ReceiveDatagram(p)
    PROVE  IInv'
  BY ReceiveStep
     DEF ReceiveDatagram, Receiving, IInv, Control, Phases, history

LEMMA EndDatagramInvariant ==
    ASSUME IInv, EndDatagram
    PROVE  IInv'
  BY ReceiveStep
     DEF EndDatagram, EndOfDatagram, IInv, Control, Phases, history

LEMMA ReceiveDoneInvariant ==
    ASSUME IInv, ReceiveDone
    PROVE  IInv'
  <1>1. Control'
    BY CursorRange
       DEF ReceiveDone, Receiving, Return, IInv, Control, Phases, history
  <1> QED
    BY <1>1 DEF IInv, ReceiveDone

LEMMA HandleConnectInvariant ==
    ASSUME IInv, NEW p \in Peers, NEW lim \in BOOLEAN, HandleConnect(p, lim)
    PROVE  IInv'
  <1> DEFINE r == host.ready[p] \cup {"VERIFY_CONNECT"}
             f == [host EXCEPT !.ready[p] = r]
             g == [f EXCEPT !.limited[p] = lim]
             c == ChangeState(g, p, "ACKNOWLEDGING_CONNECT")
  <1>1. /\ Consistent(host) /\ host \in HostType
        /\ host.state[p] = "DISCONNECTED" /\ host.state[p] \notin Live
    BY NotLive DEF IInv, Consistent, HandleConnect, IsFirstFree
  <1>2. r \in SUBSET Kinds
    BY <1>1 DEF HostType, Kinds
  <1> HIDE DEF r
  <1>3. Consistent(f) /\ f.state = host.state
    BY <1>1, <1>2, ReadyConsistent
  <1> HIDE DEF f
  <1>4. Consistent(g)
    BY <1>1, <1>3, LimitConsistent
  <1>5. g.state = f.state
    BY <1>3 DEF Consistent, HostType
  <1> HIDE DEF g
  <1>6. Consistent(c)
    BY <1>4, ChangeStateConsistent DEF States
  <1>7. c = [g EXCEPT !.state[p] = "ACKNOWLEDGING_CONNECT"]
    BY <1>1, <1>3, <1>5 DEF ChangeState, OnDisconnect, Live
  <1>8. host' = c
    BY <1>1, <1>7 DEF HandleConnect, HostType, g, f, r
  <1>9. Control'
    BY DEF HandleConnect, NewConnection, Receiving, IInv, Control
  <1> QED
    BY <1>6, <1>8, <1>9 DEF IInv

LEMMA HandleAcknowledgeInvariant ==
    ASSUME IInv, NEW p \in Peers, NEW kind \in Kinds \ {"CONNECT"},
           HandleAcknowledge(p, kind)
    PROVE  IInv'
  <1> DEFINE f == [host EXCEPT !.strikes[p] = 0]
             g == RemoveSentReliable(f, p, kind)
  <1>1. Consistent(f)
    BY BoundsAssumption, StrikesConsistent DEF IInv
  <1> HIDE DEF f
  <1>2. Consistent(g)
    BY <1>1, RemoveSentReliableConsistent
  <1> HIDE DEF g
  <1>3. /\ Consistent(NotifyConnect(g, p, wantsEvent))
        /\ Consistent(NotifyDisconnect(g, p, wantsEvent))
        /\ Consistent(DisconnectIfDrained(g, p))
    BY <1>2, NotifyConnectConsistent, NotifyDisconnectConsistent,
       DisconnectIfDrainedConsistent DEF IInv, Control
  <1>4. /\ \/ host' = NotifyConnect(g, p, wantsEvent)
           \/ host' = NotifyDisconnect(g, p, wantsEvent)
           \/ host' = g
           \/ host' = DisconnectIfDrained(g, p)
        /\ \/ UNCHANGED <<rx, phase>>
           \/ EndOfDatagram(g)
        /\ UNCHANGED <<wantsEvent, cursor, doomed, told, initiator, asked>>
    BY DEF HandleAcknowledge, g, f, history
  <1>5. Consistent(host')
    BY <1>2, <1>3, <1>4
  <1>6. Control'
    BY <1>4 DEF EndOfDatagram, IInv, Control, Phases
  <1> QED
    BY <1>5, <1>6 DEF IInv

LEMMA HandleVerifyConnectInvariant ==
    ASSUME IInv, NEW p \in Peers, NEW good \in BOOLEAN, NEW lim \in BOOLEAN,
           HandleVerifyConnect(p, good, lim)
    PROVE  IInv'
  <1> DEFINE f == RemoveSentReliable(host, p, "CONNECT")
             g == [f EXCEPT !.limited[p] = lim]
             n == NotifyConnect(g, p, wantsEvent)
             z == DispatchState(host, p, "ZOMBIE")
  <1>1. Consistent(host) /\ wantsEvent \in BOOLEAN
    BY DEF IInv, Control
  <1>2. Consistent(f) /\ f.state = host.state
    BY <1>1, RemoveSentReliableConsistent
  <1>3. Consistent(z) /\ Consistent(QueueAcknowledgement(host, p, "OTHER"))
    BY <1>1, DispatchStateConsistent, QueueAcknowledgementConsistent DEF States
  <1>4. ASSUME host.state[p] = "CONNECTING"
        PROVE  Consistent(QueueAcknowledgement(n, p, "OTHER"))
    <2> HIDE DEF f
    <2>1. Consistent(g)
      BY <1>2, <1>4, NotLive, LimitConsistent
    <2> HIDE DEF g
    <2>2. Consistent(n)
      BY <1>1, <2>1, NotifyConnectConsistent
    <2> HIDE DEF n
    <2> QED
      BY <2>2, QueueAcknowledgementConsistent
  <1>5. /\ \/ host' = QueueAcknowledgement(host, p, "OTHER")
           \/ /\ host.state[p] = "CONNECTING"
              /\ host' = QueueAcknowledgement(n, p, "OTHER")
           \/ host' = z
        /\ UNCHANGED <<rx, phase>> \/ EndOfDatagram(host)
        /\ UNCHANGED <<wantsEvent, cursor, doomed, told, initiator, asked>>
    BY DEF HandleVerifyConnect, history
  <1> HIDE DEF f, g, n, z
  <1>6. Consistent(host')
    BY <1>3, <1>4, <1>5
  <1>7. Control'
    BY <1>5 DEF EndOfDatagram, IInv, Control, Phases
  <1> QED
    BY <1>6, <1>7 DEF IInv

LEMMA HandleDisconnectInvariant ==
    ASSUME IInv, NEW p \in Peers, NEW ack \in BOOLEAN, HandleDisconnect(p, ack)
    PROVE  IInv'
  <1> DEFINE g == Disconnected(host, p, ack)
  <1>1. Consistent(g)
    BY DisconnectedConsistent DEF IInv
  <1>2. host' = IF ack THEN QueueAcknowledgement(g, p, "DISCONNECT") ELSE g
    BY DEF HandleDisconnect
  <1> HIDE DEF g
  <1>3. Consistent(host')
    BY <1>1, <1>2, QueueAcknowledgementConsistent
  <1>4. Control'
    BY DEF HandleDisconnect, IInv, Control, history
  <1> QED
    BY <1>3, <1>4 DEF IInv

LEMMA HandleLiveInvariant ==
    ASSUME IInv, NEW p \in Peers, NEW h, HandleLive(p, h),
           host.state[p] \in Live => Consistent(h)
    PROVE  IInv'
  <1>1. Consistent(host')
    BY DEF HandleLive, IInv
  <1>2. Control'
    BY DEF HandleLive, EndOfDatagram, IInv, Control, Phases, history
  <1> QED
    BY <1>1, <1>2 DEF IInv

LEMMA HandlePingInvariant ==
    ASSUME IInv, NEW p \in Peers, HandlePing(p)
    PROVE  IInv'
  BY QueueAcknowledgementConsistent, HandleLiveInvariant DEF HandlePing, IInv

LEMMA HandleBandwidthLimitInvariant ==
    ASSUME IInv, NEW p \in Peers, NEW lim \in BOOLEAN,
           HandleBandwidthLimit(p, lim)
    PROVE  IInv'
  <1> DEFINE g == [host EXCEPT !.bandwidthLimitedPeers =
                                   @ - One(host.limited[p]) + One(lim),
                               !.limited[p] = lim]
  <1>1. ASSUME host.state[p] \in Live
        PROVE  Consistent(g)
    BY <1>1, BandwidthLimitConsistent DEF IInv
  <1>2. HandleLive(p, QueueAcknowledgement(g, p, "OTHER"))
    BY DEF HandleBandwidthLimit
  <1> HIDE DEF g
  <1>3. host.state[p] \in Live => Consistent(QueueAcknowledgement(g, p, "OTHER"))
    BY <1>1, QueueAcknowledgementConsistent
  <1> QED
    BY <1>2, <1>3, HandleLiveInvariant

LEMMA HandleSendInvariant ==
    ASSUME IInv, NEW p \in Peers, NEW n \in 0 .. MaxDispatched,
           NEW ack \in BOOLEAN, HandleSend(p, n, ack)
    PROVE  IInv'
  <1> DEFINE g == DispatchPackets(host, p, n)
             h == IF ack THEN QueueAcknowledgement(g, p, "OTHER") ELSE g
  <1>1. n \in Nat /\ n <= MaxDispatched - host.dispatched[p]
    BY BoundsAssumption DEF HandleSend
  <1>2. Consistent(g)
    BY <1>1, DispatchPacketsConsistent DEF IInv
  <1>3. HandleLive(p, h)
    BY DEF HandleSend
  <1> HIDE DEF g
  <1>4. Consistent(h)
    BY <1>2, QueueAcknowledgementConsistent
  <1> HIDE DEF h
  <1> QED
    BY <1>3, <1>4, HandleLiveInvariant

LEMMA HandleInvariant ==
    ASSUME IInv, NEW p \in Peers, Handle(p)
    PROVE  IInv'
  BY LimitsAssumption, HandleAcknowledgeInvariant, HandleVerifyConnectInvariant,
     HandleDisconnectInvariant, HandlePingInvariant,
     HandleBandwidthLimitInvariant, HandleSendInvariant DEF Handle

-----------------------------------------------------------------------------
(***************************************************************************)
(* The theorems.                                                           *)
(***************************************************************************)

\* Every step, of the application or of enet_host_service, keeps the invariant.
LEMMA StepInvariant == IInv /\ [Next]_vars => IInv'
  <1> SUFFICES ASSUME IInv, [Next]_vars
               PROVE  IInv'
    OBVIOUS
  <1>1. CASE \E p \in Peers : Application(p)
    BY <1>1, ApplicationInvariant
  <1>2. CASE Service
    BY <1>2, ServiceInvariant
  <1>3. CASE BandwidthThrottle
    BY <1>3, BandwidthThrottleInvariant
  <1>4. CASE Dispatch
    BY <1>4, DispatchDoneInvariant, DispatchNextInvariant, DeliverInvariant
       DEF Dispatch
  <1>5. CASE SendOutgoing
    BY <1>5, SkipPeerInvariant, SendToInvariant, GiveUpInvariant,
       SendDoneInvariant DEF SendOutgoing
  <1>6. CASE Receive
    BY <1>6, LimitsAssumption, ReceiveDatagramInvariant, HandleConnectInvariant,
       HandleInvariant, EndDatagramInvariant, ReceiveDoneInvariant DEF Receive
  <1>7. CASE UNCHANGED vars
    BY <1>7 DEF vars, IInv, Control
  <1> QED
    BY <1>1, <1>2, <1>3, <1>4, <1>5, <1>6, <1>7 DEF Next

\* IInv holds in every reachable state, for every number of peers and bound.
THEOREM Invariant == Spec => []IInv
  BY InitInvariant, StepInvariant, PTL DEF Spec

\* The host's record is what its C declaration allows; in particular neither of
\* the unsigned counters wraps below zero, in any order of the peers' calls,
\* datagrams, timeouts and flushes.
THEOREM TypeCorrect == Spec => []TypeOK
  BY Invariant, InvariantImplies, PTL

\* connectedPeers is the number of live peers.
THEOREM ConnectedPeersExact == Spec => []ConnectedCount
  BY Invariant, InvariantImplies, PTL

\* bandwidthLimitedPeers is the number of live peers with a limited bandwidth.
THEOREM LimitedPeersExact == Spec => []LimitedCount
  BY Invariant, InvariantImplies, PTL

\* dispatchQueue links exactly the peers whose needsDispatch is set, each once.
THEOREM DispatchQueueExact == Spec => []DispatchQueueLinked
  BY Invariant, InvariantImplies, PTL

-----------------------------------------------------------------------------
(***************************************************************************)
(* Slots.  What each function of peer.c and protocol.c that EnetHost       *)
(* models does to the slots of the host: it changes the slot of one peer,  *)
(* in a way that depends on that slot alone, and at most sets the event.   *)
(* EnetHostSafetyProofs reasons about slots with these lemmas and never    *)
(* looks into the record again.                                            *)
(***************************************************************************)

\* The ENetPeer of p.
Slot(h, p) ==
    [state |-> h.state[p], limited |-> h.limited[p], strikes |-> h.strikes[p],
     needsDispatch |-> h.needsDispatch[p], acks |-> h.acks[p],
     ready |-> h.ready[p], resend |-> h.resend[p], sent |-> h.sent[p],
     unreliable |-> h.unreliable[p], dispatched |-> h.dispatched[p]]

\* From h to g the slot of p becomes v and the event e; no other slot changes.
Changes(h, g, p, v, e) ==
    /\ Slot(g, p) = v
    /\ \A q \in Peers \ {p} : Slot(g, q) = Slot(h, q)
    /\ g.event = e

\* A slot as enet_host_create makes it.
Fresh ==
    [state |-> "DISCONNECTED", limited |-> FALSE, strikes |-> 0,
     needsDispatch |-> FALSE, acks |-> {}, ready |-> {}, resend |-> {},
     sent |-> {}, unreliable |-> FALSE, dispatched |-> 0]

\* v with nothing queued, and v in state s and linked into the dispatch queue.
Emptied(v) ==
    [state |-> v.state, limited |-> v.limited, strikes |-> v.strikes,
     needsDispatch |-> FALSE, acks |-> {}, ready |-> {}, resend |-> {},
     sent |-> {}, unreliable |-> FALSE, dispatched |-> 0]

Queued(v, s) ==
    [state |-> s, limited |-> v.limited, strikes |-> v.strikes,
     needsDispatch |-> TRUE, acks |-> v.acks, ready |-> v.ready,
     resend |-> v.resend, sent |-> v.sent, unreliable |-> v.unreliable,
     dispatched |-> v.dispatched]

\* A live peer whose disconnection has started.
Disconnecting(v) ==
    [state |-> "DISCONNECTING", limited |-> v.limited, strikes |-> v.strikes,
     needsDispatch |-> FALSE, acks |-> {}, ready |-> {"DISCONNECT"},
     resend |-> {}, sent |-> {}, unreliable |-> FALSE, dispatched |-> 0]

-----------------------------------------------------------------------------
(***************************************************************************)
(* Records and slots.                                                      *)
(***************************************************************************)

\* The fields that make up the slots.
LEMMA PeerFields ==
    ASSUME NEW h \in HostType
    PROVE  /\ h.state \in [Peers -> States] /\ h.limited \in [Peers -> BOOLEAN]
           /\ h.strikes \in [Peers -> 0 .. MaxStrikes]
           /\ h.needsDispatch \in [Peers -> BOOLEAN]
           /\ h.acks \in [Peers -> SUBSET {"DISCONNECT", "OTHER"}]
           /\ h.ready \in [Peers -> SUBSET Kinds]
           /\ h.resend \in [Peers -> SUBSET Kinds]
           /\ h.sent \in [Peers -> SUBSET Kinds]
           /\ h.unreliable \in [Peers -> BOOLEAN]
           /\ h.dispatched \in [Peers -> 0 .. MaxDispatched]
  BY DEF HostType

\* The slots are the fields, peer by peer.
LEMMA SlotFields ==
    ASSUME NEW h, NEW p
    PROVE  /\ Slot(h, p).state = h.state[p]
           /\ Slot(h, p).limited = h.limited[p]
           /\ Slot(h, p).strikes = h.strikes[p]
           /\ Slot(h, p).needsDispatch = h.needsDispatch[p]
           /\ Slot(h, p).acks = h.acks[p]
           /\ Slot(h, p).ready = h.ready[p]
           /\ Slot(h, p).resend = h.resend[p]
           /\ Slot(h, p).sent = h.sent[p]
           /\ Slot(h, p).unreliable = h.unreliable[p]
           /\ Slot(h, p).dispatched = h.dispatched[p]
  BY DEF Slot

\* Two changes of the same slot, one after the other.
LEMMA InTurn ==
    ASSUME NEW h, NEW g, NEW k, NEW p \in Peers, NEW v, NEW w, NEW d, NEW e,
           Changes(h, g, p, v, d), Changes(g, k, p, w, e)
    PROVE  Changes(h, k, p, w, e)
  BY DEF Changes

\* enet_peer_reset_queues
LEMMA ResetQueuesSlot ==
    ASSUME NEW h \in HostType, NEW p \in Peers
    PROVE  Changes(h, ResetQueues(h, p), p, Emptied(Slot(h, p)), h.event)
  <1> DEFINE g == ResetQueues(h, p)
  <1>1. /\ g.state = h.state /\ g.limited = h.limited /\ g.strikes = h.strikes
        /\ g.needsDispatch = [h.needsDispatch EXCEPT ![p] = FALSE]
        /\ g.acks = [h.acks EXCEPT ![p] = {}]
        /\ g.ready = [h.ready EXCEPT ![p] = {}]
        /\ g.resend = [h.resend EXCEPT ![p] = {}]
        /\ g.sent = [h.sent EXCEPT ![p] = {}]
        /\ g.unreliable = [h.unreliable EXCEPT ![p] = FALSE]
        /\ g.dispatched = [h.dispatched EXCEPT ![p] = 0]
        /\ g.event = h.event
    BY DEF HostType, ResetQueues
  <1> HIDE DEF g
  <1>2. /\ g.acks[p] = {} /\ g.ready[p] = {} /\ g.resend[p] = {}
        /\ g.sent[p] = {} /\ g.dispatched[p] = 0
    BY <1>1, PeerFields
  <1>3. g.needsDispatch[p] = FALSE
    BY <1>1, PeerFields
  <1>4. g.unreliable[p] = FALSE
    BY <1>1, PeerFields
  <1>5. Slot(g, p) = Emptied(Slot(h, p))
    BY <1>1, <1>2, <1>3, <1>4 DEF Emptied, Slot
  <1>6. \A q \in Peers \ {p} : Slot(g, q) = Slot(h, q)
    BY <1>1, PeerFields DEF Slot
  <1> QED
    BY <1>1, <1>5, <1>6 DEF Changes, g

\* The assignment of one field of a peer.
LEMMA StateSlot ==
    ASSUME NEW h \in HostType, NEW p \in Peers, NEW s
    PROVE  Changes(h, [h EXCEPT !.state[p] = s], p,
                   [Slot(h, p) EXCEPT !.state = s], h.event)
  <1> DEFINE g == [h EXCEPT !.state[p] = s]
  <1>1. /\ g.state = [h.state EXCEPT ![p] = s]
        /\ g.limited = h.limited /\ g.strikes = h.strikes
        /\ g.needsDispatch = h.needsDispatch /\ g.acks = h.acks
        /\ g.ready = h.ready /\ g.resend = h.resend /\ g.sent = h.sent
        /\ g.unreliable = h.unreliable /\ g.dispatched = h.dispatched
        /\ g.event = h.event
    BY DEF HostType
  <1> HIDE DEF g
  <1>2. Slot(g, p) = [Slot(h, p) EXCEPT !.state = s]
    BY <1>1, PeerFields DEF Slot
  <1>3. \A q \in Peers \ {p} : Slot(g, q) = Slot(h, q)
    BY <1>1, PeerFields DEF Slot
  <1> QED
    BY <1>1, <1>2, <1>3 DEF Changes, g

\* The same for the queued acknowledgements,
LEMMA AcksSlot ==
    ASSUME NEW h \in HostType, NEW p \in Peers, NEW a
    PROVE  Changes(h, [h EXCEPT !.acks[p] = a], p,
                   [Slot(h, p) EXCEPT !.acks = a], h.event)
  <1> DEFINE g == [h EXCEPT !.acks[p] = a]
  <1>1. /\ g.acks = [h.acks EXCEPT ![p] = a]
        /\ g.state = h.state /\ g.limited = h.limited
        /\ g.strikes = h.strikes /\ g.needsDispatch = h.needsDispatch
        /\ g.ready = h.ready /\ g.resend = h.resend /\ g.sent = h.sent
        /\ g.unreliable = h.unreliable /\ g.dispatched = h.dispatched
        /\ g.event = h.event
    BY DEF HostType
  <1> HIDE DEF g
  <1>2. Slot(g, p) = [Slot(h, p) EXCEPT !.acks = a]
    BY <1>1, PeerFields DEF Slot
  <1>3. \A q \in Peers \ {p} : Slot(g, q) = Slot(h, q)
    BY <1>1, PeerFields DEF Slot
  <1> QED
    BY <1>1, <1>2, <1>3 DEF Changes, g

\* the commands that were never sent,
LEMMA ReadySlot ==
    ASSUME NEW h \in HostType, NEW p \in Peers, NEW r
    PROVE  Changes(h, [h EXCEPT !.ready[p] = r], p,
                   [Slot(h, p) EXCEPT !.ready = r], h.event)
  <1> DEFINE g == [h EXCEPT !.ready[p] = r]
  <1>1. /\ g.ready = [h.ready EXCEPT ![p] = r]
        /\ g.state = h.state /\ g.limited = h.limited
        /\ g.strikes = h.strikes /\ g.needsDispatch = h.needsDispatch
        /\ g.acks = h.acks /\ g.resend = h.resend
        /\ g.sent = h.sent /\ g.unreliable = h.unreliable
        /\ g.dispatched = h.dispatched /\ g.event = h.event
    BY DEF HostType
  <1> HIDE DEF g
  <1>2. Slot(g, p) = [Slot(h, p) EXCEPT !.ready = r]
    BY <1>1, PeerFields DEF Slot
  <1>3. \A q \in Peers \ {p} : Slot(g, q) = Slot(h, q)
    BY <1>1, PeerFields DEF Slot
  <1> QED
    BY <1>1, <1>2, <1>3 DEF Changes, g

\* the timeouts in a row,
LEMMA StrikesSlot ==
    ASSUME NEW h \in HostType, NEW p \in Peers, NEW n
    PROVE  Changes(h, [h EXCEPT !.strikes[p] = n], p,
                   [Slot(h, p) EXCEPT !.strikes = n], h.event)
  <1> DEFINE g == [h EXCEPT !.strikes[p] = n]
  <1>1. /\ g.strikes = [h.strikes EXCEPT ![p] = n]
        /\ g.state = h.state /\ g.limited = h.limited
        /\ g.needsDispatch = h.needsDispatch /\ g.acks = h.acks
        /\ g.ready = h.ready /\ g.resend = h.resend
        /\ g.sent = h.sent /\ g.unreliable = h.unreliable
        /\ g.dispatched = h.dispatched /\ g.event = h.event
    BY DEF HostType
  <1> HIDE DEF g
  <1>2. Slot(g, p) = [Slot(h, p) EXCEPT !.strikes = n]
    BY <1>1, PeerFields DEF Slot
  <1>3. \A q \in Peers \ {p} : Slot(g, q) = Slot(h, q)
    BY <1>1, PeerFields DEF Slot
  <1> QED
    BY <1>1, <1>2, <1>3 DEF Changes, g

\* the packets that wait for the application,
LEMMA DispatchedSlot ==
    ASSUME NEW h \in HostType, NEW p \in Peers, NEW n
    PROVE  Changes(h, [h EXCEPT !.dispatched[p] = n], p,
                   [Slot(h, p) EXCEPT !.dispatched = n], h.event)
  <1> DEFINE g == [h EXCEPT !.dispatched[p] = n]
  <1>1. /\ g.dispatched = [h.dispatched EXCEPT ![p] = n]
        /\ g.state = h.state /\ g.limited = h.limited
        /\ g.strikes = h.strikes /\ g.needsDispatch = h.needsDispatch
        /\ g.acks = h.acks /\ g.ready = h.ready
        /\ g.resend = h.resend /\ g.sent = h.sent
        /\ g.unreliable = h.unreliable /\ g.event = h.event
    BY DEF HostType
  <1> HIDE DEF g
  <1>2. Slot(g, p) = [Slot(h, p) EXCEPT !.dispatched = n]
    BY <1>1, PeerFields DEF Slot
  <1>3. \A q \in Peers \ {p} : Slot(g, q) = Slot(h, q)
    BY <1>1, PeerFields DEF Slot
  <1> QED
    BY <1>1, <1>2, <1>3 DEF Changes, g

\* the announced bandwidth,
LEMMA LimitedSlot ==
    ASSUME NEW h \in HostType, NEW p \in Peers, NEW b \in BOOLEAN
    PROVE  Changes(h, [h EXCEPT !.limited[p] = b], p,
                   [Slot(h, p) EXCEPT !.limited = b], h.event)
  <1> DEFINE g == [h EXCEPT !.limited[p] = b]
  <1>1. /\ g.limited = [h.limited EXCEPT ![p] = b]
        /\ g.state = h.state /\ g.strikes = h.strikes
        /\ g.needsDispatch = h.needsDispatch /\ g.acks = h.acks
        /\ g.ready = h.ready /\ g.resend = h.resend
        /\ g.sent = h.sent /\ g.unreliable = h.unreliable
        /\ g.dispatched = h.dispatched /\ g.event = h.event
    BY DEF HostType
  <1> HIDE DEF g
  <1>2. Slot(g, p) = [Slot(h, p) EXCEPT !.limited = b]
    BY <1>1, PeerFields DEF Slot
  <1>3. \A q \in Peers \ {p} : Slot(g, q) = Slot(h, q)
    BY <1>1, PeerFields DEF Slot
  <1> QED
    BY <1>1, <1>2, <1>3 DEF Changes, g

\* and the unreliable commands.
LEMMA UnreliableSlot ==
    ASSUME NEW h \in HostType, NEW p \in Peers, NEW b \in BOOLEAN
    PROVE  Changes(h, [h EXCEPT !.unreliable[p] = b], p,
                   [Slot(h, p) EXCEPT !.unreliable = b], h.event)
  <1> DEFINE g == [h EXCEPT !.unreliable[p] = b]
  <1>1. /\ g.unreliable = [h.unreliable EXCEPT ![p] = b]
        /\ g.state = h.state /\ g.limited = h.limited
        /\ g.strikes = h.strikes /\ g.needsDispatch = h.needsDispatch
        /\ g.acks = h.acks /\ g.ready = h.ready
        /\ g.resend = h.resend /\ g.sent = h.sent
        /\ g.dispatched = h.dispatched /\ g.event = h.event
    BY DEF HostType
  <1> HIDE DEF g
  <1>2. Slot(g, p) = [Slot(h, p) EXCEPT !.unreliable = b]
    BY <1>1, PeerFields DEF Slot
  <1>3. \A q \in Peers \ {p} : Slot(g, q) = Slot(h, q)
    BY <1>1, PeerFields DEF Slot
  <1> QED
    BY <1>1, <1>2, <1>3 DEF Changes, g

\* What is no field of a peer may be assigned.
LEMMA EventSlot ==
    ASSUME NEW h \in HostType, NEW p \in Peers, NEW e
    PROVE  Changes(h, [h EXCEPT !.event = e], p, Slot(h, p), e)
  BY DEF HostType, Changes, Slot

\* So does recalculateBandwidthLimits.
LEMMA RecalculateSlot ==
    ASSUME NEW h \in HostType, NEW p \in Peers, NEW b
    PROVE  Changes(h, [h EXCEPT !.recalculate = b], p, Slot(h, p), h.event)
  BY DEF HostType, Changes, Slot

\* change_state: the counters follow the state, the rest of the slot stays.
LEMMA ChangeStateSlot ==
    ASSUME NEW h \in HostType, NEW p \in Peers, NEW s
    PROVE  Changes(h, ChangeState(h, p, s), p,
                   [Slot(h, p) EXCEPT !.state = s], h.event)
  <1> DEFINE c == IF s \in Live THEN OnConnect(h, p) ELSE OnDisconnect(h, p)
             g == ChangeState(h, p, s)
  <1>1. c.state = h.state
    BY DEF HostType, OnConnect, OnDisconnect
  <1>2. g.state = [h.state EXCEPT ![p] = s]
    BY <1>1 DEF HostType, OnConnect, OnDisconnect, ChangeState
  <1>3. /\ g.limited = h.limited /\ g.strikes = h.strikes
        /\ g.needsDispatch = h.needsDispatch /\ g.acks = h.acks
        /\ g.ready = h.ready /\ g.resend = h.resend /\ g.sent = h.sent
        /\ g.unreliable = h.unreliable /\ g.dispatched = h.dispatched
        /\ g.event = h.event
    BY DEF HostType, OnConnect, OnDisconnect, ChangeState
  <1> HIDE DEF g
  <1>4. Slot(g, p) = [Slot(h, p) EXCEPT !.state = s]
    BY <1>2, <1>3, PeerFields DEF Slot
  <1>5. \A q \in Peers \ {p} : Slot(g, q) = Slot(h, q)
    BY <1>2, <1>3, PeerFields DEF Slot
  <1> QED
    BY <1>3, <1>4, <1>5 DEF Changes, g

\* Linking a peer into the dispatch queue.
LEMMA EnqueueSlot ==
    ASSUME NEW h \in HostType, NEW p \in Peers
    PROVE  Changes(h, Enqueue(h, p), p, Queued(Slot(h, p), h.state[p]), h.event)
  <1> DEFINE g == Enqueue(h, p)
  <1>1. /\ g.state = h.state /\ g.limited = h.limited
        /\ g.strikes = h.strikes /\ g.acks = h.acks
        /\ g.ready = h.ready /\ g.resend = h.resend /\ g.sent = h.sent
        /\ g.unreliable = h.unreliable /\ g.dispatched = h.dispatched
        /\ g.event = h.event
    BY DEF HostType, Enqueue
  <1>2. /\ h.needsDispatch[p] => g = h
        /\ ~h.needsDispatch[p] =>
              g.needsDispatch = [h.needsDispatch EXCEPT ![p] = TRUE]
    BY DEF HostType, Enqueue
  <1> HIDE DEF g
  <1>3. g.needsDispatch[p] = TRUE
    BY <1>2, PeerFields
  <1>4. \A q \in Peers \ {p} : g.needsDispatch[q] = h.needsDispatch[q]
    BY <1>2, PeerFields
  <1>5. Slot(g, p) = Queued(Slot(h, p), h.state[p])
    BY <1>1, <1>3 DEF Slot, Queued
  <1>6. \A q \in Peers \ {p} : Slot(g, q) = Slot(h, q)
    BY <1>1, <1>4 DEF Slot
  <1> QED
    BY <1>1, <1>5, <1>6 DEF Changes, g

\* enet_protocol_dispatch_state
LEMMA DispatchStateSlot ==
    ASSUME NEW h, Consistent(h), NEW p \in Peers, NEW s \in States
    PROVE  Changes(h, DispatchState(h, p, s), p, Queued(Slot(h, p), s), h.event)
  <1> DEFINE c == ChangeState(h, p, s)
  <1>1. h \in HostType /\ c \in HostType
    BY ChangeStateConsistent DEF Consistent
  <1>2. Changes(h, c, p, [Slot(h, p) EXCEPT !.state = s], h.event)
    BY <1>1, ChangeStateSlot
  <1>3. Changes(c, Enqueue(c, p), p, Queued(Slot(c, p), c.state[p]), c.event)
    BY <1>1, EnqueueSlot
  <1> HIDE DEF c
  <1>4. Slot(c, p) = [Slot(h, p) EXCEPT !.state = s] /\ c.event = h.event
    BY <1>2 DEF Changes
  <1>5. c.state[p] = s
    BY <1>4 DEF Slot
  <1>6. Queued(Slot(c, p), c.state[p]) = Queued(Slot(h, p), s)
    BY <1>4, <1>5 DEF Queued, Slot
  <1>7. Changes(h, Enqueue(c, p), p, Queued(Slot(h, p), s), h.event)
    BY <1>2, <1>3, <1>4, <1>6, InTurn
  <1> QED
    BY <1>7 DEF DispatchState, c

\* enet_peer_reset leaves the slot as enet_host_create made it.
LEMMA PeerResetSlot ==
    ASSUME NEW h, Consistent(h), NEW p \in Peers
    PROVE  Changes(h, PeerReset(h, p), p, Fresh, h.event)
  <1> DEFINE d == OnDisconnect(h, p)
             g == [d EXCEPT !.state[p] = "DISCONNECTED",
                            !.limited[p] = FALSE, !.strikes[p] = 0]
  <1>1. h \in HostType /\ d \in HostType
    BY OnDisconnectCounts DEF Consistent
  <1>2. /\ d.state = h.state /\ d.limited = h.limited
        /\ d.strikes = h.strikes /\ d.event = h.event
        /\ d.needsDispatch = h.needsDispatch /\ d.acks = h.acks
        /\ d.ready = h.ready /\ d.resend = h.resend /\ d.sent = h.sent
        /\ d.unreliable = h.unreliable /\ d.dispatched = h.dispatched
    BY <1>1 DEF OnDisconnect, HostType
  <1> HIDE DEF d
  <1>3. g \in HostType
    <2> DEFINE f == [d EXCEPT !.state[p] = "DISCONNECTED", !.limited[p] = FALSE]
    <2>1. f \in HostType
      BY <1>1 DEF HostType, States
    <2> HIDE DEF f
    <2>2. [f EXCEPT !.strikes[p] = 0] \in HostType
      BY <2>1, BoundsAssumption, AssignStrikes
    <2> QED
      BY <2>2 DEF f
  <1>4. /\ g.state = [h.state EXCEPT ![p] = "DISCONNECTED"]
        /\ g.limited = [h.limited EXCEPT ![p] = FALSE]
        /\ g.strikes = [h.strikes EXCEPT ![p] = 0]
        /\ g.event = h.event
        /\ g.needsDispatch = h.needsDispatch /\ g.acks = h.acks
        /\ g.ready = h.ready /\ g.resend = h.resend /\ g.sent = h.sent
        /\ g.unreliable = h.unreliable /\ g.dispatched = h.dispatched
    BY <1>1, <1>2 DEF HostType
  <1>5. Changes(g, ResetQueues(g, p), p, Emptied(Slot(g, p)), g.event)
    BY <1>3, ResetQueuesSlot
  <1>6. ResetQueues(g, p) = PeerReset(h, p)
    BY DEF PeerReset, d
  <1> HIDE DEF g
  <1>7. \A q \in Peers \ {p} : Slot(g, q) = Slot(h, q)
    BY <1>1, <1>4, PeerFields DEF Slot
  <1>8. g.state[p] = "DISCONNECTED" /\ g.strikes[p] = 0
    BY <1>1, <1>4, PeerFields
  <1>9. g.limited[p] = FALSE
    BY <1>1, <1>4, PeerFields
  <1>10. Emptied(Slot(g, p)) = Fresh
    BY <1>8, <1>9 DEF Emptied, Slot, Fresh
  <1> QED
    BY <1>4, <1>5, <1>6, <1>7, <1>10 DEF Changes

-----------------------------------------------------------------------------
(***************************************************************************)
(* The functions that establish and end connections.                       *)
(***************************************************************************)

\* enet_protocol_notify_connect: the event, or a place in the dispatch queue.
LEMMA NotifyConnectSlot ==
    ASSUME NEW h, Consistent(h), NEW p \in Peers, NEW ev \in BOOLEAN
    PROVE  LET g == NotifyConnect(h, p, ev)
               s == IF h.state[p] = "CONNECTING" THEN "CONNECTION_SUCCEEDED"
                    ELSE "CONNECTION_PENDING"
           IN  /\ ev => Changes(h, g, p, [Slot(h, p) EXCEPT !.state = "CONNECTED"],
                                Event("CONNECT", p))
               /\ ~ev => Changes(h, g, p, Queued(Slot(h, p), s), h.event)
  <1> DEFINE r == [h EXCEPT !.recalculate = TRUE]
             c == ChangeState(r, p, "CONNECTED")
             s == IF h.state[p] = "CONNECTING" THEN "CONNECTION_SUCCEEDED"
                  ELSE "CONNECTION_PENDING"
  <1>1. Consistent(r) /\ r \in HostType /\ h \in HostType
    BY RecalculateConsistent DEF Consistent
  <1>2. Changes(h, r, p, Slot(h, p), h.event)
    BY <1>1, RecalculateSlot
  <1> HIDE DEF r
  <1>3. Slot(r, p) = Slot(h, p) /\ r.event = h.event
    BY <1>2 DEF Changes
  <1>4. CASE ev
    <2>1. Consistent(c) /\ c \in HostType
      BY <1>1, ChangeStateConsistent DEF States, Consistent
    <2>2. Changes(r, c, p, [Slot(r, p) EXCEPT !.state = "CONNECTED"], r.event)
      BY <1>1, ChangeStateSlot
    <2> HIDE DEF c
    <2>3. Changes(c, [c EXCEPT !.event = Event("CONNECT", p)], p, Slot(c, p),
                  Event("CONNECT", p))
      BY <2>1, EventSlot
    <2>4. NotifyConnect(h, p, ev) = [c EXCEPT !.event = Event("CONNECT", p)]
      BY <1>4 DEF NotifyConnect, c, r
    <2> QED
      BY <1>2, <1>3, <1>4, <2>2, <2>3, <2>4 DEF Changes
  <1>5. CASE ~ev
    <2>1. Changes(r, DispatchState(r, p, s), p, Queued(Slot(r, p), s), r.event)
      BY <1>1, DispatchStateSlot DEF States
    <2>2. NotifyConnect(h, p, ev) = DispatchState(r, p, s)
      BY <1>5 DEF NotifyConnect, r
    <2> QED
      BY <1>2, <1>3, <1>5, <2>1, <2>2 DEF Changes
  <1> QED
    BY <1>4, <1>5

\* enet_protocol_notify_disconnect: an incoming connection that was not reported
\* ends without a word, any other with an event or a place in the queue.
LEMMA NotifyDisconnectSlot ==
    ASSUME NEW h, Consistent(h), NEW p \in Peers, NEW ev \in BOOLEAN
    PROVE  LET g == NotifyDisconnect(h, p, ev)
               silent == h.state[p] \in {"DISCONNECTED", "ACKNOWLEDGING_CONNECT",
                                         "CONNECTION_PENDING"}
           IN  /\ silent => Changes(h, g, p, Fresh, h.event)
               /\ ~silent /\ ev =>
                     Changes(h, g, p, Fresh, Event("DISCONNECT", p))
               /\ ~silent /\ ~ev =>
                     Changes(h, g, p, Queued(Slot(h, p), "ZOMBIE"), h.event)
  <1> DEFINE silent == h.state[p] \in {"DISCONNECTED", "ACKNOWLEDGING_CONNECT",
                                       "CONNECTION_PENDING"}
             b == h.recalculate
                     \/ h.state[p] \notin {"DISCONNECTED", "CONNECTING",
                                            "ACKNOWLEDGING_CONNECT"}
             r == [h EXCEPT !.recalculate = b]
             e == [r EXCEPT !.event = Event("DISCONNECT", p)]
  <1>1. b \in BOOLEAN
    BY DEF Consistent, HostType
  <1> HIDE DEF b
  <1>2. Consistent(r) /\ r \in HostType /\ h \in HostType
    BY <1>1, RecalculateConsistent DEF Consistent
  <1>3. Changes(h, r, p, Slot(h, p), h.event)
    BY <1>2, RecalculateSlot
  <1>4. NotifyDisconnect(h, p, ev) =
           IF silent THEN PeerReset(r, p)
           ELSE IF ev THEN PeerReset(e, p) ELSE DispatchState(r, p, "ZOMBIE")
    BY DEF NotifyDisconnect, b
  <1> HIDE DEF r, silent
  <1>5. Consistent(e) /\ Changes(r, e, p, Slot(r, p), Event("DISCONNECT", p))
    BY <1>2, EventTypes, EventConsistent, EventSlot
  <1> HIDE DEF e
  <1>6. /\ Changes(r, PeerReset(r, p), p, Fresh, r.event)
        /\ Changes(e, PeerReset(e, p), p, Fresh, e.event)
        /\ Changes(r, DispatchState(r, p, "ZOMBIE"), p,
                   Queued(Slot(r, p), "ZOMBIE"), r.event)
    BY <1>2, <1>5, PeerResetSlot, DispatchStateSlot DEF States
  <1>7. /\ Changes(h, PeerReset(r, p), p, Fresh, h.event)
        /\ Changes(h, PeerReset(e, p), p, Fresh, Event("DISCONNECT", p))
        /\ Changes(h, DispatchState(r, p, "ZOMBIE"), p,
                   Queued(Slot(h, p), "ZOMBIE"), h.event)
    BY <1>3, <1>5, <1>6 DEF Changes
  <1> QED
    BY <1>4, <1>7 DEF silent

\* enet_peer_disconnect of a live peer.
LEMMA DisconnectLiveSlot ==
    ASSUME NEW h, Consistent(h), NEW p \in Peers
    PROVE  Changes(h, DisconnectLive(h, p), p, Disconnecting(Slot(h, p)), h.event)
  <1> DEFINE r == ResetQueues(h, p)
             d == OnDisconnect(r, p)
             g == DisconnectLive(h, p)
  <1>1. h \in HostType /\ Consistent(r) /\ r \in HostType
    BY ResetQueuesConsistent DEF Consistent
  <1>2. Changes(h, r, p, Emptied(Slot(h, p)), h.event)
    BY <1>1, ResetQueuesSlot
  <1>3. g = [d EXCEPT !.ready[p] = {"DISCONNECT"}, !.state[p] = "DISCONNECTING"]
    BY DEF DisconnectLive
  <1> HIDE DEF g, r
  <1>4. d \in HostType
    BY <1>1, OnDisconnectCounts
  <1>5. /\ d.state = r.state /\ d.limited = r.limited /\ d.event = r.event
        /\ d.strikes = r.strikes /\ d.needsDispatch = r.needsDispatch
        /\ d.acks = r.acks /\ d.ready = r.ready /\ d.resend = r.resend
        /\ d.sent = r.sent /\ d.unreliable = r.unreliable
        /\ d.dispatched = r.dispatched
    BY <1>1 DEF OnDisconnect, HostType
  <1> HIDE DEF d
  <1>6. /\ g.state = [r.state EXCEPT ![p] = "DISCONNECTING"]
        /\ g.ready = [r.ready EXCEPT ![p] = {"DISCONNECT"}]
        /\ g.limited = r.limited /\ g.event = r.event
        /\ g.strikes = r.strikes /\ g.needsDispatch = r.needsDispatch
        /\ g.acks = r.acks /\ g.resend = r.resend
        /\ g.sent = r.sent /\ g.unreliable = r.unreliable
        /\ g.dispatched = r.dispatched
    BY <1>3, <1>4, <1>5 DEF HostType
  <1>7. g.state[p] = "DISCONNECTING" /\ g.ready[p] = {"DISCONNECT"}
    BY <1>1, <1>6, PeerFields
  <1>8. \A q \in Peers \ {p} : Slot(g, q) = Slot(r, q)
    BY <1>1, <1>6, PeerFields DEF Slot
  <1>9. Slot(r, p) = Emptied(Slot(h, p))
    BY <1>2 DEF Changes
  <1>10. /\ r.limited[p] = h.limited[p] /\ r.strikes[p] = h.strikes[p]
         /\ r.needsDispatch[p] = FALSE /\ r.acks[p] = {} /\ r.resend[p] = {}
         /\ r.sent[p] = {} /\ r.unreliable[p] = FALSE /\ r.dispatched[p] = 0
    BY <1>9 DEF Slot, Emptied
  <1>11. Slot(g, p) = Disconnecting(Slot(h, p))
    BY <1>6, <1>7, <1>10 DEF Slot, Disconnecting
  <1> QED
    BY <1>2, <1>6, <1>8, <1>11 DEF Changes, g

\* A peer that disconnects later, and has nothing left to wait for, does it now.
LEMMA DisconnectIfDrainedSlot ==
    ASSUME NEW h, Consistent(h), NEW p \in Peers
    PROVE  LET g == DisconnectIfDrained(h, p)
               due == /\ h.state[p] = "DISCONNECT_LATER"
                      /\ Drained(h, p) /\ ~h.unreliable[p]
           IN  /\ due => Changes(h, g, p, Disconnecting(Slot(h, p)), h.event)
               /\ ~due => g = h
  BY DisconnectLiveSlot DEF DisconnectIfDrained

-----------------------------------------------------------------------------
(***************************************************************************)
(* The functions of sending and receiving.                                 *)
(***************************************************************************)

\* What is sent to p or waits for its acknowledgement (see Drained).
Awaited(v) == v.ready \cup v.resend \cup v.sent

\* From v to w only the reliable commands, and the timeouts, change.
Reordered(v, w) ==
    /\ w.state = v.state /\ w.limited = v.limited
    /\ w.needsDispatch = v.needsDispatch /\ w.acks = v.acks
    /\ w.unreliable = v.unreliable /\ w.dispatched = v.dispatched

\* enet_protocol_check_outgoing_commands: the same commands are awaited.
LEMMA SendReliableSlot ==
    ASSUME NEW h \in HostType, NEW p \in Peers
    PROVE  LET g == SendReliable(h, p)
           IN  /\ Changes(h, g, p, Slot(g, p), h.event)
               /\ Reordered(Slot(h, p), Slot(g, p))
               /\ Awaited(Slot(g, p)) = Awaited(Slot(h, p))
  <1> DEFINE g == SendReliable(h, p)
  <1>1. /\ g.state = h.state /\ g.limited = h.limited /\ g.strikes = h.strikes
        /\ g.needsDispatch = h.needsDispatch /\ g.acks = h.acks
        /\ g.unreliable = h.unreliable /\ g.dispatched = h.dispatched
        /\ g.event = h.event
    BY DEF HostType, SendReliable
  <1>2. /\ g.ready = [h.ready EXCEPT ![p] = {}]
        /\ g.resend = [h.resend EXCEPT ![p] = {}]
        /\ g.sent = [h.sent EXCEPT ![p] = @ \cup h.ready[p] \cup h.resend[p]]
    BY DEF HostType, SendReliable
  <1> HIDE DEF g
  <1>3. Reordered(Slot(h, p), Slot(g, p))
    BY <1>1, SlotFields DEF Reordered
  <1>4. Awaited(Slot(g, p)) = Awaited(Slot(h, p))
    <2>1. /\ g.ready[p] = {} /\ g.resend[p] = {}
          /\ g.sent[p] = h.sent[p] \cup h.ready[p] \cup h.resend[p]
      BY <1>2, PeerFields
    <2> QED
      BY <2>1, SlotFields DEF Awaited
  <1>5. \A q \in Peers \ {p} : Slot(g, q) = Slot(h, q)
    BY <1>1, <1>2, PeerFields DEF Slot
  <1> QED
    BY <1>1, <1>3, <1>4, <1>5 DEF Changes, g

\* enet_protocol_check_timeouts: the same commands are awaited.
LEMMA CheckTimeoutsSlot ==
    ASSUME NEW h \in HostType, NEW p \in Peers, NEW expired \in SUBSET h.sent[p]
    PROVE  LET g == CheckTimeouts(h, p, expired)
           IN  /\ Changes(h, g, p, Slot(g, p), h.event)
               /\ Reordered(Slot(h, p), Slot(g, p))
               /\ Awaited(Slot(g, p)) = Awaited(Slot(h, p))
  <1> DEFINE g == CheckTimeouts(h, p, expired)
  <1>1. CASE expired = {}
    BY <1>1 DEF CheckTimeouts, Changes, Reordered, Awaited
  <1>2. CASE expired # {}
    <2>1. /\ g.state = h.state /\ g.limited = h.limited
          /\ g.needsDispatch = h.needsDispatch /\ g.acks = h.acks
          /\ g.unreliable = h.unreliable /\ g.dispatched = h.dispatched
          /\ g.ready = h.ready
          /\ g.resend = [h.resend EXCEPT ![p] = @ \cup expired]
          /\ g.sent = [h.sent EXCEPT ![p] = @ \ expired]
          /\ g.event = h.event
      BY <1>2 DEF HostType, CheckTimeouts
    <2>2. g.strikes = [h.strikes EXCEPT ![p] = @ + 1]
      BY <1>2 DEF HostType, CheckTimeouts
    <2> HIDE DEF g
    <2>3. /\ g.ready[p] = h.ready[p] /\ g.resend[p] = h.resend[p] \cup expired
          /\ g.sent[p] = h.sent[p] \ expired
      BY <2>1, PeerFields
    <2>4. Reordered(Slot(h, p), Slot(g, p))
      BY SMTT(30), <2>1, SlotFields DEF Reordered
    <2>5. Awaited(Slot(g, p)) = Awaited(Slot(h, p))
      BY <2>3, SlotFields DEF Awaited
    <2>6. \A q \in Peers \ {p} : Slot(g, q) = Slot(h, q)
      BY <2>1, <2>2, PeerFields DEF Slot
    <2> QED
      BY <2>1, <2>4, <2>5, <2>6 DEF Changes, g
  <1> QED
    BY <1>1, <1>2

\* enet_peer_ping is for a peer in state CONNECTED only.
LEMMA PingSlot ==
    ASSUME NEW h, Consistent(h), NEW p \in Peers
    PROVE  LET g == Ping(h, p)
           IN  /\ Changes(h, g, p, Slot(g, p), h.event)
               /\ Reordered(Slot(h, p), Slot(g, p))
               /\ h.state[p] # "CONNECTED" => g = h
  <1> DEFINE r == [h EXCEPT !.ready[p] = {"CONTROL"}]
  <1>1. h \in HostType /\ Consistent(r) /\ r \in HostType
    BY ReadyConsistent DEF Kinds, Consistent
  <1>2. Changes(h, r, p, [Slot(h, p) EXCEPT !.ready = {"CONTROL"}], h.event)
    BY <1>1, ReadySlot
  <1>3. Ping(h, p) \in {h, SendReliable(r, p)}
    BY DEF Ping
  <1>4. h.state[p] # "CONNECTED" => Ping(h, p) = h
    BY DEF Ping
  <1> HIDE DEF r
  <1>5. /\ Changes(r, SendReliable(r, p), p, Slot(SendReliable(r, p), p), r.event)
        /\ Reordered(Slot(r, p), Slot(SendReliable(r, p), p))
    BY <1>1, SendReliableSlot
  <1>6. Reordered(Slot(h, p), Slot(r, p)) /\ r.event = h.event
    BY <1>2 DEF Changes, Reordered, Slot
  <1>7. /\ Changes(h, SendReliable(r, p), p, Slot(SendReliable(r, p), p), h.event)
        /\ Reordered(Slot(h, p), Slot(SendReliable(r, p), p))
    BY <1>2, <1>5, <1>6 DEF Changes, Reordered
  <1>8. Changes(h, h, p, Slot(h, p), h.event) /\ Reordered(Slot(h, p), Slot(h, p))
    BY DEF Changes, Reordered
  <1> QED
    BY <1>3, <1>4, <1>7, <1>8

\* enet_protocol_send_acknowledgements
LEMMA SendAcknowledgementsSlot ==
    ASSUME NEW h, Consistent(h), NEW p \in Peers
    PROVE  LET g == SendAcknowledgements(h, p)
           IN  /\ "DISCONNECT" \in h.acks[p] =>
                     Changes(h, g, p,
                             [Queued(Slot(h, p), "ZOMBIE") EXCEPT !.acks = {}],
                             h.event)
               /\ "DISCONNECT" \notin h.acks[p] =>
                     Changes(h, g, p, [Slot(h, p) EXCEPT !.acks = {}], h.event)
  <1> DEFINE z == DispatchState(h, p, "ZOMBIE")
  <1>1. h \in HostType /\ Consistent(z) /\ z \in HostType
    BY DispatchStateConsistent DEF States, Consistent
  <1>2. Changes(h, z, p, Queued(Slot(h, p), "ZOMBIE"), h.event)
    BY DispatchStateSlot DEF States
  <1>3. SendAcknowledgements(h, p) = IF "DISCONNECT" \in h.acks[p]
                                     THEN [z EXCEPT !.acks[p] = {}]
                                     ELSE [h EXCEPT !.acks[p] = {}]
    BY DEF SendAcknowledgements
  <1> HIDE DEF z
  <1>4. Changes(z, [z EXCEPT !.acks[p] = {}], p, [Slot(z, p) EXCEPT !.acks = {}],
                z.event)
    BY <1>1, AcksSlot
  <1>5. Changes(h, [h EXCEPT !.acks[p] = {}], p, [Slot(h, p) EXCEPT !.acks = {}],
                h.event)
    BY <1>1, AcksSlot
  <1>6. Changes(h, [z EXCEPT !.acks[p] = {}], p,
                [Queued(Slot(h, p), "ZOMBIE") EXCEPT !.acks = {}], h.event)
    BY <1>2, <1>4 DEF Changes
  <1> QED
    BY <1>3, <1>5, <1>6

\* Sending what is not reliable may be what a peer that disconnects later
\* was waiting for.
LEMMA SendUnreliableSlot ==
    ASSUME NEW h, Consistent(h), NEW p \in Peers
    PROVE  LET g == SendUnreliable(h, p)
               v == [Slot(h, p) EXCEPT !.unreliable = FALSE]
           IN  \/ g = h /\ ~h.unreliable[p]
               \/ /\ Changes(h, g, p, v, h.event)
                  /\ v.state = "DISCONNECT_LATER" => Awaited(v) # {}
               \/ /\ Changes(h, g, p, Disconnecting(v), h.event)
                  /\ h.state[p] = "DISCONNECT_LATER"
  <1> DEFINE r == [h EXCEPT !.unreliable[p] = FALSE]
             v == [Slot(h, p) EXCEPT !.unreliable = FALSE]
             g == DisconnectIfDrained(r, p)
  <1>1. h \in HostType /\ Consistent(r) /\ r.state = h.state
    BY UnreliableConsistent DEF Consistent
  <1>2. Changes(h, r, p, v, h.event)
    BY <1>1, UnreliableSlot
  <1>3. SendUnreliable(h, p) = IF ~h.unreliable[p] THEN h ELSE g
    BY DEF SendUnreliable
  <1>4. r.unreliable = [h.unreliable EXCEPT ![p] = FALSE]
    BY <1>1 DEF HostType
  <1> HIDE DEF r
  <1>5. Slot(r, p) = v /\ r.event = h.event
    BY <1>2 DEF Changes
  <1>6. CASE g = r
    <2>1. v.state = "DISCONNECT_LATER" => Awaited(v) # {}
      <3> SUFFICES ASSUME v.state = "DISCONNECT_LATER", Awaited(v) = {}
                   PROVE  FALSE
        OBVIOUS
      <3>1. Slot(r, p).state = "DISCONNECT_LATER" /\ Awaited(Slot(r, p)) = {}
        BY <1>5
      <3>2. r.state[p] = "DISCONNECT_LATER" /\ Drained(r, p)
        BY <3>1, SlotFields DEF Awaited, Drained
      <3>3. ~r.unreliable[p]
        BY <1>1, <1>4, PeerFields
      <3>4. Changes(r, g, p, Disconnecting(Slot(r, p)), r.event)
        BY <1>1, <3>2, <3>3, DisconnectIfDrainedSlot
      <3>5. Slot(r, p) = Disconnecting(Slot(r, p))
        BY <1>6, <3>4 DEF Changes
      <3>6. Slot(r, p).state = "DISCONNECTING"
        BY <3>5 DEF Disconnecting
      <3> QED
        BY <3>2, <3>6, SlotFields
    <2> QED
      BY <1>2, <1>3, <1>6, <2>1
  <1>7. CASE g # r
    <2>1. /\ r.state[p] = "DISCONNECT_LATER"
          /\ Changes(r, g, p, Disconnecting(Slot(r, p)), r.event)
      BY <1>1, <1>7, DisconnectIfDrainedSlot
    <2>2. Changes(h, g, p, Disconnecting(v), h.event)
      BY <1>2, <1>5, <2>1 DEF Changes
    <2> QED
      BY <1>1, <1>3, <2>1, <2>2
  <1> QED
    BY <1>6, <1>7

\* enet_protocol_remove_sent_reliable_command
LEMMA RemoveSentReliableSlot ==
    ASSUME NEW h \in HostType, NEW p \in Peers, NEW kind
    PROVE  LET g == RemoveSentReliable(h, p, kind)
           IN  /\ Changes(h, g, p, Slot(g, p), h.event)
               /\ Reordered(Slot(h, p), Slot(g, p))
  <1> DEFINE g == RemoveSentReliable(h, p, kind)
  <1>1. /\ g.state = h.state /\ g.limited = h.limited /\ g.strikes = h.strikes
        /\ g.needsDispatch = h.needsDispatch /\ g.acks = h.acks
        /\ g.unreliable = h.unreliable /\ g.dispatched = h.dispatched
        /\ g.ready = h.ready /\ g.event = h.event
    BY DEF HostType, RemoveSentReliable
  <1>2. /\ g.resend = [h.resend EXCEPT ![p] = @ \ {kind}]
        /\ g.sent = [h.sent EXCEPT ![p] = @ \ {kind}]
    BY DEF HostType, RemoveSentReliable
  <1> HIDE DEF g
  <1>3. Reordered(Slot(h, p), Slot(g, p))
    BY <1>1, SlotFields DEF Reordered
  <1>4. \A q \in Peers \ {p} : Slot(g, q) = Slot(h, q)
    BY <1>1, <1>2, PeerFields DEF Slot
  <1> QED
    BY <1>1, <1>3, <1>4 DEF Changes, g

\* enet_peer_queue_acknowledgement
LEMMA QueueAcknowledgementSlot ==
    ASSUME NEW h \in HostType, NEW p \in Peers, NEW kind
    PROVE  LET g == QueueAcknowledgement(h, p, kind)
               refused == \/ h.state[p] \in {"DISCONNECTING", "DISCONNECTED",
                                             "ACKNOWLEDGING_CONNECT", "ZOMBIE"}
                          \/ /\ h.state[p] = "ACKNOWLEDGING_DISCONNECT"
                             /\ kind # "DISCONNECT"
           IN  /\ refused => g = h
               /\ ~refused => Changes(h, g, p,
                                      [Slot(h, p) EXCEPT !.acks = @ \cup {kind}],
                                      h.event)
  <1> DEFINE a == h.acks[p] \cup {kind}
             g == [h EXCEPT !.acks[p] = a]
  <1>1. [Slot(h, p) EXCEPT !.acks = @ \cup {kind}] = [Slot(h, p) EXCEPT !.acks = a]
    BY DEF Slot
  <1>2. QueueAcknowledgement(h, p, kind) =
           IF \/ h.state[p] \in {"DISCONNECTING", "DISCONNECTED",
                                 "ACKNOWLEDGING_CONNECT", "ZOMBIE"}
              \/ /\ h.state[p] = "ACKNOWLEDGING_DISCONNECT"
                 /\ kind # "DISCONNECT"
           THEN h ELSE g
    BY DEF QueueAcknowledgement
  <1> HIDE DEF a
  <1>3. Changes(h, g, p, [Slot(h, p) EXCEPT !.acks = a], h.event)
    BY AcksSlot
  <1> QED
    BY <1>1, <1>2, <1>3

\* The state a DISCONNECT leads to.
LEMMA DisconnectedSlot ==
    ASSUME NEW h, Consistent(h), NEW p \in Peers, NEW ack \in BOOLEAN
    PROVE  LET g == Disconnected(h, p, ack)
               v == Emptied(Slot(h, p))
               s == h.state[p]
           IN  /\ \/ s \in {"CONNECTION_SUCCEEDED", "DISCONNECTING", "CONNECTING"}
                  \/ s \in Live /\ ~ack
                  => Changes(h, g, p, Queued(v, "ZOMBIE"), h.event)
               /\ s \in {"ACKNOWLEDGING_CONNECT", "CONNECTION_PENDING"} =>
                     Changes(h, g, p, Fresh, h.event)
               /\ s \in Live /\ ack =>
                     Changes(h, g, p,
                             [v EXCEPT !.state = "ACKNOWLEDGING_DISCONNECT"],
                             h.event)
               /\ s \in {"DISCONNECTED", "ACKNOWLEDGING_DISCONNECT", "ZOMBIE"} =>
                     g = h
  <1> DEFINE g == ResetQueues(h, p)
             b == g.recalculate \/ h.state[p] = "CONNECTION_PENDING"
             r == [g EXCEPT !.recalculate = b]
             z == DispatchState(g, p, "ZOMBIE")
             a == ChangeState(g, p, "ACKNOWLEDGING_DISCONNECT")
             f == PeerReset(r, p)
  <1>1. Consistent(g) /\ g \in HostType /\ h \in HostType
    BY ResetQueuesConsistent DEF Consistent
  <1>2. Changes(h, g, p, Emptied(Slot(h, p)), h.event)
    BY <1>1, ResetQueuesSlot
  <1>3. Disconnected(h, p, ack) =
           CASE h.state[p] \in {"CONNECTION_SUCCEEDED", "DISCONNECTING",
                                "CONNECTING"} -> z
             [] h.state[p] \in {"ACKNOWLEDGING_CONNECT", "CONNECTION_PENDING"} -> f
             [] h.state[p] \in Live /\ ack -> a
             [] h.state[p] \in Live /\ ~ack -> z
             [] OTHER -> h
    BY DEF Disconnected
  <1>4. Slot(g, p) = Emptied(Slot(h, p)) /\ g.event = h.event
    BY <1>2 DEF Changes
  <1>5. b \in BOOLEAN
    BY <1>1 DEF HostType
  <1> HIDE DEF g, b
  <1>6. Consistent(r) /\ Changes(g, r, p, Slot(g, p), g.event)
    BY <1>1, <1>5, RecalculateConsistent, RecalculateSlot
  <1> HIDE DEF r
  <1>7. /\ Changes(g, z, p, Queued(Slot(g, p), "ZOMBIE"), g.event)
        /\ Changes(g, a, p, [Slot(g, p) EXCEPT !.state = "ACKNOWLEDGING_DISCONNECT"],
                   g.event)
        /\ Changes(r, f, p, Fresh, r.event)
    BY <1>1, <1>6, DispatchStateSlot, ChangeStateSlot, PeerResetSlot DEF States
  <1> HIDE DEF z, a, f
  <1>8. /\ Changes(h, z, p, Queued(Emptied(Slot(h, p)), "ZOMBIE"), h.event)
        /\ Changes(h, a, p,
                   [Emptied(Slot(h, p)) EXCEPT !.state = "ACKNOWLEDGING_DISCONNECT"],
                   h.event)
        /\ Changes(h, f, p, Fresh, h.event)
    BY <1>2, <1>4, <1>6, <1>7 DEF Changes
  <1> QED
    BY <1>3, <1>8 DEF Live

\* Packets that become dispatchable put their peer into the queue.
LEMMA DispatchPacketsSlot ==
    ASSUME NEW h \in HostType, NEW p \in Peers, NEW n \in Nat,
           n <= MaxDispatched - h.dispatched[p]
    PROVE  LET g == DispatchPackets(h, p, n)
               m == h.dispatched[p] + n
           IN  /\ n = 0 => g = h
               /\ n # 0 => Changes(h, g, p,
                                   Queued([Slot(h, p) EXCEPT !.dispatched = m],
                                          h.state[p]), h.event)
  <1> DEFINE m == h.dispatched[p] + n
             r == [h EXCEPT !.dispatched[p] = m]
  <1>1. m \in 0 .. MaxDispatched
    BY PeerFields, BoundsAssumption
  <1>2. DispatchPackets(h, p, n) = IF n = 0 THEN h ELSE Enqueue(r, p)
    BY DEF DispatchPackets
  <1> HIDE DEF m
  <1>3. r \in HostType /\ r.state = h.state
    BY <1>1, AssignDispatched DEF HostType
  <1>4. Changes(h, r, p, [Slot(h, p) EXCEPT !.dispatched = m], h.event)
    BY DispatchedSlot
  <1> HIDE DEF r
  <1>5. Changes(r, Enqueue(r, p), p, Queued(Slot(r, p), r.state[p]), r.event)
    BY <1>3, EnqueueSlot
  <1>6. Changes(h, Enqueue(r, p), p,
                Queued([Slot(h, p) EXCEPT !.dispatched = m], h.state[p]), h.event)
    BY <1>3, <1>4, <1>5 DEF Changes
  <1> QED
    BY <1>2, <1>6 DEF m

\* A live peer announces a new bandwidth.
LEMMA BandwidthLimitSlot ==
    ASSUME NEW h \in HostType, NEW p \in Peers, NEW lim \in BOOLEAN
    PROVE  Changes(h, [h EXCEPT !.bandwidthLimitedPeers =
                                    @ - One(h.limited[p]) + One(lim),
                                !.limited[p] = lim],
                   p, [Slot(h, p) EXCEPT !.limited = lim], h.event)
  <1> DEFINE w == h.bandwidthLimitedPeers - One(h.limited[p]) + One(lim)
             g == [h EXCEPT !.bandwidthLimitedPeers = w, !.limited[p] = lim]
  <1>1. g = [h EXCEPT !.bandwidthLimitedPeers =
                          @ - One(h.limited[p]) + One(lim),
                      !.limited[p] = lim]
    BY DEF HostType
  <1> HIDE DEF w
  <1>2. /\ g.limited = [h.limited EXCEPT ![p] = lim]
        /\ g.state = h.state /\ g.strikes = h.strikes
        /\ g.needsDispatch = h.needsDispatch /\ g.acks = h.acks
        /\ g.ready = h.ready /\ g.resend = h.resend /\ g.sent = h.sent
        /\ g.unreliable = h.unreliable /\ g.dispatched = h.dispatched
        /\ g.event = h.event
    BY DEF HostType
  <1> HIDE DEF g
  <1>3. Slot(g, p) = [Slot(h, p) EXCEPT !.limited = lim]
    BY <1>2, PeerFields DEF Slot
  <1>4. \A q \in Peers \ {p} : Slot(g, q) = Slot(h, q)
    BY <1>2, PeerFields DEF Slot
  <1>5. Changes(h, g, p, [Slot(h, p) EXCEPT !.limited = lim], h.event)
    BY <1>2, <1>3, <1>4 DEF Changes
  <1> QED
    BY <1>1, <1>5

\* The head of the dispatch queue is unlinked.
LEMMA DequeueSlot ==
    ASSUME NEW h \in HostType, NEW p \in Peers, NEW t, NEW b \in BOOLEAN
    PROVE  Changes(h, [h EXCEPT !.dispatchQueue = t, !.needsDispatch[p] = b],
                   p, [Slot(h, p) EXCEPT !.needsDispatch = b], h.event)
  <1> DEFINE g == [h EXCEPT !.dispatchQueue = t, !.needsDispatch[p] = b]
  <1>1. /\ g.needsDispatch = [h.needsDispatch EXCEPT ![p] = b]
        /\ g.state = h.state /\ g.limited = h.limited
        /\ g.strikes = h.strikes /\ g.acks = h.acks
        /\ g.ready = h.ready /\ g.resend = h.resend /\ g.sent = h.sent
        /\ g.unreliable = h.unreliable /\ g.dispatched = h.dispatched
        /\ g.event = h.event
    BY DEF HostType
  <1> HIDE DEF g
  <1>2. Slot(g, p) = [Slot(h, p) EXCEPT !.needsDispatch = b]
    BY <1>1, PeerFields DEF Slot
  <1>3. \A q \in Peers \ {p} : Slot(g, q) = Slot(h, q)
    BY <1>1, PeerFields DEF Slot
  <1> QED
    BY <1>1, <1>2, <1>3 DEF Changes, g
=============================================================================
