----------------------- MODULE ReliableDeliveryProofs -----------------------
(***************************************************************************)
(* The receiver of the reliable channel, for any sizes of its windows and  *)
(* any losses, repetitions and reorderings within the life of a datagram:  *)
(* its list stays in order, an acknowledged command is held, and the       *)
(* application gets every packet once, whole and in order.                 *)
(***************************************************************************)
EXTENDS ReliableChannelProofs

\* How many packets have left the list: Expected is the last command of them.
Taken == Len(received) + Len(dispatched)

\* An entry of the list when d packets have left it: of a later packet, not far
\* ahead, it has some of the fragments and counts those that miss.
EntryOf(entry, d) ==
    /\ entry \in IncomingCommands
    /\ entry.packet \in d + 1 .. Len(ends)
    /\ entry.fragments # {}
    /\ entry.fragments \subseteq Content(entry.packet)
    /\ entry.fragments \subseteq 1 .. attempted
    /\ Cardinality(Content(entry.packet))
          = entry.fragmentsRemaining + Cardinality(entry.fragments)
    /\ Span(First(entry.packet)) + 2 <= Span(End(d)) + FreeReliableWindows

\* Such a list in the order of the packets.
Listed(list, d) ==
    /\ list \in Seq(IncomingCommands)
    /\ \A i \in DOMAIN list : EntryOf(list[i], d)
    /\ \A i, j \in DOMAIN list : i < j => list[i].packet < list[j].packet

\* The first packet of a list is not the next one, or misses a fragment.
Waits(list, d) ==
    list # <<>> => list[1].packet # d + 1 \/ list[1].fragmentsRemaining # 0

\* What d packets that left the list and the list itself hold.
Has(list, d, command) ==
    \/ command \in 1 .. End(d)
    \/ \E i \in DOMAIN list : command \in list[i].fragments

\* What the receiver keeps, and owes to what the sender counts on.
ReceiverInv ==
    /\ received \in Seq(SUBSET Commands) /\ dispatched \in Seq(SUBSET Commands)
    /\ Taken <= Len(ends)
    /\ End(Taken) <= attempted
    /\ incoming = Number(End(Taken))
    /\ \A i \in DOMAIN received : received[i] = Content(i)
    /\ \A i \in DOMAIN dispatched : dispatched[i] = Content(Len(received) + i)
    /\ Listed(commands, Taken) /\ Waits(commands, Taken)
    /\ \A c \in acks \cup ((1 .. attempted) \ outstanding) : Has(commands, Taken, c)

IInv == PacketsInv /\ SenderInv /\ ReceiverInv

-----------------------------------------------------------------------------
(***************************************************************************)
(* Lists.                                                                  *)
(***************************************************************************)

\* What InsertAt of SequencesExt does.
LEMMA InsertedAt ==
    ASSUME NEW s \in Seq(IncomingCommands), NEW k \in 1 .. Len(s) + 1,
           NEW e \in IncomingCommands,
           NEW r, r = InsertAt(s, k, e)
    PROVE  /\ r \in Seq(IncomingCommands) /\ Len(r) = Len(s) + 1
           /\ DOMAIN r = 1 .. Len(s) + 1
           /\ \A j \in 1 .. k - 1 : r[j] = s[j]
           /\ r[k] = e
           /\ \A j \in k .. Len(s) : r[j + 1] = s[j]
  <1> DEFINE a == SubSeq(s, 1, k - 1)
             b == SubSeq(s, k, Len(s))
             m == a \o <<e>>
  <1>1. Len(s) \in Nat /\ k \in Nat /\ k >= 1 /\ k <= Len(s) + 1
    BY LenProperties
  <1>2. \A i \in 1 .. Len(s) : s[i] \in IncomingCommands
    BY ElementOfSeq
  <1>3. /\ a \in Seq(IncomingCommands) /\ Len(a) = k - 1
        /\ \A j \in 1 .. k - 1 : a[j] = s[j]
    <2>1. \A i \in 1 .. k - 1 : s[i] \in IncomingCommands
      BY <1>1, <1>2
    <2>2. /\ a \in Seq(IncomingCommands)
          /\ Len(a) = IF 1 <= k - 1 THEN k - 1 - 1 + 1 ELSE 0
          /\ \A j \in 1 .. k - 1 - 1 + 1 : a[j] = s[1 + j - 1]
      BY <1>1, <2>1, SubSeqProperties
    <2> HIDE DEF a
    <2>3. \A j \in 1 .. k - 1 : a[j] = s[j]
      <3> SUFFICES ASSUME NEW j \in 1 .. k - 1 PROVE a[j] = s[j]
        OBVIOUS
      <3>1. j \in 1 .. k - 1 - 1 + 1 /\ 1 + j - 1 = j
        BY <1>1
      <3> QED
        BY <2>2, <3>1
    <2> QED
      BY <1>1, <2>2, <2>3
  <1>4. /\ b \in Seq(IncomingCommands) /\ Len(b) = Len(s) - k + 1
        /\ \A j \in 1 .. Len(s) - k + 1 : b[j] = s[k + j - 1]
    <2>1. \A i \in k .. Len(s) : s[i] \in IncomingCommands
      BY <1>1, <1>2
    <2>2. /\ b \in Seq(IncomingCommands)
          /\ Len(b) = IF k <= Len(s) THEN Len(s) - k + 1 ELSE 0
          /\ \A j \in 1 .. Len(s) - k + 1 : b[j] = s[k + j - 1]
      BY <1>1, <2>1, SubSeqProperties
    <2> HIDE DEF b
    <2> QED
      BY <1>1, <2>2
  <1> HIDE DEF a, b
  <1>5. <<e>> \in Seq(IncomingCommands) /\ Len(<<e>>) = 1 /\ <<e>>[1] = e
    OBVIOUS
  <1>6. /\ m \in Seq(IncomingCommands) /\ Len(m) = k
        /\ \A j \in 1 .. k - 1 : m[j] = s[j]
        /\ m[k] = e
    <2> DEFINE x == <<e>>
    <2> HIDE DEF x
    <2>1. /\ m \in Seq(IncomingCommands) /\ Len(m) = Len(a) + Len(x)
          /\ \A j \in 1 .. Len(a) + Len(x) :
                m[j] = IF j <= Len(a) THEN a[j] ELSE x[j - Len(a)]
      BY <1>3, <1>5, ConcatProperties DEF x
    <2>2. Len(x) = 1 /\ x[1] = e
      BY <1>5 DEF x
    <2> HIDE DEF m
    <2>3. Len(m) = k
      BY <1>1, <1>3, <2>1, <2>2
    <2>4. \A j \in 1 .. k - 1 : m[j] = s[j]
      BY <1>1, <1>3, <2>1, <2>2
    <2>5. m[k] = e
      <3>1. k \in 1 .. Len(a) + Len(x) /\ ~(k <= Len(a)) /\ k - Len(a) = 1
        BY <1>1, <1>3, <2>2
      <3> QED
        BY <2>1, <2>2, <3>1
    <2> QED
      BY <2>1, <2>3, <2>4, <2>5
  <1>7. r = m \o b
    BY DEF InsertAt, a, b
  <1> HIDE DEF m
  <1>8. /\ r \in Seq(IncomingCommands) /\ Len(r) = Len(m) + Len(b)
        /\ \A j \in 1 .. Len(m) + Len(b) :
              r[j] = IF j <= Len(m) THEN m[j] ELSE b[j - Len(m)]
    <2>1. /\ m \o b \in Seq(IncomingCommands) /\ Len(m \o b) = Len(m) + Len(b)
          /\ \A j \in 1 .. Len(m) + Len(b) :
                (m \o b)[j] = IF j <= Len(m) THEN m[j] ELSE b[j - Len(m)]
      BY <1>4, <1>6, ConcatProperties
    <2> QED
      BY ONLY <1>7, <2>1
  <1>9. Len(r) = Len(s) + 1 /\ Len(m) + Len(b) = Len(s) + 1
    BY <1>1, <1>4, <1>6, <1>8
  <1>10. \A j \in 1 .. k - 1 : r[j] = s[j]
    BY <1>1, <1>6, <1>8, <1>9
  <1>11. r[k] = e
    BY <1>1, <1>6, <1>8, <1>9
  <1>12. ASSUME NEW j \in k .. Len(s)
         PROVE  r[j + 1] = s[j]
    <2>1. /\ j + 1 \in 1 .. Len(m) + Len(b) /\ ~(j + 1 <= Len(m))
          /\ j + 1 - k \in 1 .. Len(s) - k + 1 /\ k + (j + 1 - k) - 1 = j
      BY <1>1, <1>6, <1>9
    <2>2. r[j + 1] = b[j + 1 - Len(m)]
      BY <1>8, <2>1
    <2>3. b[j + 1 - k] = s[k + (j + 1 - k) - 1]
      BY <1>4, <2>1
    <2> QED
      BY <1>6, <2>1, <2>2, <2>3
  <1>13. DOMAIN r = 1 .. Len(s) + 1
    BY <1>8, <1>9, LenProperties
  <1> QED
    BY <1>8, <1>9, <1>10, <1>11, <1>12, <1>13

\* What is known of the packets after the first d: they come after the d-th.
LEMMA PacketsLater ==
    ASSUME PacketsInv, NEW d \in 0 .. Len(ends)
    PROVE  /\ End(d) \in Nat /\ Span(End(d)) \in Nat
           /\ \A p \in d + 1 .. Len(ends) :
                 /\ p \in DOMAIN ends /\ End(d) < First(p)
                 /\ \A c \in Content(p) : c > End(d)
           /\ \A p \in 1 .. d : p \in DOMAIN ends /\ End(p) <= End(d)
           /\ \A e \in d .. Len(ends) :
                 End(d) <= End(e) /\ Span(End(d)) <= Span(End(e))
           /\ d + 1 <= Len(ends) => First(d + 1) = End(d) + 1
  <1>1. /\ Len(ends) \in Nat /\ DOMAIN ends = 1 .. Len(ends)
        /\ \A n \in 0 .. Len(ends) : End(n) \in Nat /\ End(n) <= queued
        /\ \A m, n \in 0 .. Len(ends) : m <= n => End(m) <= End(n)
    BY EndsInOrder
  <1>2. End(d) \in Nat /\ Span(End(d)) \in Nat
    BY <1>1, SpanMonotone
  <1>3. ASSUME NEW p \in d + 1 .. Len(ends)
        PROVE  /\ p \in DOMAIN ends /\ End(d) < First(p)
               /\ \A c \in Content(p) : c > End(d)
    <2>1. p \in DOMAIN ends /\ p - 1 \in 0 .. Len(ends) /\ d <= p - 1
      BY <1>1
    <2>2. /\ First(p) \in Nat /\ First(p) = End(p - 1) + 1
          /\ \A c \in Content(p) : c \in Nat /\ First(p) <= c
      BY <2>1, ContentOf
    <2>3. End(d) <= End(p - 1) /\ End(p - 1) \in Nat
      BY <1>1, <2>1
    <2>4. End(d) < First(p)
      BY <1>2, <2>2, <2>3
    <2> QED
      BY <1>2, <2>1, <2>2, <2>4
  <1>4. \A p \in 1 .. d : p \in DOMAIN ends /\ End(p) <= End(d)
    BY <1>1
  <1>5. ASSUME NEW e \in d .. Len(ends)
        PROVE  End(d) <= End(e) /\ Span(End(d)) <= Span(End(e))
    <2>1. e \in 0 .. Len(ends) /\ d <= e
      BY <1>1
    <2>2. End(d) <= End(e) /\ End(e) \in Nat
      BY <1>1, <2>1
    <2> QED
      BY <1>2, <2>2, SpanMonotone
  <1>6. ASSUME d + 1 <= Len(ends)
        PROVE  First(d + 1) = End(d) + 1
    <2>1. d + 1 - 1 = d
      BY <1>1
    <2> QED
      BY <2>1 DEF First
  <1> QED
    BY <1>2, <1>3, <1>4, <1>5, <1>6

\* Of such a list.
LEMMA ListedEntries ==
    ASSUME PacketsInv, NEW d \in 0 .. Len(ends), NEW list, Listed(list, d)
    PROVE  /\ list \in Seq(IncomingCommands)
           /\ Len(list) \in Nat /\ DOMAIN list = 1 .. Len(list)
           /\ \A i \in DOMAIN list :
                 /\ list[i].packet \in DOMAIN ends /\ list[i].packet \in Nat
                 /\ list[i].packet > d /\ list[i].packet <= Len(ends)
                 /\ First(list[i].packet) \in Nat /\ End(d) < First(list[i].packet)
                 /\ Span(First(list[i].packet)) \in Nat
                 /\ Span(First(list[i].packet)) + 2
                       <= Span(End(d)) + FreeReliableWindows
                 /\ list[i].fragmentsRemaining \in Nat
                 /\ list[i].fragments \in SUBSET Commands
                 /\ list[i].fragments \subseteq Content(list[i].packet)
                 /\ \A c \in list[i].fragments :
                       /\ c \in Nat /\ c > End(d)
                       /\ Span(c) <= Span(First(list[i].packet)) + 1
           /\ \A i, j \in DOMAIN list : i < j => list[i].packet < list[j].packet
  <1>1. list \in Seq(IncomingCommands)
    BY DEF Listed
  <1>2. Len(list) \in Nat /\ DOMAIN list = 1 .. Len(list)
    BY <1>1, LenProperties
  <1>3. Len(ends) \in Nat /\ DOMAIN ends = 1 .. Len(ends)
    BY EndsInOrder
  <1>4. ASSUME NEW i \in DOMAIN list
        PROVE  /\ list[i].packet \in DOMAIN ends /\ list[i].packet \in Nat
               /\ list[i].packet > d /\ list[i].packet <= Len(ends)
               /\ First(list[i].packet) \in Nat /\ End(d) < First(list[i].packet)
               /\ Span(First(list[i].packet)) \in Nat
               /\ Span(First(list[i].packet)) + 2
                     <= Span(End(d)) + FreeReliableWindows
               /\ list[i].fragmentsRemaining \in Nat
               /\ list[i].fragments \in SUBSET Commands
               /\ list[i].fragments \subseteq Content(list[i].packet)
               /\ \A c \in list[i].fragments :
                     /\ c \in Nat /\ c > End(d)
                     /\ Span(c) <= Span(First(list[i].packet)) + 1
    <2> PICK p : p = list[i].packet
      OBVIOUS
    <2>1. EntryOf(list[i], d)
      BY DEF Listed
    <2>2. /\ p \in d + 1 .. Len(ends)
          /\ list[i].fragments \subseteq Content(p)
          /\ Span(First(p)) + 2 <= Span(End(d)) + FreeReliableWindows
      BY <2>1 DEF EntryOf
    <2>3. /\ list[i].fragmentsRemaining \in Nat
          /\ list[i].fragments \in SUBSET Commands
      BY <2>1 DEF EntryOf, IncomingCommands
    <2>4. p \in DOMAIN ends /\ p \in Nat /\ p > d /\ p <= Len(ends)
      BY <1>3, <2>2
    <2>5. End(d) < First(p) /\ \A c \in Content(p) : c > End(d)
      BY <2>2, PacketsLater
    <2>6. /\ First(p) \in Nat
          /\ \A c \in Content(p) : c \in Nat /\ Span(c) <= Span(First(p)) + 1
      BY <2>4, ContentOf
    <2>7. Span(First(p)) \in Nat
      BY <2>6, SpanMonotone
    <2>8. \A c \in list[i].fragments :
             c \in Nat /\ c > End(d) /\ Span(c) <= Span(First(p)) + 1
      BY <2>2, <2>5, <2>6, Zenon
    <2> QED
      BY <2>2, <2>3, <2>4, <2>5, <2>6, <2>7, <2>8, Zenon
  <1>5. \A i, j \in DOMAIN list : i < j => list[i].packet < list[j].packet
    BY DEF Listed
  <1> QED
    BY <1>1, <1>2, <1>4, <1>5, Zenon

\* How far the receiver is behind: what was sent last is at most
\* FreeReliableWindows windows ahead of what it expects.
LEMMA ReceiverNear ==
    ASSUME PacketsInv, SenderInv, ReceiverInv
    PROVE  /\ Taken \in 0 .. Len(ends)
           /\ End(Taken) \in Nat /\ End(Taken) <= attempted
           /\ Span(End(Taken)) \in Nat /\ Span(attempted) \in Nat
           /\ Span(End(Taken)) <= Span(attempted)
           /\ Span(attempted) <= Span(End(Taken)) + FreeReliableWindows
  <1> PICK d : d = Taken
    OBVIOUS
  <1> PICK list : list = commands
    OBVIOUS
  <1>1. /\ Len(received) \in Nat /\ Len(dispatched) \in Nat /\ Len(ends) \in Nat
        /\ d <= Len(ends) /\ End(d) <= attempted /\ Listed(list, d)
        /\ \A c \in (1 .. attempted) \ outstanding : Has(list, d, c)
    BY EndsInOrder DEF ReceiverInv
  <1>2. d \in 0 .. Len(ends)
    BY <1>1 DEF Taken
  <1>3. End(d) \in Nat /\ Span(End(d)) \in Nat
    BY <1>2, PacketsLater
  <1>4. attempted \in Nat /\ Span(attempted) \in Nat
    BY SenderInv, OutstandingSpans
  <1>5. Span(End(d)) <= Span(attempted)
    BY <1>1, <1>3, <1>4, SpanMonotone
  <1>6. FreeReliableWindows \in Nat /\ FreeReliableWindows >= 3
    BY Constants
  <1>7. Span(attempted) <= Span(End(d)) + FreeReliableWindows
    <2>1. CASE Span(attempted) <= 1
      BY <2>1, <1>3, <1>4, <1>6
    <2>2. CASE \E c \in (1 .. attempted) \ outstanding : Span(c) = Span(attempted) - 1
      <3>1. PICK c \in (1 .. attempted) \ outstanding : Span(c) = Span(attempted) - 1
        BY <2>2
      <3>2. c \in Nat /\ Span(c) \in Nat
        BY <1>4, SpanMonotone
      <3>3. Has(list, d, c)
        BY <1>1
      <3>4. CASE c \in 1 .. End(d)
        <4>1. Span(c) <= Span(End(d))
          BY <3>2, <3>4, <1>3, SpanMonotone
        <4> QED
          BY <4>1, <3>1, <3>2, <1>3, <1>4, <1>6
      <3>5. CASE \E i \in DOMAIN list : c \in list[i].fragments
        <4>1. PICK i \in DOMAIN list : c \in list[i].fragments
          BY <3>5
        <4> PICK s : s = Span(First(list[i].packet))
          OBVIOUS
        <4>2. /\ s \in Nat /\ s + 2 <= Span(End(d)) + FreeReliableWindows
              /\ Span(c) <= s + 1
          BY <4>1, <1>1, <1>2, ListedEntries
        <4> QED
          BY <4>2, <3>1, <3>2, <1>3, <1>4, <1>6
      <3> QED
        BY <3>3, <3>4, <3>5 DEF Has
    <2> QED
      BY <2>1, <2>2 DEF SenderInv, Follows
  <1> QED
    BY <1>1, <1>2, <1>3, <1>4, <1>5, <1>7

\* What the receiver has it holds.
LEMMA HasIsHeld ==
    ASSUME PacketsInv, ReceiverInv, NEW c, Has(commands, Taken, c)
    PROVE  c \in Held
  <1>1. /\ received \in Seq(SUBSET Commands) /\ dispatched \in Seq(SUBSET Commands)
        /\ Taken <= Len(ends)
        /\ \A i \in DOMAIN received : received[i] = Content(i)
        /\ \A i \in DOMAIN dispatched : dispatched[i] = Content(Len(received) + i)
    BY DEF ReceiverInv
  <1>2. /\ DOMAIN received = 1 .. Len(received) /\ Len(received) \in Nat
        /\ DOMAIN dispatched = 1 .. Len(dispatched) /\ Len(dispatched) \in Nat
        /\ Len(ends) \in Nat /\ DOMAIN ends = 1 .. Len(ends)
    BY <1>1, EndsInOrder
  <1>3. CASE c \in 1 .. End(Taken)
    <2> PICK d : d = Taken
      OBVIOUS
    <2>1. d \in 0 .. Len(ends) /\ d = Len(received) + Len(dispatched)
      BY <1>1, <1>2 DEF Taken
    <2>2. End(d) \in Nat /\ End(d) <= queued /\ queued \in Nat
      BY <2>1, EndsInOrder
    <2>3. c \in 1 .. queued /\ c <= End(d)
      BY <1>3, <2>2
    <2> PICK n : n = PacketOf(c)
      OBVIOUS
    <2>4. n \in DOMAIN ends /\ c \in Content(n)
      BY <2>3, PacketOfContent
    <2>5. ~(n \in d + 1 .. Len(ends))
      BY <2>1, <2>3, <2>4, PacketsLater
    <2>6. n \in 1 .. d
      BY <1>2, <2>1, <2>4, <2>5
    <2>7. CASE n <= Len(received)
      <3>1. n \in DOMAIN received
        BY <1>2, <2>6, <2>7
      <3>2. c \in received[n]
        BY <1>1, <2>4, <3>1
      <3>3. received[n] \in ToSet(received)
        BY <3>1 DEF ToSet
      <3> QED
        BY <3>2, <3>3 DEF Held
    <2>8. CASE n > Len(received)
      <3>1. /\ n - Len(received) \in DOMAIN dispatched
            /\ Len(received) + (n - Len(received)) = n
        BY <1>2, <2>1, <2>6, <2>8
      <3>2. c \in dispatched[n - Len(received)]
        BY <1>1, <2>4, <3>1
      <3>3. dispatched[n - Len(received)] \in ToSet(dispatched)
        BY <3>1 DEF ToSet
      <3> QED
        BY <3>2, <3>3 DEF Held
    <2> QED
      BY <1>2, <2>6, <2>7, <2>8
  <1>4. CASE \E i \in DOMAIN commands : c \in commands[i].fragments
    BY <1>4 DEF Held
  <1> QED
    BY <1>3, <1>4 DEF Has

\* The number that the entry after the i-th would have, were it the next packet:
\* it has that number only if it is.
LEMMA NextEntry ==
    ASSUME PacketsInv, NEW d \in 0 .. Len(ends), NEW list, Listed(list, d),
           incoming = Number(End(d)), NEW i \in DOMAIN list,
           i > 1 => list[i - 1].packet = d + i - 1
    PROVE  EntryNumber(list[i]) = Following(NumberAfter(list, i - 1), 1)
              <=> list[i].packet = d + i
  <1> PICK p : p = list[i].packet
    OBVIOUS
  <1>1. /\ Len(list) \in Nat /\ DOMAIN list = 1 .. Len(list)
        /\ p \in Nat /\ p > d /\ p <= Len(ends) /\ p \in DOMAIN ends
        /\ First(p) \in Nat /\ Span(First(p)) \in Nat
        /\ Span(First(p)) + 2 <= Span(End(d)) + FreeReliableWindows
    BY ListedEntries
  <1>2. Len(ends) \in Nat /\ DOMAIN ends = 1 .. Len(ends)
    BY EndsInOrder
  <1>3. i \in Nat /\ i >= 1 /\ i <= Len(list)
    BY <1>1
  <1> PICK q : q = d + i - 1
    OBVIOUS
  <1>4. q \in Nat /\ q >= d
    <2>1. d \in Nat
      BY <1>2
    <2>2. d + i - 1 \in Nat /\ d + i - 1 >= d
      BY ONLY <2>1, <1>3
    <2> QED
      BY <2>2
  <1>5. p >= q + 1
    <2>1. CASE i = 1
      BY <2>1, <1>1
    <2>2. CASE i > 1
      <3>1. i - 1 \in DOMAIN list /\ i - 1 < i
        BY <2>2, <1>1, <1>3
      <3>2. list[i - 1].packet < p
        BY <3>1, ListedEntries
      <3>3. list[i - 1].packet = q
        BY <2>2
      <3> QED
        BY <3>2, <3>3, <1>1, <1>4
    <2> QED
      BY <2>1, <2>2, <1>3
  <1>6. q \in d .. Len(ends) /\ q \in 0 .. Len(ends) /\ q + 1 <= Len(ends)
    BY <1>1, <1>2, <1>4, <1>5
  <1>7. /\ End(q) \in Nat /\ First(q + 1) = End(q) + 1
        /\ End(d) \in Nat /\ End(d) <= End(q)
    BY <1>6, PacketsLater
  <1>8. NumberAfter(list, i - 1) = Number(End(q))
    <2>1. CASE i = 1
      BY <2>1, <1>1 DEF NumberAfter
    <2>2. CASE i > 1
      <3>1. list[i - 1].packet = q /\ i - 1 # 0
        BY <2>2, <1>3
      <3> QED
        BY <3>1 DEF NumberAfter
    <2> QED
      BY <2>1, <2>2, <1>3
  <1>9. Following(NumberAfter(list, i - 1), 1) = Number(First(q + 1))
    BY <1>7, <1>8, FollowingIsNext
  <1>10. EntryNumber(list[i]) = Number(First(p))
    BY DEF EntryNumber
  <1>11. ASSUME Number(First(p)) = Number(First(q + 1))
         PROVE  p = q + 1
    <2>1. q + 1 \in DOMAIN ends
      BY <1>2, <1>4, <1>6
    <2>2. First(q + 1) \in Nat
      BY <1>7
    <2>3. First(q + 1) <= First(p)
      BY <2>1, <2>2, <1>1, <1>5, PacketsApart
    <2>4. /\ Span(First(q + 1)) \in Nat /\ Span(End(d)) \in Nat
          /\ Span(End(d)) <= Span(First(q + 1))
          /\ Span(First(q + 1)) <= Span(First(p))
      <3> PICK x : x = First(q + 1)
        OBVIOUS
      <3> PICK y : y = First(p)
        OBVIOUS
      <3>1. x \in Nat /\ y \in Nat /\ x <= y /\ End(d) \in Nat /\ End(d) <= x
        BY <2>2, <2>3, <1>1, <1>7
      <3>2. Span(x) \in Nat /\ Span(End(d)) \in Nat
        BY <3>1, SpanMonotone
      <3>3. Span(End(d)) <= Span(x)
        BY <3>1, SpanMonotone
      <3>4. Span(x) <= Span(y)
        BY <3>1, SpanMonotone
      <3> QED
        BY <3>2, <3>3, <3>4
    <2>5. /\ Span(First(p)) < Span(First(q + 1)) + ReliableWindows
          /\ Span(First(q + 1)) < Span(First(p)) + ReliableWindows
      BY SMTT(30), <2>4, <1>1, Constants
    <2>6. First(p) = First(q + 1)
      BY <2>2, <2>5, <1>1, <1>11, SameNumber
    <2> QED
      BY <2>1, <2>6, <1>1, PacketsApart
  <1>12. q + 1 = d + i
    BY <1>3
  <1> QED
    BY <1>9, <1>10, <1>11, <1>12

\* Ready is how many of the entries, from the head of the list, are complete and
\* the next packets.
LEMMA ReadyEntries ==
    ASSUME PacketsInv, NEW d \in 0 .. Len(ends), NEW list, Listed(list, d),
           incoming = Number(End(d)), NEW n, n = Ready(list)
    PROVE  /\ n \in 0 .. Len(list)
           /\ \A i \in 1 .. n :
                 list[i].fragmentsRemaining = 0 /\ list[i].packet = d + i
           /\ n < Len(list) => \/ list[n + 1].fragmentsRemaining # 0
                               \/ list[n + 1].packet # d + n + 1
  <1> DEFINE G(i) == /\ list[i].fragmentsRemaining = 0
                     /\ EntryNumber(list[i]) = Following(NumberAfter(list, i - 1), 1)
             T == {0} \cup {m \in DOMAIN list : \A i \in 1 .. m : G(i)}
  <1>1. Len(list) \in Nat /\ DOMAIN list = 1 .. Len(list)
    BY ListedEntries
  <1>2. n = Max(T)
    BY DEF Ready
  <1>3. T \in SUBSET (0 .. Len(list)) /\ T # {}
    BY <1>1
  <1>4. \A m \in DOMAIN list : (\A i \in 1 .. m : G(i)) => m \in T
    OBVIOUS
  <1>5. \A m \in T : m # 0 => \A i \in 1 .. m : G(i)
    OBVIOUS
  <1> HIDE DEF T
  <1>6. Max(T) \in T /\ \A m \in T : Max(T) >= m
    BY <1>1, <1>3, Greatest
  <1>7. n \in 0 .. Len(list) /\ n \in Nat
    <2>1. n \in T /\ T \subseteq 0 .. Len(list)
      BY <1>2, <1>3, <1>6
    <2> QED
      BY <2>1, <1>1
  <1>8. \A i \in 1 .. n : G(i)
    <2>1. CASE n = 0
      BY <2>1
    <2>2. CASE n # 0
      BY <2>2, <1>2, <1>5, <1>6
    <2> QED
      BY <2>1, <2>2
  <1>9. n < Len(list) => ~G(n + 1)
    <2> SUFFICES ASSUME n < Len(list), G(n + 1) PROVE FALSE
      OBVIOUS
    <2>1. n + 1 \in DOMAIN list
      BY <1>1, <1>7
    <2>2. \A i \in 1 .. n + 1 : i \in 1 .. n \/ i = n + 1
      BY <1>7
    <2>3. \A i \in 1 .. n + 1 : G(i)
      BY <2>2, <1>8
    <2> HIDE DEF G
    <2>4. n + 1 \in T
      BY <2>1, <2>3, <1>4
    <2> QED
      BY <2>4, <1>2, <1>6, <1>7
  <1>10. \A i \in DOMAIN list : (i > 1 => list[i - 1].packet = d + i - 1) =>
            (G(i) <=> list[i].fragmentsRemaining = 0 /\ list[i].packet = d + i)
    BY NextEntry
  <1> HIDE DEF G
  <1>11. \A i \in 1 .. n : list[i].packet = d + i
    <2> DEFINE B == {i \in 1 .. n : list[i].packet # d + i}
    <2> SUFFICES ASSUME B # {} PROVE FALSE
      OBVIOUS
    <2>1. B \in SUBSET Nat
      OBVIOUS
    <2>2. PICK i \in B : \A j \in B : i <= j
      BY <2>1, Least
    <2>3. i \in 1 .. n /\ i \in DOMAIN list /\ i \in Nat
      BY <2>2, <1>1, <1>7
    <2>4. i > 1 => list[i - 1].packet = d + i - 1
      <3> SUFFICES ASSUME i > 1, list[i - 1].packet # d + i - 1 PROVE FALSE
        OBVIOUS
      <3>1. i - 1 \in 1 .. n /\ d + (i - 1) = d + i - 1 /\ ~(i <= i - 1)
        BY <2>3, <1>7
      <3>2. i - 1 \in B
        BY <3>1
      <3> QED
        BY <3>1, <3>2, <2>2
    <2>5. list[i].packet = d + i
      BY <2>3, <2>4, <1>8, <1>10
    <2> QED
      BY <2>2, <2>5
  <1>12. ASSUME n < Len(list)
         PROVE  \/ list[n + 1].fragmentsRemaining # 0
                \/ list[n + 1].packet # d + n + 1
    <2> PICK i : i = n + 1
      OBVIOUS
    <2>1. /\ i \in DOMAIN list /\ i \in Nat /\ i - 1 = n
          /\ d \in Nat /\ d + i = d + n + 1 /\ d + i - 1 = d + n
      <3>1. d \in Nat
        BY EndsInOrder
      <3>2. n + 1 \in 1 .. Len(list) /\ n + 1 - 1 = n
        BY <1>1, <1>7, <1>12
      <3>3. d + (n + 1) = d + n + 1 /\ d + (n + 1) - 1 = d + n
        BY ONLY <1>7, <3>1
      <3> QED
        BY <1>1, <1>7, <3>1, <3>2, <3>3
    <2>2. i > 1 => list[i - 1].packet = d + i - 1
      <3> SUFFICES ASSUME i > 1 PROVE list[n].packet = d + n
        BY <2>1
      <3>1. n \in 1 .. n
        BY <1>7, <2>1
      <3> QED
        BY <3>1, <1>11
    <2>3. ~G(i)
      BY <1>9, <1>12
    <2>4. ~(list[i].fragmentsRemaining = 0 /\ list[i].packet = d + i)
      BY <2>1, <2>2, <2>3, <1>10
    <2> QED
      BY <2>1, <2>4
  <1>13. \A i \in 1 .. n : list[i].fragmentsRemaining = 0
    <2> SUFFICES ASSUME NEW i \in 1 .. n PROVE list[i].fragmentsRemaining = 0
      OBVIOUS
    <2> QED
      BY <1>8 DEF G
  <1> QED
    BY <1>7, <1>11, <1>12, <1>13

\* An entry that is complete has its whole packet.
LEMMA CompleteEntry ==
    ASSUME PacketsInv, NEW d \in 0 .. Len(ends), NEW entry, EntryOf(entry, d),
           entry.fragmentsRemaining = 0
    PROVE  entry.fragments = Content(entry.packet)
  <1>1. /\ entry.packet \in DOMAIN ends
        /\ entry.fragments \subseteq Content(entry.packet)
        /\ Cardinality(Content(entry.packet)) = 0 + Cardinality(entry.fragments)
    BY PacketsLater DEF EntryOf
  <1>2. /\ IsFiniteSet(Content(entry.packet))
        /\ Cardinality(Content(entry.packet)) \in Nat
    BY <1>1, ContentOf
  <1>3. IsFiniteSet(entry.fragments)
    BY <1>1, <1>2, FS_Subset
  <1>4. Cardinality(entry.fragments) \in Nat
    BY <1>3, FS_CardinalityType
  <1>5. Cardinality(entry.fragments) = Cardinality(Content(entry.packet))
    BY <1>1, <1>4
  <1> QED
    BY <1>1, <1>2, <1>5, FS_Subset

\* What remains of a list is a list when more packets have left it.
LEMMA EntryLater ==
    ASSUME PacketsInv, NEW d \in 0 .. Len(ends), NEW e \in d .. Len(ends),
           NEW entry, EntryOf(entry, d), entry.packet > e
    PROVE  EntryOf(entry, e)
  <1>1. Len(ends) \in Nat
    BY EndsInOrder
  <1>2. /\ Span(End(d)) \in Nat /\ Span(End(d)) <= Span(End(e))
        /\ End(e) \in Nat
    <2>1. e \in 0 .. Len(ends)
      BY <1>1
    <2> QED
      BY <2>1, PacketsLater
  <1>3. Span(End(e)) \in Nat
    BY <1>2, SpanMonotone
  <1>4. /\ entry.packet \in d + 1 .. Len(ends)
        /\ Span(First(entry.packet)) + 2 <= Span(End(d)) + FreeReliableWindows
    BY DEF EntryOf
  <1> PICK p : p = entry.packet
    OBVIOUS
  <1>5. p \in DOMAIN ends
    BY <1>4, PacketsLater
  <1>6. First(p) \in Nat
    BY <1>5, ContentOf
  <1>7. Span(First(p)) \in Nat
    BY <1>6, SpanMonotone
  <1>8. Span(First(p)) + 2 <= Span(End(e)) + FreeReliableWindows
    BY <1>2, <1>3, <1>4, <1>7, Constants
  <1>9. p \in e + 1 .. Len(ends)
    BY <1>1, <1>4
  <1> QED
    BY <1>8, <1>9 DEF EntryOf

\* What enet_peer_dispatch_incoming_reliable_commands does to a list: the next
\* packets leave it, whole and in order, and nothing that was held is lost.
LEMMA Dispatches ==
    ASSUME PacketsInv, NEW d \in 0 .. Len(ends), NEW list, Listed(list, d),
           incoming = Number(End(d)), Dispatch(list)
    PROVE  \E n \in 0 .. Len(list) :
              /\ d + n \in d .. Len(ends)
              /\ n # 0 => \E c \in list[n].fragments : c >= End(d + n)
              /\ incoming' = Number(End(d + n))
              /\ commands' = SubSeq(list, n + 1, Len(list))
              /\ dispatched' = dispatched \o [i \in 1 .. n |-> Content(d + i)]
              /\ Listed(commands', d + n) /\ Waits(commands', d + n)
              /\ \A c : Has(list, d, c) => Has(commands', d + n, c)
  <1> PICK n : n = Ready(list)
    OBVIOUS
  <1> PICK rest : rest = SubSeq(list, n + 1, Len(list))
    OBVIOUS
  <1>1. /\ list \in Seq(IncomingCommands)
        /\ Len(list) \in Nat /\ DOMAIN list = 1 .. Len(list)
    BY ListedEntries
  <1>2. /\ n \in 0 .. Len(list) /\ n \in Nat
        /\ \A i \in 1 .. n : list[i].fragmentsRemaining = 0 /\ list[i].packet = d + i
        /\ n < Len(list) => \/ list[n + 1].fragmentsRemaining # 0
                            \/ list[n + 1].packet # d + n + 1
    <2>1. n \in 0 .. Len(list)
      BY ReadyEntries
    <2>2. n \in Nat
      BY <1>1, <2>1
    <2>3. \A i \in 1 .. n : list[i].fragmentsRemaining = 0 /\ list[i].packet = d + i
      BY ReadyEntries
    <2>4. n < Len(list) => \/ list[n + 1].fragmentsRemaining # 0
                           \/ list[n + 1].packet # d + n + 1
      BY ReadyEntries
    <2> QED
      BY <2>1, <2>2, <2>3, <2>4
  <1>3. Len(ends) \in Nat /\ d \in Nat /\ DOMAIN ends = 1 .. Len(ends)
    BY EndsInOrder
  <1>4. ASSUME NEW i \in 1 .. n
        PROVE  /\ i \in DOMAIN list /\ EntryOf(list[i], d)
               /\ list[i].fragments = Content(d + i)
               /\ d + i <= Len(ends)
    <2>1. i \in DOMAIN list /\ list[i].fragmentsRemaining = 0 /\ list[i].packet = d + i
      BY <1>1, <1>2
    <2>2. EntryOf(list[i], d)
      BY <2>1 DEF Listed
    <2>3. list[i].fragments = Content(list[i].packet)
      BY <2>1, <2>2, CompleteEntry
    <2>4. list[i].packet <= Len(ends)
      BY <2>1, ListedEntries
    <2> QED
      BY <2>1, <2>2, <2>3, <2>4
  <1>5. /\ d + n \in d .. Len(ends) /\ d + n \in 0 .. Len(ends)
        /\ n # 0 => n \in 1 .. n /\ d + n \in DOMAIN ends
    <2>1. CASE n = 0
      BY <2>1, <1>3
    <2>2. CASE n # 0
      <3>1. n \in 1 .. n
        BY <2>2, <1>2
      <3>2. d + n <= Len(ends)
        BY <3>1, <1>4
      <3> QED
        BY <3>1, <3>2, <1>2, <1>3
    <2> QED
      BY <2>1, <2>2
  <1>6. n # 0 => \E c \in list[n].fragments : c >= End(d + n)
    <2> SUFFICES ASSUME n # 0 PROVE \E c \in list[n].fragments : c >= End(d + n)
      OBVIOUS
    <2>1. list[n].fragments = Content(d + n)
      BY <1>4, <1>5
    <2>2. End(d + n) \in Content(d + n) /\ End(d + n) \in Nat
      BY <1>5, ContentOf
    <2> QED
      BY <2>1, <2>2
  <1>7. incoming' = Number(End(d + n))
    <2>1. incoming' = NumberAfter(list, n)
      BY DEF Dispatch
    <2>2. CASE n = 0
      BY <2>1, <2>2, <1>3 DEF NumberAfter
    <2>3. CASE n # 0
      BY <2>1, <2>3, <1>2, <1>5 DEF NumberAfter
    <2> QED
      BY <2>2, <2>3
  <1>8. commands' = rest
    BY DEF Dispatch
  <1>9. dispatched' = dispatched \o [i \in 1 .. n |-> Content(d + i)]
    <2>1. dispatched' = dispatched \o [i \in 1 .. n |-> list[i].fragments]
      BY DEF Dispatch
    <2>2. [i \in 1 .. n |-> list[i].fragments] = [i \in 1 .. n |-> Content(d + i)]
      BY <1>4
    <2> QED
      BY <2>1, <2>2
  <1>10. /\ rest \in Seq(IncomingCommands) /\ Len(rest) = Len(list) - n
         /\ DOMAIN rest = 1 .. Len(list) - n
         /\ \A j \in 1 .. Len(list) - n : n + j \in DOMAIN list /\ rest[j] = list[n + j]
    <2>1. \A i \in n + 1 .. Len(list) : list[i] \in IncomingCommands
      BY <1>1, <1>2, ElementOfSeq
    <2>2. n + 1 \in Int /\ Len(list) \in Int
      BY <1>1, <1>2
    <2>3. /\ rest \in Seq(IncomingCommands)
          /\ Len(rest) = IF n + 1 <= Len(list) THEN Len(list) - (n + 1) + 1 ELSE 0
          /\ \A j \in 1 .. Len(list) - (n + 1) + 1 : rest[j] = list[n + 1 + j - 1]
      BY <2>1, <2>2, SubSeqProperties
    <2>4. Len(rest) = Len(list) - n
      BY <2>3, <1>1, <1>2
    <2>5. ASSUME NEW j \in 1 .. Len(list) - n
          PROVE  n + j \in DOMAIN list /\ rest[j] = list[n + j]
      <3>1. /\ j \in 1 .. Len(list) - (n + 1) + 1 /\ n + 1 + j - 1 = n + j
            /\ n + j \in 1 .. Len(list)
        BY <1>1, <1>2
      <3> QED
        BY <3>1, <2>3, <1>1
    <2> QED
      BY <2>3, <2>4, <2>5
  <1>11. Listed(rest, d + n)
    <2>1. ASSUME NEW j \in DOMAIN rest
          PROVE  EntryOf(rest[j], d + n)
      <3>1. n + j \in DOMAIN list /\ rest[j] = list[n + j] /\ j >= 1 /\ j \in Nat
        BY SMTT(30), <1>10, <1>1, <1>2
      <3>2. EntryOf(list[n + j], d) /\ list[n + j].packet \in Nat
        BY <3>1, ListedEntries DEF Listed
      <3>3. list[n + j].packet > d + n
        <4>1. CASE n = 0
          BY <4>1, <3>1, <1>3, ListedEntries
        <4>2. CASE n # 0
          <5>1. n \in DOMAIN list /\ list[n].packet = d + n /\ n < n + j
            <6>1. n \in 1 .. n
              BY <4>2, <1>5
            <6>2. n \in DOMAIN list /\ list[n].packet = d + n
              BY <6>1, <1>2, <1>4
            <6> QED
              BY <6>2, <3>1, <1>2
          <5>2. list[n].packet < list[n + j].packet
            BY <5>1, <3>1, ListedEntries
          <5> QED
            BY <5>1, <5>2, <3>2, <1>2, <1>3
        <4> QED
          BY <4>1, <4>2
      <3> QED
        BY <3>1, <3>2, <3>3, <1>5, EntryLater
    <2>2. ASSUME NEW i \in DOMAIN rest, NEW j \in DOMAIN rest, i < j
          PROVE  rest[i].packet < rest[j].packet
      <3>1. /\ n + i \in DOMAIN list /\ rest[i] = list[n + i]
            /\ n + j \in DOMAIN list /\ rest[j] = list[n + j]
            /\ n + i < n + j
        <4>1. i \in 1 .. Len(list) - n /\ j \in 1 .. Len(list) - n
          BY <1>10
        <4>2. n + i < n + j
          BY <4>1, <2>2, <1>1, <1>2
        <4> QED
          BY <4>1, <4>2, <1>10
      <3> QED
        BY <3>1, ListedEntries
    <2> QED
      BY <2>1, <2>2, <1>10 DEF Listed
  <1>12. Waits(rest, d + n)
    <2> SUFFICES ASSUME rest # <<>>
                 PROVE  \/ rest[1].packet # d + n + 1
                        \/ rest[1].fragmentsRemaining # 0
      BY DEF Waits
    <2>1. Len(rest) # 0
      BY <1>10, EmptySeq
    <2>2. 1 \in 1 .. Len(list) - n /\ n < Len(list)
      BY <2>1, <1>1, <1>2, <1>10
    <2>3. rest[1] = list[n + 1]
      BY <2>2, <1>10
    <2> QED
      BY <2>2, <2>3, <1>2
  <1>13. ASSUME NEW c, Has(list, d, c)
         PROVE  Has(rest, d + n, c)
    <2>1. End(d) \in Nat /\ End(d + n) \in Nat /\ End(d) <= End(d + n)
      BY <1>5, PacketsLater
    <2>2. CASE c \in 1 .. End(d)
      BY <2>1, <2>2 DEF Has
    <2>3. CASE \E i \in DOMAIN list : c \in list[i].fragments
      <3>1. PICK i \in DOMAIN list : c \in list[i].fragments
        BY <2>3
      <3>2. CASE i <= n
        <4>1. i \in 1 .. n
          BY <3>1, <3>2, <1>1, <1>2
        <4>2. c \in Content(d + i)
          BY <3>1, <4>1, <1>4
        <4>3. d + i \in DOMAIN ends /\ d + i \in 1 .. d + n /\ d + i <= Len(ends)
          BY <4>1, <1>2, <1>3, <1>4
        <4>4. /\ First(d + i) \in Nat /\ 1 <= First(d + i)
              /\ c \in Nat /\ First(d + i) <= c /\ c <= End(d + i)
              /\ End(d + i) \in Nat
          BY <4>2, <4>3, ContentOf
        <4>5. End(d + i) <= End(d + n)
          BY <4>3, <1>5, PacketsLater
        <4> QED
          BY <4>4, <4>5, <2>1 DEF Has
      <3>3. CASE i > n
        <4>1. i - n \in DOMAIN rest /\ i - n \in 1 .. Len(list) - n /\ n + (i - n) = i
          BY <3>1, <3>3, <1>1, <1>2, <1>10
        <4>2. rest[i - n] = list[i]
          BY <4>1, <1>10
        <4> QED
          BY <4>1, <4>2, <3>1 DEF Has
      <3> QED
        BY <3>1, <3>2, <3>3, <1>1, <1>2
    <2> QED
      BY <1>13, <2>2, <2>3 DEF Has
  <1> QED
    BY <1>2, <1>5, <1>6, <1>7, <1>8, <1>9, <1>11, <1>12, <1>13, Zenon

\* Where a packet's place in the list is: after the packets up to it.
LEMMA PositionOf ==
    ASSUME PacketsInv, NEW d \in 0 .. Len(ends), Listed(commands, d),
           incoming = Number(End(d)), NEW p \in d + 1 .. Len(ends),
           Span(First(p)) < Span(End(d)) + ReliableWindows,
           NEW k, k = Position(Number(First(p)))
    PROVE  /\ k \in 0 .. Len(commands)
           /\ k # 0 => commands[k].packet <= p
           /\ \A i \in k + 1 .. Len(commands) : commands[i].packet > p
           /\ IsQueued(Number(First(p))) <=> k # 0 /\ commands[k].packet = p
           /\ Duplicate(Number(First(p))) <=> IsQueued(Number(First(p)))
  <1> DEFINE number == Number(First(p))
             T == {0} \cup {i \in DOMAIN commands :
                                ~Past(EntryNumber(commands[i]), number)}
  <1>1. Len(commands) \in Nat /\ DOMAIN commands = 1 .. Len(commands)
    BY ListedEntries
  <1>2. /\ p \in DOMAIN ends /\ p \in Nat /\ End(d) \in Nat /\ End(d) < First(p)
        /\ Span(End(d)) \in Nat
    BY EndsInOrder, PacketsLater
  <1>3. First(p) \in Nat /\ Span(First(p)) \in Nat
    BY <1>2, ContentOf, SpanMonotone
  <1>4. ASSUME NEW i \in DOMAIN commands
        PROVE  /\ commands[i].packet \in Nat
               /\ Past(EntryNumber(commands[i]), number) <=> commands[i].packet > p
               /\ EntryNumber(commands[i]) = number <=> commands[i].packet = p
    <2> PICK q : q = commands[i].packet
      OBVIOUS
    <2>1. /\ q \in DOMAIN ends /\ q \in Nat
          /\ First(q) \in Nat /\ End(d) < First(q)
          /\ Span(First(q)) \in Nat
          /\ Span(First(q)) + 2 <= Span(End(d)) + FreeReliableWindows
      BY ListedEntries
    <2>2. Span(First(q)) < Span(End(d)) + ReliableWindows
      BY <2>1, <1>2, Constants
    <2>3. Past(Number(First(q)), number) <=> First(q) > First(p)
      BY <2>1, <2>2, <1>2, <1>3, PastIsAfter
    <2>4. First(q) > First(p) <=> q > p
      BY <2>1, <1>2, <1>3, PacketsApart
    <2>5. EntryNumber(commands[i]) = Number(First(q))
      BY DEF EntryNumber
    <2>6. Span(End(d)) <= Span(First(p)) /\ Span(End(d)) <= Span(First(q))
      <3>1. Span(End(d)) <= Span(First(p))
        BY <1>2, <1>3, SpanMonotone
      <3>2. Span(End(d)) <= Span(First(q))
        BY <1>2, <2>1, SpanMonotone
      <3> QED
        BY <3>1, <3>2
    <2>7. ASSUME Number(First(q)) = number
          PROVE  q = p
      <3>1. /\ Span(First(p)) < Span(First(q)) + ReliableWindows
            /\ Span(First(q)) < Span(First(p)) + ReliableWindows
        BY SMTT(30), <2>1, <2>2, <2>6, <1>2, <1>3, Constants
      <3>2. First(q) = First(p)
        BY <2>1, <2>7, <3>1, <1>3, SameNumber
      <3> QED
        BY <2>1, <3>2, <1>2, PacketsApart
    <2> QED
      BY <2>1, <2>3, <2>4, <2>5, <2>7
  <1>5. k = Max(T)
    BY DEF Position
  <1>6. T \in SUBSET (0 .. Len(commands)) /\ T # {}
    BY <1>1
  <1>7. \A i \in DOMAIN commands : i \in T => commands[i].packet <= p
    BY <1>1, <1>2, <1>4
  <1>8. \A i \in DOMAIN commands : commands[i].packet <= p => i \in T
    BY <1>2, <1>4
  <1> HIDE DEF T
  <1>9. Max(T) \in T /\ \A i \in T : Max(T) >= i
    BY <1>1, <1>6, Greatest
  <1>10. k \in 0 .. Len(commands) /\ k \in Nat
    <2>1. k \in T /\ T \subseteq 0 .. Len(commands)
      BY <1>5, <1>6, <1>9
    <2> QED
      BY <2>1, <1>1
  <1>11. k # 0 => commands[k].packet <= p /\ k \in DOMAIN commands
    BY <1>1, <1>5, <1>7, <1>9, <1>10
  <1>12. ASSUME NEW i \in k + 1 .. Len(commands)
         PROVE  commands[i].packet > p
    <2>1. i \in DOMAIN commands /\ i \in Nat /\ ~(k >= i)
      BY <1>1, <1>10
    <2>2. i \notin T
      BY <2>1, <1>5, <1>9
    <2> QED
      BY <2>1, <2>2, <1>2, <1>4, <1>8
  <1>13. IsQueued(number) <=> k # 0 /\ commands[k].packet = p
    BY <1>4, <1>11 DEF IsQueued
  <1>14. number # incoming
    <2> SUFFICES ASSUME number = incoming PROVE FALSE
      OBVIOUS
    <2>1. Span(End(d)) <= Span(First(p))
      BY <1>2, <1>3, SpanMonotone
    <2>2. /\ Span(First(p)) < Span(End(d)) + ReliableWindows
          /\ Span(End(d)) < Span(First(p)) + ReliableWindows
      BY <2>1, <1>2, <1>3, Constants
    <2>3. First(p) = End(d)
      BY <2>2, <1>2, <1>3, SameNumber
    <2> QED
      BY <2>3, <1>2, <1>3
  <1>15. Duplicate(number) <=> IsQueued(number)
    BY <1>14 DEF Duplicate
  <1> QED
    BY <1>10, <1>11, <1>12, <1>13, <1>15

\* A packet that is not in the list is inserted in its place.
LEMMA Inserted ==
    ASSUME PacketsInv, NEW d \in 0 .. Len(ends), NEW list, Listed(list, d),
           NEW k \in 0 .. Len(list), NEW entry, EntryOf(entry, d),
           k # 0 => list[k].packet < entry.packet,
           \A i \in k + 1 .. Len(list) : list[i].packet > entry.packet,
           NEW r, r = InsertAt(list, k + 1, entry)
    PROVE  /\ Listed(r, d)
           /\ \A c : Has(list, d, c) => Has(r, d, c)
           /\ \A c \in entry.fragments : Has(r, d, c)
  <1>1. /\ list \in Seq(IncomingCommands)
        /\ Len(list) \in Nat /\ DOMAIN list = 1 .. Len(list)
    BY ListedEntries
  <1>2. entry \in IncomingCommands /\ entry.packet \in Nat
    BY DEF EntryOf, IncomingCommands
  <1>3. k \in Nat /\ k + 1 \in 1 .. Len(list) + 1 /\ k + 1 - 1 = k
    BY <1>1
  <1>4. /\ r \in Seq(IncomingCommands)
        /\ DOMAIN r = 1 .. Len(list) + 1
        /\ \A j \in 1 .. k : r[j] = list[j]
        /\ r[k + 1] = entry
        /\ \A j \in k + 1 .. Len(list) : r[j + 1] = list[j]
    <2> PICK x : x = k + 1
      OBVIOUS
    <2>1. x \in 1 .. Len(list) + 1 /\ x - 1 = k
      BY <1>3
    <2>2. r = InsertAt(list, x, entry)
      OBVIOUS
    <2>3. /\ r \in Seq(IncomingCommands)
          /\ DOMAIN r = 1 .. Len(list) + 1
          /\ \A j \in 1 .. x - 1 : r[j] = list[j]
          /\ r[x] = entry
          /\ \A j \in x .. Len(list) : r[j + 1] = list[j]
      <3>1. /\ list \in Seq(IncomingCommands) /\ entry \in IncomingCommands
            /\ x \in 1 .. Len(list) + 1
        BY <1>1, <1>2, <2>1
      <3>2. /\ r \in Seq(IncomingCommands) /\ DOMAIN r = 1 .. Len(list) + 1
            /\ \A j \in 1 .. x - 1 : r[j] = list[j]
            /\ r[x] = entry
        BY ONLY <3>1, <2>2, InsertedAt
      <3>3. \A j \in x .. Len(list) : r[j + 1] = list[j]
        BY ONLY <3>1, <2>2, InsertedAt
      <3> QED
        BY <3>2, <3>3
    <2> QED
      BY <2>1, <2>3
  <1>5. \A j \in 1 .. k : j \in DOMAIN list /\ r[j] = list[j]
    BY <1>1, <1>3, <1>4
  <1>6. \A j \in k + 2 .. Len(list) + 1 :
           /\ j - 1 \in DOMAIN list /\ j - 1 \in k + 1 .. Len(list)
           /\ r[j] = list[j - 1]
    <2> SUFFICES ASSUME NEW j \in k + 2 .. Len(list) + 1
                 PROVE  /\ j - 1 \in DOMAIN list /\ j - 1 \in k + 1 .. Len(list)
                        /\ r[j] = list[j - 1]
      OBVIOUS
    <2>1. j - 1 \in DOMAIN list /\ j - 1 \in k + 1 .. Len(list) /\ j - 1 + 1 = j
      BY <1>1, <1>3
    <2> QED
      BY <2>1, <1>4
  <1>7. \A j \in DOMAIN r : j \in 1 .. k \/ j = k + 1 \/ j \in k + 2 .. Len(list) + 1
    BY <1>1, <1>3, <1>4
  <1>8. \A i \in DOMAIN list : EntryOf(list[i], d) /\ list[i].packet \in Nat
    BY ListedEntries DEF Listed
  <1>9. \A i, j \in DOMAIN list : i < j => list[i].packet < list[j].packet
    BY ListedEntries
  <1>10. ASSUME NEW j \in DOMAIN r
         PROVE  EntryOf(r[j], d)
    BY <1>4, <1>5, <1>6, <1>7, <1>8
  <1>11. \A i \in 1 .. k : list[i].packet < entry.packet
    <2> SUFFICES ASSUME NEW i \in 1 .. k PROVE list[i].packet < entry.packet
      OBVIOUS
    <2>1. i \in DOMAIN list /\ k \in DOMAIN list /\ k # 0 /\ (i = k \/ i < k)
      BY <1>1, <1>3
    <2>2. list[k].packet < entry.packet
      BY <2>1
    <2>3. list[i].packet = list[k].packet \/ list[i].packet < list[k].packet
      BY <2>1, <1>9
    <2> QED
      BY <2>1, <2>2, <2>3, <1>2, <1>8
  <1>12. ASSUME NEW i \in DOMAIN r, NEW j \in DOMAIN r, i < j
         PROVE  r[i].packet < r[j].packet
    <2>1. i \in Nat /\ j \in Nat
      BY <1>1, <1>4
    <2>2. CASE i \in 1 .. k /\ j \in 1 .. k
      BY <2>2, <1>5, <1>9, <1>12
    <2>3. CASE i \in 1 .. k /\ j = k + 1
      BY <2>3, <1>4, <1>5, <1>11
    <2>4. CASE i \in 1 .. k /\ j \in k + 2 .. Len(list) + 1
      <3>1. i < j - 1
        BY <2>1, <2>4, <1>1, <1>3
      <3> QED
        BY <2>4, <3>1, <1>5, <1>6, <1>9
    <2>5. CASE i = k + 1 /\ j \in k + 2 .. Len(list) + 1
      <3>1. j - 1 \in k + 1 .. Len(list) /\ r[j] = list[j - 1] /\ j - 1 \in DOMAIN list
        BY <2>5, <1>6
      <3>2. list[j - 1].packet > entry.packet
        BY <3>1
      <3> QED
        BY <2>5, <3>1, <3>2, <1>2, <1>4, <1>8
    <2>6. CASE i \in k + 2 .. Len(list) + 1 /\ j \in k + 2 .. Len(list) + 1
      <3>1. i - 1 < j - 1
        BY <2>1, <1>12
      <3> QED
        BY <2>6, <3>1, <1>6, <1>9
    <2>7. CASE ~(i \in 1 .. k) /\ j \in 1 .. k
      BY <2>1, <2>7, <1>1, <1>3, <1>4, <1>12
    <2>8. CASE ~(i \in 1 .. k) /\ ~(j \in 1 .. k)
      BY <2>1, <2>5, <2>6, <2>8, <1>1, <1>3, <1>7, <1>12
    <2> QED
      BY <2>2, <2>3, <2>4, <2>7, <2>8, <1>7
  <1>13. Listed(r, d)
    BY <1>4, <1>10, <1>12 DEF Listed
  <1>14. ASSUME NEW c, Has(list, d, c)
         PROVE  Has(r, d, c)
    <2>1. CASE c \in 1 .. End(d)
      BY <2>1 DEF Has
    <2>2. CASE \E i \in DOMAIN list : c \in list[i].fragments
      <3>1. PICK i \in DOMAIN list : c \in list[i].fragments
        BY <2>2
      <3>2. CASE i <= k
        <4>1. i \in 1 .. k /\ i \in DOMAIN r
          BY <3>2, <1>1, <1>3, <1>4
        <4>2. r[i] = list[i]
          BY <4>1, <1>5
        <4> QED
          BY <4>1, <4>2, <3>1 DEF Has
      <3>3. CASE i > k
        <4>1. /\ i + 1 \in k + 2 .. Len(list) + 1 /\ i + 1 \in DOMAIN r
              /\ i + 1 - 1 = i
          BY <3>3, <1>1, <1>3, <1>4
        <4>2. r[i + 1] = list[i]
          BY <4>1, <1>6
        <4> QED
          BY <4>1, <4>2, <3>1 DEF Has
      <3> QED
        BY <3>2, <3>3, <1>1, <1>3
    <2> QED
      BY <1>14, <2>1, <2>2 DEF Has
  <1>15. \A c \in entry.fragments : Has(r, d, c)
    <2>1. k + 1 \in DOMAIN r
      BY <1>1, <1>3, <1>4
    <2> QED
      BY <2>1, <1>4 DEF Has
  <1> QED
    BY <1>13, <1>14, <1>15

\* An entry of the list may be replaced by one of its packet that has more.
LEMMA Replaced ==
    ASSUME PacketsInv, NEW d \in 0 .. Len(ends), NEW list, Listed(list, d),
           NEW k \in DOMAIN list, NEW entry, EntryOf(entry, d),
           entry.packet = list[k].packet,
           list[k].fragments \subseteq entry.fragments,
           NEW r, r = [list EXCEPT ![k] = entry]
    PROVE  /\ Listed(r, d)
           /\ \A c : Has(list, d, c) => Has(r, d, c)
           /\ \A c \in entry.fragments : Has(r, d, c)
  <1>1. /\ list \in Seq(IncomingCommands)
        /\ Len(list) \in Nat /\ DOMAIN list = 1 .. Len(list)
    BY ListedEntries
  <1>2. entry \in IncomingCommands
    BY DEF EntryOf
  <1>3. /\ r \in Seq(IncomingCommands) /\ DOMAIN r = DOMAIN list
        /\ \A j \in DOMAIN list : r[j] = IF j = k THEN entry ELSE list[j]
    BY <1>1, <1>2, ExceptSeq
  <1>4. \A i \in DOMAIN list : EntryOf(list[i], d) /\ list[i].packet \in Nat
    BY ListedEntries DEF Listed
  <1>5. \A j \in DOMAIN r : EntryOf(r[j], d)
    BY <1>3, <1>4
  <1>6. \A j \in DOMAIN r : r[j].packet = list[j].packet
    BY <1>3
  <1>7. \A i, j \in DOMAIN r : i < j => r[i].packet < r[j].packet
    BY <1>3, <1>6 DEF Listed
  <1>8. \A j \in DOMAIN list : list[j].fragments \subseteq r[j].fragments
    BY <1>3
  <1>9. \A c : Has(list, d, c) => Has(r, d, c)
    BY <1>3, <1>8 DEF Has
  <1>10. \A c \in entry.fragments : Has(r, d, c)
    BY <1>3 DEF Has
  <1> QED
    BY <1>3, <1>5, <1>7, <1>9, <1>10 DEF Listed

\* The entry of a packet whose first command has arrived.
LEMMA NewEntry ==
    ASSUME PacketsInv, NEW d \in 0 .. Len(ends), NEW p \in d + 1 .. Len(ends),
           Span(First(p)) + 2 <= Span(End(d)) + FreeReliableWindows,
           NEW c \in Content(p), c \in 1 .. attempted,
           NEW entry,
           entry = [packet |-> p, fragments |-> {c},
                    fragmentsRemaining |-> Cardinality(Content(p)) - 1]
    PROVE  EntryOf(entry, d)
  <1>1. p \in DOMAIN ends /\ p \in Nat \ {0}
    BY PacketsLater, EndsInOrder
  <1>2. /\ IsFiniteSet(Content(p)) /\ Cardinality(Content(p)) \in Nat \ {0}
        /\ Content(p) \subseteq Commands
    BY <1>1, ContentOf
  <1>3. Cardinality({c}) = 1
    BY FS_Singleton
  <1>4. /\ Cardinality(Content(p)) - 1 \in Nat
        /\ Cardinality(Content(p)) = Cardinality(Content(p)) - 1 + Cardinality({c})
    BY <1>2, <1>3
  <1>5. entry \in IncomingCommands
    BY <1>1, <1>2, <1>4 DEF IncomingCommands
  <1> QED
    BY <1>4, <1>5 DEF EntryOf

\* A fragment that is copied into its packet's entry.
LEMMA CopiedEntry ==
    ASSUME PacketsInv, NEW d \in 0 .. Len(ends), NEW entry, EntryOf(entry, d),
           NEW c \in Content(entry.packet), c \in 1 .. attempted,
           NEW r, r = Copied(entry, c)
    PROVE  /\ EntryOf(r, d) /\ r.packet = entry.packet
           /\ entry.fragments \subseteq r.fragments /\ c \in r.fragments
  <1>1. CASE c \in entry.fragments
    <2>1. r = entry
      BY <1>1 DEF Copied
    <2> QED
      BY <1>1, <2>1
  <1>2. CASE c \notin entry.fragments
    <2> PICK p : p = entry.packet
      OBVIOUS
    <2> PICK f : f = entry.fragments
      OBVIOUS
    <2> PICK m : m = entry.fragmentsRemaining
      OBVIOUS
    <2>1. /\ entry \in IncomingCommands
          /\ p \in d + 1 .. Len(ends) /\ f # {} /\ f \subseteq Content(p)
          /\ f \subseteq 1 .. attempted
          /\ Cardinality(Content(p)) = m + Cardinality(f)
          /\ Span(First(p)) + 2 <= Span(End(d)) + FreeReliableWindows
      BY DEF EntryOf
    <2>2. /\ entry = [packet |-> p, fragments |-> f, fragmentsRemaining |-> m]
          /\ p \in Nat \ {0} /\ f \in SUBSET Commands /\ m \in Nat
      BY <2>1 DEF IncomingCommands
    <2>3. r = [packet |-> p, fragments |-> f \cup {c}, fragmentsRemaining |-> m - 1]
      BY <1>2, <2>2 DEF Copied
    <2>4. p \in DOMAIN ends
      BY <2>1, PacketsLater
    <2>5. /\ IsFiniteSet(Content(p)) /\ Cardinality(Content(p)) \in Nat
          /\ Content(p) \subseteq Commands
      BY <2>4, ContentOf
    <2>6. IsFiniteSet(f) /\ f \cup {c} \in SUBSET Content(p)
      <3>1. IsFiniteSet(f)
        BY <2>1, <2>5, FS_Subset
      <3> QED
        BY <3>1, <2>1
    <2>7. Cardinality(f) \in Nat /\ Cardinality(f \cup {c}) = Cardinality(f) + 1
      <3>1. Cardinality(f) \in Nat
        BY <2>6, FS_CardinalityType
      <3>2. Cardinality(f \cup {c}) = Cardinality(f) + 1
        BY <1>2, <2>6, FS_AddElement
      <3> QED
        BY <3>1, <3>2
    <2>8. Cardinality(f \cup {c}) <= Cardinality(Content(p))
      BY <2>5, <2>6, FS_Subset
    <2>9. /\ m - 1 \in Nat
          /\ Cardinality(Content(p)) = m - 1 + Cardinality(f \cup {c})
      BY <2>1, <2>2, <2>5, <2>7, <2>8
    <2>10. r \in IncomingCommands
      BY <2>2, <2>3, <2>5, <2>9 DEF IncomingCommands
    <2> QED
      BY <2>1, <2>3, <2>6, <2>9, <2>10 DEF EntryOf
  <1> QED
    BY <1>1, <1>2

-----------------------------------------------------------------------------
(***************************************************************************)
(* The steps.                                                              *)
(***************************************************************************)

\* What there is to show of a step: packets are added, and commands sent, but
\* none change; of the rest, what d packets have left in the list.
LEMMA ReceiverFrom ==
    ASSUME PacketsInv,
           Len(ends') \in Nat, Len(ends) <= Len(ends'),
           \A n \in 0 .. Len(ends) : End(n)' = End(n),
           \A n \in DOMAIN ends : First(n)' = First(n) /\ Content(n)' = Content(n),
           attempted \in Nat, attempted' \in Nat, attempted <= attempted',
           NEW d \in 0 .. Len(ends), d = Taken', End(d) <= attempted,
           received' \in Seq(SUBSET Commands),
           dispatched' \in Seq(SUBSET Commands),
           incoming' = Number(End(d)),
           \A i \in DOMAIN received' : i <= d /\ received'[i] = Content(i),
           NEW m, m = Len(received'),
           \A i \in DOMAIN dispatched' :
              m + i <= d /\ dispatched'[i] = Content(m + i),
           NEW list, list = commands', Listed(list, d), Waits(list, d),
           \A c \in acks' \cup ((1 .. attempted') \ outstanding') : Has(list, d, c)
    PROVE  ReceiverInv'
  <1>1. /\ Len(ends) \in Nat /\ DOMAIN ends = 1 .. Len(ends)
        /\ End(d) \in Nat
    BY EndsInOrder, PacketsLater
  <1>2. End(d)' = End(d)
    OBVIOUS
  <1>3. /\ Len(received') \in Nat /\ DOMAIN received' = 1 .. Len(received')
        /\ Len(dispatched') \in Nat /\ DOMAIN dispatched' = 1 .. Len(dispatched')
    BY LenProperties
  <1>4. \A i \in DOMAIN received' : received'[i] = Content(i)'
    <2> SUFFICES ASSUME NEW i \in DOMAIN received'
                 PROVE  received'[i] = Content(i)'
      OBVIOUS
    <2>1. i \in DOMAIN ends
      BY <1>1, <1>3
    <2> QED
      BY <2>1
  <1>5. \A i \in DOMAIN dispatched' : dispatched'[i] = Content(m + i)'
    <2> SUFFICES ASSUME NEW i \in DOMAIN dispatched'
                 PROVE  dispatched'[i] = Content(m + i)'
      OBVIOUS
    <2> PICK n : n = m + i
      OBVIOUS
    <2>1. n \in DOMAIN ends
      BY <1>1, <1>3
    <2>2. Content(n)' = Content(n)
      BY <2>1
    <2> QED
      BY <2>2
  <1>6. \A i \in DOMAIN list : EntryOf(list[i], d)'
    <2> SUFFICES ASSUME NEW i \in DOMAIN list PROVE EntryOf(list[i], d)'
      OBVIOUS
    <2>1. EntryOf(list[i], d)
      BY DEF Listed
    <2> PICK p : p = list[i].packet
      OBVIOUS
    <2>2. p \in d + 1 .. Len(ends)
      BY <2>1 DEF EntryOf
    <2>3. p \in DOMAIN ends /\ p \in d + 1 .. Len(ends')
      BY <1>1, <2>2
    <2>4. First(p)' = First(p) /\ Content(p)' = Content(p)
      BY <2>3
    <2>5. 1 .. attempted \subseteq 1 .. attempted'
      OBVIOUS
    <2> QED
      BY <1>2, <2>1, <2>3, <2>4, <2>5 DEF EntryOf, Span
  <1>7. Listed(list, d)'
    BY <1>6 DEF Listed
  <1>8. \A c \in acks' \cup ((1 .. attempted') \ outstanding') : Has(list, d, c)'
    BY <1>2 DEF Has
  <1>9. (Taken <= Len(ends))'
    BY <1>1
  <1>10. (End(Taken) <= attempted)'
    BY <1>1, <1>2
  <1> QED
    BY <1>2, <1>4, <1>5, <1>7, <1>8, <1>9, <1>10
       DEF ReceiverInv, Listed, EntryOf, Waits, Has, Span

\* A step that leaves the receiver alone, but for what was acknowledged.
LEMMA ReceiverStays ==
    ASSUME PacketsInv, ReceiverInv, UNCHANGED receiver,
           Len(ends') \in Nat, Len(ends) <= Len(ends'),
           \A n \in 0 .. Len(ends) : End(n)' = End(n),
           \A n \in DOMAIN ends : First(n)' = First(n) /\ Content(n)' = Content(n),
           attempted \in Nat, attempted' \in Nat, attempted <= attempted',
           \A c \in acks' \cup ((1 .. attempted') \ outstanding') :
              Has(commands, Taken, c)
    PROVE  ReceiverInv'
  <1> PICK d : d = Taken
    OBVIOUS
  <1> PICK m : m = Len(received)
    OBVIOUS
  <1> PICK list : list = commands
    OBVIOUS
  <1>1. /\ Len(received) \in Nat /\ DOMAIN received = 1 .. Len(received)
        /\ Len(dispatched) \in Nat /\ DOMAIN dispatched = 1 .. Len(dispatched)
        /\ Len(ends) \in Nat /\ d \in 0 .. Len(ends)
        /\ d = Len(received) + Len(dispatched)
    <2>1. /\ Len(received) \in Nat /\ DOMAIN received = 1 .. Len(received)
          /\ Len(dispatched) \in Nat /\ DOMAIN dispatched = 1 .. Len(dispatched)
      BY DEF ReceiverInv
    <2>2. Len(ends) \in Nat /\ d <= Len(ends)
      BY EndsInOrder DEF ReceiverInv
    <2> QED
      BY <2>1, <2>2 DEF Taken
  <1>2. /\ incoming' = incoming /\ commands' = commands
        /\ dispatched' = dispatched /\ received' = received
    BY DEF receiver
  <1>3. d = Taken'
    BY <1>1, <1>2 DEF Taken
  <1>4. /\ received \in Seq(SUBSET Commands) /\ dispatched \in Seq(SUBSET Commands)
        /\ End(d) <= attempted /\ incoming = Number(End(d))
        /\ \A i \in DOMAIN received : received[i] = Content(i)
        /\ \A i \in DOMAIN dispatched : dispatched[i] = Content(m + i)
        /\ Listed(list, d) /\ Waits(list, d)
    BY DEF ReceiverInv
  <1>5. \A i \in DOMAIN received' : i <= d /\ received'[i] = Content(i)
    BY <1>1, <1>2, <1>4
  <1>6. \A i \in DOMAIN dispatched' : m + i <= d /\ dispatched'[i] = Content(m + i)
    BY <1>1, <1>2, <1>4
  <1>7. /\ received' \in Seq(SUBSET Commands) /\ dispatched' \in Seq(SUBSET Commands)
        /\ incoming' = Number(End(d)) /\ m = Len(received') /\ list = commands'
    BY <1>2, <1>4
  <1>8. \A c \in acks' \cup ((1 .. attempted') \ outstanding') : Has(list, d, c)
    OBVIOUS
  <1> QED
    BY <1>1, <1>3, <1>4, <1>5, <1>6, <1>7, <1>8, ReceiverFrom

\* What is acknowledged or no longer outstanding the receiver has.
LEMMA HadBefore ==
    ASSUME ReceiverInv
    PROVE  \A c \in acks \cup ((1 .. attempted) \ outstanding) : Has(commands, Taken, c)
  BY DEF ReceiverInv

\* When no packet is added, and no command is sent, all of that stays.
LEMMA SameEnds ==
    ASSUME PacketsInv, SenderInv, UNCHANGED ends
    PROVE  /\ Len(ends') \in Nat /\ Len(ends) <= Len(ends')
           /\ \A n \in 0 .. Len(ends) : End(n)' = End(n)
           /\ \A n \in DOMAIN ends : First(n)' = First(n) /\ Content(n)' = Content(n)
           /\ attempted \in Nat
  BY SamePackets, EndsInOrder, OutstandingSpans

\* More packets to send are nothing to the receiver.
LEMMA SendKeepsReceiver ==
    ASSUME PacketsInv, SenderInv, ReceiverInv, Send
    PROVE  ReceiverInv'
  <1>1. /\ UNCHANGED <<attempted, outstanding, receiver, acks>>
    BY DEF Send
  <1>2. attempted \in Nat
    BY OutstandingSpans
  <1>3. /\ Len(ends) \in Nat
        /\ Len(ends') = Len(ends) + 1
        /\ \A n \in 0 .. Len(ends) : End(n)' = End(n)
        /\ \A n \in DOMAIN ends : First(n)' = First(n) /\ Content(n)' = Content(n)
    BY SendAppends, EndsInOrder
  <1>4. Len(ends') \in Nat /\ Len(ends) <= Len(ends')
    BY <1>3
  <1>5. \A c \in acks' \cup ((1 .. attempted') \ outstanding') : Has(commands, Taken, c)
    BY <1>1, HadBefore
  <1>6. attempted' \in Nat /\ attempted <= attempted' /\ UNCHANGED receiver
    BY <1>1, <1>2
  <1> QED
    BY <1>2, <1>3, <1>4, <1>5, <1>6, ReceiverStays

\* Nor is a command that leaves: it is outstanding.
LEMMA TransmitKeepsReceiver ==
    ASSUME PacketsInv, SenderInv, ReceiverInv, Transmit
    PROVE  ReceiverInv'
  <1>1. /\ attempted' = attempted + 1
        /\ outstanding' = outstanding \cup {attempted + 1}
        /\ acks' \subseteq acks
        /\ UNCHANGED <<ends, receiver>>
    BY DEF Transmit
  <1>2. attempted \in Nat /\ Len(ends') \in Nat /\ Len(ends) <= Len(ends')
    BY <1>1, SameEnds
  <1>3. attempted' \in Nat /\ attempted <= attempted' /\ UNCHANGED receiver
    BY <1>1, <1>2
  <1>4. (1 .. attempted') \ outstanding' \subseteq (1 .. attempted) \ outstanding
    BY <1>1, <1>2
  <1>5. \A c \in acks' \cup ((1 .. attempted') \ outstanding') : Has(commands, Taken, c)
    BY <1>1, <1>4, HadBefore
  <1>6. /\ \A n \in 0 .. Len(ends) : End(n)' = End(n)
        /\ \A n \in DOMAIN ends : First(n)' = First(n) /\ Content(n)' = Content(n)
    BY <1>1, SameEnds
  <1> QED
    BY <1>2, <1>3, <1>5, <1>6, ReceiverStays

\* An acknowledgement names no command but its own: others of that number are a
\* round of windows away.
LEMMA AcknowledgeKeepsReceiver ==
    ASSUME PacketsInv, SenderInv, ReceiverInv, NEW command \in Commands,
           ReceiveAcknowledge(command)
    PROVE  ReceiverInv'
  <1>1. PICK named \in outstanding : /\ Number(named) = Number(command)
                                     /\ RemoveSent(named)
    BY DEF ReceiveAcknowledge
  <1>2. /\ command \in acks /\ outstanding' = outstanding \ {named}
        /\ UNCHANGED <<ends, attempted, receiver, acks>>
    BY <1>1 DEF ReceiveAcknowledge, RemoveSent
  <1>3. /\ attempted \in Nat /\ Len(ends') \in Nat /\ Len(ends) <= Len(ends')
        /\ attempted' \in Nat /\ attempted <= attempted' /\ UNCHANGED receiver
    BY <1>2, SameEnds
  <1>4. named = command
    <2>1. /\ named \in Nat /\ Span(named) \in Nat /\ Span(attempted) \in Nat
          /\ Span(named) <= Span(attempted)
          /\ Span(attempted) + FreeReliableWindows <= Span(named) + ReliableWindows
      BY <1>1, OutstandingSpans
    <2>2. /\ command \in Nat /\ command <= attempted
          /\ Span(attempted) + FreeReliableWindows
                <= Span(command) + ReliableWindows + 1
      BY <1>2, <1>3 DEF SenderInv, AcksNear
    <2>3. Span(command) \in Nat
      BY <2>2, SpanMonotone
    <2>4. Span(command) <= Span(attempted)
      BY <2>2, <1>3, SpanMonotone
    <2>5. /\ Span(named) < Span(command) + ReliableWindows
          /\ Span(command) < Span(named) + ReliableWindows
      BY <2>1, <2>3, <2>4, <2>2, Constants
    <2> QED
      BY <2>1, <2>2, <2>5, <1>1, SameNumber
  <1>5. \A c \in acks' \cup ((1 .. attempted') \ outstanding') : Has(commands, Taken, c)
    BY <1>2, <1>4, HadBefore
  <1>6. /\ \A n \in 0 .. Len(ends) : End(n)' = End(n)
        /\ \A n \in DOMAIN ends : First(n)' = First(n) /\ Content(n)' = Content(n)
    BY <1>2, SameEnds
  <1> QED
    BY <1>3, <1>5, <1>6, ReceiverStays

\* The packets that are next leave the list: they are given to the application
\* after those before them.
LEMMA DispatchKeepsReceiver ==
    ASSUME PacketsInv, SenderInv, ReceiverInv,
           NEW list, Listed(list, Taken), Dispatch(list),
           \A c : Has(commands, Taken, c) => Has(list, Taken, c),
           NEW command, Has(list, Taken, command),
           acks' \subseteq acks \cup {command}, UNCHANGED <<sender, received>>
    PROVE  ReceiverInv'
  <1> PICK d : d = Taken
    OBVIOUS
  <1> PICK m : m = Len(received)
    OBVIOUS
  <1>1. /\ received \in Seq(SUBSET Commands) /\ dispatched \in Seq(SUBSET Commands)
        /\ End(d) <= attempted /\ incoming = Number(End(d))
        /\ \A i \in DOMAIN received : received[i] = Content(i)
        /\ \A i \in DOMAIN dispatched : dispatched[i] = Content(m + i)
    BY DEF ReceiverInv
  <1>2. /\ m \in Nat /\ DOMAIN received = 1 .. m
        /\ Len(dispatched) \in Nat /\ DOMAIN dispatched = 1 .. Len(dispatched)
        /\ Len(ends) \in Nat /\ DOMAIN ends = 1 .. Len(ends)
        /\ d = m + Len(dispatched)
    BY <1>1, EndsInOrder DEF Taken
  <1>3. d \in 0 .. Len(ends)
    BY <1>2 DEF ReceiverInv
  <1>4. Listed(list, d)
    OBVIOUS
  <1>5. PICK n \in 0 .. Len(list) :
           /\ d + n \in d .. Len(ends)
           /\ n # 0 => \E c \in list[n].fragments : c >= End(d + n)
           /\ incoming' = Number(End(d + n))
           /\ commands' = SubSeq(list, n + 1, Len(list))
           /\ dispatched' = dispatched \o [i \in 1 .. n |-> Content(d + i)]
           /\ Listed(commands', d + n) /\ Waits(commands', d + n)
           /\ \A c : Has(list, d, c) => Has(commands', d + n, c)
    BY <1>1, <1>3, <1>4, Dispatches
  <1> PICK e : e = d + n
    OBVIOUS
  <1> PICK rest : rest = commands'
    OBVIOUS
  <1> PICK more : more = [i \in 1 .. n |-> Content(d + i)]
    OBVIOUS
  <1>6. Len(list) \in Nat /\ DOMAIN list = 1 .. Len(list) /\ n \in Nat
    <2>1. Len(list) \in Nat /\ DOMAIN list = 1 .. Len(list)
      BY <1>3, <1>4, ListedEntries
    <2> QED
      BY <2>1
  <1>7. e \in 0 .. Len(ends) /\ e \in Nat /\ d <= e
    BY <1>2, <1>3, <1>5, <1>6
  <1>8. \A i \in 1 .. n : d + i \in DOMAIN ends /\ Content(d + i) \in SUBSET Commands
    <2> SUFFICES ASSUME NEW i \in 1 .. n
                 PROVE  d + i \in DOMAIN ends /\ Content(d + i) \in SUBSET Commands
      OBVIOUS
    <2>1. d + i \in DOMAIN ends
      BY <1>2, <1>3, <1>6, <1>7
    <2> QED
      BY <2>1, ContentOf
  <1>9. /\ more \in Seq(SUBSET Commands) /\ Len(more) = n
        /\ \A i \in 1 .. n : more[i] = Content(d + i)
    <2>1. more \in [1 .. n -> SUBSET Commands]
      BY <1>8
    <2> QED
      BY <2>1, <1>6
  <1>10. /\ dispatched' \in Seq(SUBSET Commands)
         /\ Len(dispatched') = Len(dispatched) + n
         /\ \A i \in 1 .. Len(dispatched) + n :
               dispatched'[i] = IF i <= Len(dispatched) THEN dispatched[i]
                                ELSE more[i - Len(dispatched)]
    <2>1. dispatched' = dispatched \o more
      BY <1>5
    <2>2. /\ dispatched \o more \in Seq(SUBSET Commands)
          /\ Len(dispatched \o more) = Len(dispatched) + Len(more)
          /\ \A i \in 1 .. Len(dispatched) + Len(more) :
                (dispatched \o more)[i] = IF i <= Len(dispatched) THEN dispatched[i]
                                          ELSE more[i - Len(dispatched)]
      BY <1>1, <1>9, ConcatProperties
    <2> QED
      BY <2>1, <2>2, <1>9
  <1>11. /\ received' = received /\ UNCHANGED <<ends, attempted, outstanding>>
         /\ m = Len(received')
    BY DEF sender
  <1>12. e = Taken'
    BY <1>2, <1>6, <1>10, <1>11 DEF Taken
  <1>13. /\ Len(ends') \in Nat /\ Len(ends) <= Len(ends')
         /\ \A k \in 0 .. Len(ends) : End(k)' = End(k)
         /\ \A k \in DOMAIN ends : First(k)' = First(k) /\ Content(k)' = Content(k)
         /\ attempted \in Nat /\ attempted' \in Nat /\ attempted <= attempted'
    BY <1>11, SameEnds
  <1>14. End(e) <= attempted
    <2>1. CASE n = 0
      BY <2>1, <1>1, <1>2, <1>3
    <2>2. CASE n # 0
      <3>1. PICK c \in list[n].fragments : c >= End(e)
        BY <2>2, <1>5
      <3>2. n \in DOMAIN list
        BY <2>2, <1>6
      <3>3. list[n].fragments \subseteq 1 .. attempted
        BY <3>2, <1>4 DEF Listed, EntryOf
      <3>4. End(e) \in Nat
        BY <1>7, PacketsLater
      <3> QED
        BY <3>1, <3>3, <3>4, <1>13
    <2> QED
      BY <2>1, <2>2
  <1>15. \A i \in DOMAIN received' : i <= e /\ received'[i] = Content(i)
    BY <1>1, <1>2, <1>7, <1>11
  <1>16. \A i \in DOMAIN dispatched' : m + i <= e /\ dispatched'[i] = Content(m + i)
    <2> SUFFICES ASSUME NEW i \in DOMAIN dispatched'
                 PROVE  m + i <= e /\ dispatched'[i] = Content(m + i)
      OBVIOUS
    <2>1. i \in 1 .. Len(dispatched) + n
      BY <1>10, LenProperties
    <2>2. m + i <= e
      BY <2>1, <1>2, <1>6
    <2>3. CASE i <= Len(dispatched)
      <3>1. i \in DOMAIN dispatched
        BY <2>1, <2>3, <1>2, <1>6
      <3> QED
        BY <2>1, <2>2, <2>3, <3>1, <1>1, <1>10
    <2>4. CASE i > Len(dispatched)
      <3>1. /\ i - Len(dispatched) \in 1 .. n
            /\ d + (i - Len(dispatched)) = m + i
        BY <2>1, <2>4, <1>2, <1>6
      <3>2. dispatched'[i] = more[i - Len(dispatched)]
        <4>1. ~(i <= Len(dispatched))
          BY <2>1, <2>4, <1>2
        <4> QED
          BY <2>1, <4>1, <1>10
      <3>3. more[i - Len(dispatched)] = Content(m + i)
        BY <3>1, <1>9
      <3> QED
        BY <2>2, <3>2, <3>3
    <2> QED
      BY <2>1, <2>3, <2>4, <1>2, <1>6
  <1>17. \A c \in acks' \cup ((1 .. attempted') \ outstanding') : Has(rest, e, c)
    <2> SUFFICES ASSUME NEW c \in acks' \cup ((1 .. attempted') \ outstanding')
                 PROVE  Has(rest, e, c)
      OBVIOUS
    <2>1. c = command \/ c \in acks \cup ((1 .. attempted) \ outstanding)
      BY <1>11
    <2>2. Has(list, d, c)
      BY <2>1, HadBefore
    <2> QED
      BY <2>2, <1>5
  <1>18. Listed(rest, e) /\ Waits(rest, e)
    BY <1>5
  <1>19. incoming' = Number(End(e))
    BY <1>5
  <1>20. received' \in Seq(SUBSET Commands)
    BY <1>1, <1>11
  <1> QED
    BY <1>7, <1>10, <1>11, <1>12, <1>13, <1>14, <1>15, <1>16, <1>17, <1>18, <1>19,
       <1>20, ReceiverFrom

\* What the application gets was the first of dispatchedCommands.
LEMMA ReceiveKeepsReceiver ==
    ASSUME PacketsInv, SenderInv, ReceiverInv, Receive
    PROVE  ReceiverInv'
  <1> PICK d : d = Taken
    OBVIOUS
  <1> PICK m : m = Len(received)
    OBVIOUS
  <1> PICK list : list = commands
    OBVIOUS
  <1>1. /\ received \in Seq(SUBSET Commands) /\ dispatched \in Seq(SUBSET Commands)
        /\ End(d) <= attempted /\ incoming = Number(End(d))
        /\ \A i \in DOMAIN received : received[i] = Content(i)
        /\ \A i \in DOMAIN dispatched : dispatched[i] = Content(m + i)
        /\ Listed(list, d) /\ Waits(list, d)
    BY DEF ReceiverInv
  <1>2. /\ m \in Nat /\ DOMAIN received = 1 .. m
        /\ Len(dispatched) \in Nat /\ DOMAIN dispatched = 1 .. Len(dispatched)
        /\ Len(ends) \in Nat /\ DOMAIN ends = 1 .. Len(ends)
        /\ d = m + Len(dispatched)
    BY <1>1, EndsInOrder DEF Taken
  <1>3. d \in 0 .. Len(ends)
    BY <1>2 DEF ReceiverInv
  <1>4. /\ dispatched # <<>>
        /\ received' = Append(received, Head(dispatched))
        /\ dispatched' = Tail(dispatched)
        /\ UNCHANGED <<sender, incoming, commands, acks>>
    BY DEF Receive
  <1>5. UNCHANGED <<ends, attempted, outstanding, acks, incoming, commands>>
    BY <1>4 DEF sender
  <1>6. /\ Len(dispatched) >= 1 /\ Head(dispatched) = dispatched[1]
        /\ Head(dispatched) \in SUBSET Commands
        /\ dispatched' \in Seq(SUBSET Commands)
        /\ Len(dispatched') = Len(dispatched) - 1
        /\ \A i \in 1 .. Len(dispatched) - 1 : dispatched'[i] = dispatched[i + 1]
    BY <1>1, <1>2, <1>4, HeadTailProperties
  <1>7. /\ received' \in Seq(SUBSET Commands) /\ Len(received') = m + 1
        /\ \A i \in 1 .. m : received'[i] = received[i]
        /\ received'[m + 1] = dispatched[1]
    BY <1>1, <1>2, <1>4, <1>6, AppendProperties
  <1>8. d = Taken'
    BY <1>2, <1>6, <1>7 DEF Taken
  <1>9. \A i \in DOMAIN received' : i <= d /\ received'[i] = Content(i)
    <2> SUFFICES ASSUME NEW i \in DOMAIN received'
                 PROVE  i <= d /\ received'[i] = Content(i)
      OBVIOUS
    <2>1. i \in 1 .. m \/ i = m + 1
      BY <1>2, <1>7, LenProperties
    <2>2. CASE i \in 1 .. m
      BY <2>2, <1>1, <1>2, <1>7
    <2>3. CASE i = m + 1
      <3>1. dispatched[1] = Content(m + 1)
        <4>1. 1 \in DOMAIN dispatched
          BY <1>2, <1>6
        <4> QED
          BY <4>1, <1>1
      <3> QED
        BY <2>3, <3>1, <1>2, <1>6, <1>7
    <2> QED
      BY <2>1, <2>2, <2>3
  <1>10. \A i \in DOMAIN dispatched' :
            (m + 1) + i <= d /\ dispatched'[i] = Content((m + 1) + i)
    <2> SUFFICES ASSUME NEW i \in DOMAIN dispatched'
                 PROVE  (m + 1) + i <= d /\ dispatched'[i] = Content((m + 1) + i)
      OBVIOUS
    <2>1. i \in 1 .. Len(dispatched) - 1
      BY <1>6, LenProperties
    <2>2. i + 1 \in DOMAIN dispatched /\ m + (i + 1) = (m + 1) + i /\ (m + 1) + i <= d
      BY <2>1, <1>2
    <2>3. dispatched'[i] = dispatched[i + 1]
      BY <2>1, <1>6
    <2>4. dispatched[i + 1] = Content(m + (i + 1))
      BY <2>2, <1>1
    <2> QED
      BY <2>2, <2>3, <2>4
  <1>11. /\ Len(ends') \in Nat /\ Len(ends) <= Len(ends')
         /\ \A k \in 0 .. Len(ends) : End(k)' = End(k)
         /\ \A k \in DOMAIN ends : First(k)' = First(k) /\ Content(k)' = Content(k)
         /\ attempted \in Nat /\ attempted' \in Nat /\ attempted <= attempted'
    BY <1>5, SameEnds
  <1>12. \A c \in acks' \cup ((1 .. attempted') \ outstanding') : Has(list, d, c)
    BY <1>5, HadBefore
  <1>13. incoming' = Number(End(d)) /\ list = commands'
    BY <1>1, <1>5
  <1> PICK k : k = m + 1
    OBVIOUS
  <1>14. /\ k = Len(received')
         /\ \A i \in DOMAIN dispatched' : k + i <= d /\ dispatched'[i] = Content(k + i)
    BY <1>7, <1>10
  <1> QED
    BY <1>1, <1>3, <1>6, <1>7, <1>8, <1>9, <1>11, <1>12, <1>13, <1>14, ReceiverFrom

\* Where the packet of a copy that arrives is, as the receiver sees it.
LEMMA ArrivingPlace ==
    ASSUME PacketsInv, SenderInv, ReceiverInv, NEW c \in Arriving,
           NEW p, p = PacketOf(c), NEW d, d = Taken
    PROVE  /\ c \in 1 .. attempted /\ p \in DOMAIN ends /\ c \in Content(p)
           /\ p \notin d + 1 .. Len(ends) =>
                 /\ Has(commands, d, c)
                 /\ IsFragment(c) \/ Number(First(p)) # incoming
                       => ~InWindow(Number(First(p)))
           /\ p \in d + 1 .. Len(ends) =>
                 /\ Span(First(p)) < Span(End(d)) + ReliableWindows
                 /\ InWindow(Number(First(p)))
                       => Span(First(p)) + 2 <= Span(End(d)) + FreeReliableWindows
                 /\ ~InWindow(Number(First(p))) => ~Acknowledgeable(Number(c), incoming)
           /\ ~IsFragment(c) => Content(p) = {c} /\ First(p) = c
  <1> PICK f : f = First(p)
    OBVIOUS
  <1> PICK e : e = End(d)
    OBVIOUS
  <1>1. /\ c \in 1 .. attempted
        /\ Span(attempted) + FreeReliableWindows <= Span(f) + ReliableWindows + 1
    BY ArrivingNear
  <1>2. /\ d \in 0 .. Len(ends) /\ e \in Nat /\ e <= attempted
        /\ Span(e) \in Nat /\ Span(attempted) \in Nat /\ Span(e) <= Span(attempted)
        /\ Span(attempted) <= Span(e) + FreeReliableWindows
    BY ReceiverNear
  <1>3. attempted \in Nat /\ c \in 1 .. queued /\ incoming = Number(e)
    <2>1. attempted \in 0 .. queued /\ queued \in Nat
      BY EndsInOrder DEF SenderInv
    <2> QED
      BY <2>1, <1>1 DEF ReceiverInv
  <1>4. p \in DOMAIN ends /\ c \in Content(p)
    BY <1>3, PacketOfContent
  <1>5. /\ f \in Nat /\ End(p) \in Nat /\ f <= End(p) /\ End(p) \in Content(p)
        /\ Cardinality(Content(p)) \in Nat \ {0}
        /\ Cardinality(Content(p)) = 1 => Content(p) = {f}
        /\ c \in Nat /\ f <= c /\ c <= End(p)
        /\ Span(f) <= Span(c)
    BY <1>4, ContentOf
  <1>6. Span(f) \in Nat /\ Span(c) \in Nat
    BY <1>5, SpanMonotone
  <1>7. Span(c) <= Span(attempted)
    BY <1>1, <1>3, <1>5, SpanMonotone
  <1>8. /\ Span(e) < Span(f) + ReliableWindows
        /\ Span(f) < Span(e) + ReliableWindows
        /\ Span(c) < Span(e) + ReliableWindows
    BY SMTT(30), <1>1, <1>2, <1>5, <1>6, <1>7, Constants
  <1>9. ~IsFragment(c) => Content(p) = {c} /\ f = c
    <2> SUFFICES ASSUME ~IsFragment(c) PROVE Content(p) = {c} /\ f = c
      OBVIOUS
    <2>1. Cardinality(Content(p)) = 1
      BY <1>5 DEF IsFragment
    <2> QED
      BY <2>1, <1>4, <1>5
  <1>10. ASSUME p \notin d + 1 .. Len(ends)
         PROVE  /\ Has(commands, d, c)
                /\ IsFragment(c) \/ Number(f) # incoming => ~InWindow(Number(f))
    <2>1. p \in 1 .. d
      BY <1>2, <1>4, <1>10, EndsInOrder
    <2>2. End(p) <= e
      BY <2>1, <1>2, PacketsLater
    <2>3. c \in 1 .. e
      BY <2>2, <1>1, <1>2, <1>3, <1>5
    <2>4. f <= e
      BY <2>2, <1>2, <1>5
    <2>5. ASSUME IsFragment(c) \/ Number(f) # incoming
          PROVE  f < e
      <3> SUFFICES ASSUME f = e PROVE FALSE
        BY <2>4, <1>2, <1>5
      <3>1. End(p) = f
        BY <2>2, <1>2, <1>5
      <3>2. Number(f) = incoming
        BY <1>3
      <3>3. \A x \in Content(p) : x = f
        <4>1. \A x \in Content(p) : x \in Nat /\ f <= x /\ x <= End(p)
          BY <1>4, ContentOf
        <4> QED
          BY <3>1, <4>1, <1>5
      <3>4. Content(p) = {f}
        BY <3>3, <1>4
      <3>5. Cardinality({f}) = 1
        BY FS_Singleton
      <3>6. ~IsFragment(c)
        BY <3>4, <3>5 DEF IsFragment
      <3> QED
        BY <2>5, <3>2, <3>6
    <2>6. ASSUME f < e
          PROVE  ~InWindow(Number(f))
      <3>1. Ahead(Number(f), Number(e)) = Span(f) + ReliableWindows - Span(e)
        BY <2>6, <1>2, <1>5, <1>8, AheadOf
      <3>2. ~(Span(f) + ReliableWindows - Span(e) < FreeReliableWindows - 1)
        BY <1>1, <1>2, <1>6, Constants
      <3> QED
        BY <3>1, <3>2, <1>3 DEF InWindow
    <2> QED
      BY <2>3, <2>5, <2>6 DEF Has
  <1>11. ASSUME p \in d + 1 .. Len(ends)
         PROVE  /\ InWindow(Number(f)) => Span(f) + 2 <= Span(e) + FreeReliableWindows
                /\ ~InWindow(Number(f)) => ~Acknowledgeable(Number(c), incoming)
    <2>1. e < f
      BY <1>2, <1>11, PacketsLater
    <2>2. Ahead(Number(f), Number(e)) = Span(f) - Span(e)
      BY <2>1, <1>2, <1>5, <1>8, AheadOf
    <2>3. Ahead(Number(c), Number(e)) = Span(c) - Span(e)
      <3>1. e <= c
        BY <2>1, <1>2, <1>5
      <3> QED
        BY <3>1, <1>2, <1>5, <1>8, AheadOf
    <2>4. InWindow(Number(f)) <=> Span(f) - Span(e) < FreeReliableWindows - 1
      BY <2>2, <1>3 DEF InWindow
    <2>5. InWindow(Number(f)) => Span(f) + 2 <= Span(e) + FreeReliableWindows
      BY <2>4, <1>2, <1>6, Constants
    <2>6. ASSUME ~InWindow(Number(f))
          PROVE  ~Acknowledgeable(Number(c), incoming)
      <3>1. Span(c) - Span(e) \in {FreeReliableWindows - 1, FreeReliableWindows}
        BY SMTT(30), <2>4, <2>6, <1>2, <1>5, <1>6, <1>7, Constants
      <3> QED
        BY <2>3, <3>1, <1>3 DEF Acknowledgeable
    <2> QED
      BY <2>5, <2>6
  <1> QED
    BY <1>1, <1>4, <1>8, <1>9, <1>10, <1>11

\* A command that arrives and changes nothing is one the receiver has, or it is
\* not acknowledged.
LEMMA IgnoredKeepsReceiver ==
    ASSUME PacketsInv, SenderInv, ReceiverInv, UNCHANGED receiver,
           UNCHANGED <<sender, late>>, NEW c, Acknowledge(c),
           Has(commands, Taken, c) \/ ~Acknowledgeable(Number(c), incoming)
    PROVE  ReceiverInv'
  <1>1. /\ incoming' = incoming
        /\ UNCHANGED <<ends, attempted, outstanding>>
    BY DEF receiver, sender
  <1>2. acks' = acks \/ (acks' = acks \cup {c} /\ Has(commands, Taken, c))
    BY <1>1 DEF Acknowledge
  <1>3. \A x \in acks' \cup ((1 .. attempted') \ outstanding') : Has(commands, Taken, x)
    BY <1>1, <1>2, HadBefore
  <1>4. /\ Len(ends') \in Nat /\ Len(ends) <= Len(ends')
        /\ \A n \in 0 .. Len(ends) : End(n)' = End(n)
        /\ \A n \in DOMAIN ends : First(n)' = First(n) /\ Content(n)' = Content(n)
        /\ attempted \in Nat /\ attempted' \in Nat /\ attempted <= attempted'
    BY <1>1, SameEnds
  <1> QED
    BY <1>3, <1>4, ReceiverStays

\* A packet in one command.
LEMMA ReliableKeepsReceiver ==
    ASSUME PacketsInv, SenderInv, ReceiverInv, NEW c \in Arriving, ~IsFragment(c),
           HandleReliable(c), Acknowledge(c), UNCHANGED <<sender, late>>
    PROVE  ReceiverInv'
  <1> PICK p : p = PacketOf(c)
    OBVIOUS
  <1> PICK d : d = Taken
    OBVIOUS
  <1>1. /\ c \in 1 .. attempted /\ p \in DOMAIN ends
        /\ Content(p) = {c} /\ First(p) = c
    BY ArrivingPlace
  <1>2. d \in 0 .. Len(ends) /\ incoming = Number(End(d)) /\ Listed(commands, d)
    BY ReceiverNear DEF ReceiverInv
  <1>3. CASE p \notin d + 1 .. Len(ends)
    <2>1. /\ Has(commands, d, c)
          /\ Number(c) # incoming => ~InWindow(Number(c))
      BY <1>1, <1>3, ArrivingPlace
    <2>2. Number(c) = incoming => Duplicate(Number(c))
      BY DEF Duplicate
    <2>3. UNCHANGED receiver
      BY <2>1, <2>2 DEF HandleReliable
    <2> QED
      BY <2>1, <2>3, IgnoredKeepsReceiver
  <1>4. CASE p \in d + 1 .. Len(ends)
    <2>1. /\ Span(First(p)) < Span(End(d)) + ReliableWindows
          /\ InWindow(Number(c))
                => Span(First(p)) + 2 <= Span(End(d)) + FreeReliableWindows
          /\ ~InWindow(Number(c)) => ~Acknowledgeable(Number(c), incoming)
      BY <1>1, <1>4, ArrivingPlace
    <2> PICK k : k = Position(Number(First(p)))
      OBVIOUS
    <2>2. /\ k \in 0 .. Len(commands)
          /\ k # 0 => commands[k].packet <= p
          /\ \A i \in k + 1 .. Len(commands) : commands[i].packet > p
          /\ IsQueued(Number(First(p))) <=> k # 0 /\ commands[k].packet = p
          /\ Duplicate(Number(First(p))) <=> IsQueued(Number(First(p)))
      BY <1>2, <1>4, <2>1, PositionOf
    <2>3. CASE ~InWindow(Number(c))
      <3>1. UNCHANGED receiver
        BY <2>3 DEF HandleReliable
      <3> QED
        BY <2>1, <2>3, <3>1, IgnoredKeepsReceiver
    <2>4. CASE Duplicate(Number(c))
      <3>1. UNCHANGED receiver
        BY <2>4 DEF HandleReliable
      <3>2. k # 0 /\ commands[k].packet = p
        BY <2>2, <2>4, <1>1
      <3>3. k \in DOMAIN commands
        BY <2>2, <3>2, <1>2, ListedEntries
      <3>4. /\ commands[k].fragments # {}
            /\ commands[k].fragments \subseteq Content(p)
        BY <3>2, <3>3, <1>2 DEF Listed, EntryOf
      <3>5. c \in commands[k].fragments
        BY <3>4, <1>1
      <3>6. Has(commands, d, c)
        BY <3>3, <3>5 DEF Has
      <3> QED
        BY <3>1, <3>6, IgnoredKeepsReceiver
    <2>5. CASE InWindow(Number(c)) /\ ~Duplicate(Number(c))
      <3> PICK entry : entry = [packet |-> p, fragments |-> {c},
                                fragmentsRemaining |-> 0]
        OBVIOUS
      <3> PICK r : r = InsertAt(commands, k + 1, entry)
        OBVIOUS
      <3>1. Dispatch(r) /\ UNCHANGED received
        BY <2>5, <1>1 DEF HandleReliable
      <3>2. Cardinality(Content(p)) - 1 = 0
        <4>1. Cardinality({c}) = 1
          BY FS_Singleton
        <4> QED
          BY <4>1, <1>1
      <3>3. EntryOf(entry, d)
        <4>1. entry = [packet |-> p, fragments |-> {c},
                       fragmentsRemaining |-> Cardinality(Content(p)) - 1]
          BY <3>2
        <4> QED
          BY <4>1, <2>1, <2>5, <1>1, <1>2, <1>4, NewEntry
      <3>4. entry.packet = p /\ c \in entry.fragments
        OBVIOUS
      <3>5. k # 0 => commands[k].packet < p
        <4> SUFFICES ASSUME k # 0 PROVE commands[k].packet < p
          OBVIOUS
        <4>1. k \in DOMAIN commands
          BY <2>2, <1>2, ListedEntries
        <4>2. commands[k].packet \in Nat
          BY <4>1, <1>2, ListedEntries
        <4>3. p \in Nat
          BY <1>1, EndsInOrder
        <4>4. commands[k].packet # p /\ commands[k].packet <= p
          BY <2>2, <2>5, <1>1
        <4> QED
          BY <4>2, <4>3, <4>4
      <3>6. /\ Listed(r, d)
            /\ \A x : Has(commands, d, x) => Has(r, d, x)
            /\ Has(r, d, c)
        <4>1. /\ k # 0 => commands[k].packet < entry.packet
              /\ \A i \in k + 1 .. Len(commands) : commands[i].packet > entry.packet
          BY <2>2, <3>4, <3>5
        <4>2. k \in 0 .. Len(commands)
          BY <2>2
        <4>3. r = InsertAt(commands, k + 1, entry)
          OBVIOUS
        <4>4. /\ Listed(r, d)
              /\ \A x : Has(commands, d, x) => Has(r, d, x)
              /\ \A x \in entry.fragments : Has(r, d, x)
          BY ONLY PacketsInv, <1>2, <3>3, <4>1, <4>2, <4>3, Inserted
        <4> QED
          BY <3>4, <4>4
      <3>7. acks' \subseteq acks \cup {c}
        BY DEF Acknowledge
      <3>8. UNCHANGED <<sender, received>>
        BY <3>1
      <3> QED
        BY <3>1, <3>6, <3>7, <3>8, DispatchKeepsReceiver
    <2> QED
      BY <2>3, <2>4, <2>5
  <1> QED
    BY <1>3, <1>4

\* A fragment: it is copied into its packet's entry, or makes one.
LEMMA FragmentKeepsReceiver ==
    ASSUME PacketsInv, SenderInv, ReceiverInv, NEW c \in Arriving, IsFragment(c),
           HandleFragment(c), Acknowledge(c), UNCHANGED <<sender, late>>
    PROVE  ReceiverInv'
  <1> PICK p : p = PacketOf(c)
    OBVIOUS
  <1> PICK d : d = Taken
    OBVIOUS
  <1> PICK k : k = Position(Number(First(p)))
    OBVIOUS
  <1> PICK new : new = [packet |-> p, fragments |-> {},
                        fragmentsRemaining |-> Cardinality(Content(p))]
    OBVIOUS
  <1>1. c \in 1 .. attempted /\ p \in DOMAIN ends /\ c \in Content(p)
    BY ArrivingPlace
  <1>2. d \in 0 .. Len(ends) /\ incoming = Number(End(d)) /\ Listed(commands, d)
    BY ReceiverNear DEF ReceiverInv
  <1>3. \/ /\ ~InWindow(Number(First(p)))
           /\ UNCHANGED receiver
        \/ /\ InWindow(Number(First(p)))
           /\ IsQueued(Number(First(p)))
           /\ Dispatch([commands EXCEPT ![k] = Copied(@, c)])
           /\ UNCHANGED received
        \/ /\ InWindow(Number(First(p)))
           /\ ~Duplicate(Number(First(p)))
           /\ Dispatch(InsertAt(commands, k + 1, Copied(new, c)))
           /\ UNCHANGED received
    BY DEF HandleFragment
  <1>4. acks' \subseteq acks \cup {c}
    BY DEF Acknowledge
  <1>5. CASE p \notin d + 1 .. Len(ends)
    <2>1. Has(commands, d, c) /\ ~InWindow(Number(First(p)))
      BY <1>5, ArrivingPlace
    <2>2. UNCHANGED receiver
      BY <2>1, <1>3
    <2> QED
      BY <2>1, <2>2, IgnoredKeepsReceiver
  <1>6. CASE p \in d + 1 .. Len(ends)
    <2>1. /\ Span(First(p)) < Span(End(d)) + ReliableWindows
          /\ InWindow(Number(First(p)))
                => Span(First(p)) + 2 <= Span(End(d)) + FreeReliableWindows
          /\ ~InWindow(Number(First(p))) => ~Acknowledgeable(Number(c), incoming)
      BY <1>6, ArrivingPlace
    <2>2. /\ k \in 0 .. Len(commands)
          /\ k # 0 => commands[k].packet <= p
          /\ \A i \in k + 1 .. Len(commands) : commands[i].packet > p
          /\ IsQueued(Number(First(p))) <=> k # 0 /\ commands[k].packet = p
          /\ Duplicate(Number(First(p))) <=> IsQueued(Number(First(p)))
      BY <1>2, <1>6, <2>1, PositionOf
    <2>3. CASE ~InWindow(Number(First(p)))
      <3>1. UNCHANGED receiver
        BY <2>3, <1>3
      <3> QED
        BY <2>1, <2>3, <3>1, IgnoredKeepsReceiver
    <2>4. CASE InWindow(Number(First(p))) /\ IsQueued(Number(First(p)))
      <3> PICK r : r = [commands EXCEPT ![k] = Copied(@, c)]
        OBVIOUS
      <3>1. Dispatch(r) /\ UNCHANGED received
        BY <2>2, <2>4, <1>3
      <3>2. k \in DOMAIN commands /\ commands[k].packet = p
        <4>1. k # 0 /\ commands[k].packet = p
          BY <2>2, <2>4
        <4> QED
          BY <4>1, <2>2, <1>2, ListedEntries
      <3>3. EntryOf(commands[k], d)
        BY <3>2, <1>2 DEF Listed
      <3> PICK entry : entry = Copied(commands[k], c)
        OBVIOUS
      <3>4. /\ EntryOf(entry, d) /\ entry.packet = commands[k].packet
            /\ commands[k].fragments \subseteq entry.fragments /\ c \in entry.fragments
        BY <3>2, <3>3, <1>1, <1>2, CopiedEntry
      <3>5. r = [commands EXCEPT ![k] = entry]
        OBVIOUS
      <3>6. /\ Listed(r, d)
            /\ \A x : Has(commands, d, x) => Has(r, d, x)
            /\ Has(r, d, c)
        BY ZenonT(40), <1>2, <3>2, <3>4, <3>5, Replaced
      <3>7. UNCHANGED <<sender, received>>
        BY <3>1
      <3> QED
        BY <1>4, <3>1, <3>6, <3>7, DispatchKeepsReceiver
    <2>5. CASE InWindow(Number(First(p))) /\ ~IsQueued(Number(First(p)))
      <3> PICK entry : entry = Copied(new, c)
        OBVIOUS
      <3> PICK r : r = InsertAt(commands, k + 1, entry)
        OBVIOUS
      <3>1. Dispatch(r) /\ UNCHANGED received
        BY <2>2, <2>5, <1>3
      <3>2. entry = [packet |-> p, fragments |-> {c},
                     fragmentsRemaining |-> Cardinality(Content(p)) - 1]
        BY DEF Copied
      <3>3. EntryOf(entry, d)
        BY <2>1, <2>5, <3>2, <1>1, <1>2, <1>6, NewEntry
      <3>4. entry.packet = p /\ c \in entry.fragments
        BY <3>2
      <3>5. k # 0 => commands[k].packet < p
        <4> SUFFICES ASSUME k # 0 PROVE commands[k].packet < p
          OBVIOUS
        <4>1. k \in DOMAIN commands
          BY <2>2, <1>2, ListedEntries
        <4>2. commands[k].packet \in Nat
          BY <4>1, <1>2, ListedEntries
        <4>3. p \in Nat
          BY <1>1, EndsInOrder
        <4>4. commands[k].packet # p /\ commands[k].packet <= p
          BY <2>2, <2>5
        <4> QED
          BY <4>2, <4>3, <4>4
      <3>6. /\ Listed(r, d)
            /\ \A x : Has(commands, d, x) => Has(r, d, x)
            /\ Has(r, d, c)
        <4>1. /\ k # 0 => commands[k].packet < entry.packet
              /\ \A i \in k + 1 .. Len(commands) : commands[i].packet > entry.packet
          BY <2>2, <3>4, <3>5
        <4>2. k \in 0 .. Len(commands)
          BY <2>2
        <4>3. r = InsertAt(commands, k + 1, entry)
          OBVIOUS
        <4>4. /\ Listed(r, d)
              /\ \A x : Has(commands, d, x) => Has(r, d, x)
              /\ \A x \in entry.fragments : Has(r, d, x)
          BY ONLY PacketsInv, <1>2, <3>3, <4>1, <4>2, <4>3, Inserted
        <4> QED
          BY <3>4, <4>4
      <3>7. UNCHANGED <<sender, received>>
        BY <3>1
      <3> QED
        BY <1>4, <3>1, <3>6, <3>7, DispatchKeepsReceiver
    <2> QED
      BY <2>3, <2>4, <2>5
  <1> QED
    BY <1>5, <1>6

-----------------------------------------------------------------------------
(***************************************************************************)
(* Invariance.                                                             *)
(***************************************************************************)

\* At first the receiver has nothing and the list is empty.
LEMMA ReceiverInitially ==
    ASSUME Init
    PROVE  ReceiverInv
  <1>1. /\ ends = <<>> /\ attempted = 0 /\ incoming = 0 /\ outstanding = {}
        /\ commands = <<>> /\ dispatched = <<>> /\ received = <<>> /\ acks = {}
    BY DEF Init
  <1>2. Taken = 0 /\ Len(ends) = 0
    BY <1>1 DEF Taken
  <1>3. End(Taken) = 0
    BY <1>2 DEF End
  <1>4. Number(0) = 0
    <2>1. ReliableWindows * ReliableWindowSize \in Nat \ {0}
      BY Constants
    <2> HIDE DEF Number
    <2>2. 0 % (ReliableWindows * ReliableWindowSize) = 0
      <3> PICK n \in Nat \ {0} : n = ReliableWindows * ReliableWindowSize
        BY <2>1
      <3>1. 0 % n = 0
        OBVIOUS
      <3> QED
        BY <3>1
    <2> QED
      BY <2>2 DEF Number
  <1>5. Listed(commands, Taken) /\ Waits(commands, Taken)
    BY <1>1 DEF Listed, Waits
  <1>6. acks \cup ((1 .. attempted) \ outstanding) = {}
    BY <1>1
  <1>7. /\ received \in Seq(SUBSET Commands) /\ dispatched \in Seq(SUBSET Commands)
        /\ DOMAIN received = {} /\ DOMAIN dispatched = {}
    BY <1>1
  <1> QED
    BY <1>1, <1>2, <1>3, <1>4, <1>5, <1>6, <1>7 DEF ReceiverInv

\* Every step keeps what the receiver owes to the sender.
LEMMA ReceiverInductive ==
    ASSUME PacketsInv, SenderInv, ReceiverInv, [Next]_vars
    PROVE  ReceiverInv'
  <1>1. CASE Send
    BY <1>1, SendKeepsReceiver
  <1>2. CASE Transmit
    BY <1>2, TransmitKeepsReceiver
  <1>3. CASE Receive
    BY <1>3, ReceiveKeepsReceiver
  <1>4. ASSUME NEW command \in Commands, ReceiveAcknowledge(command)
        PROVE  ReceiverInv'
    BY <1>4, AcknowledgeKeepsReceiver
  <1>5. ASSUME NEW command \in Commands, ReceiveCommand(command)
        PROVE  ReceiverInv'
    <2>1. /\ command \in Arriving /\ Acknowledge(command)
          /\ UNCHANGED <<sender, late>>
          /\ IF IsFragment(command) THEN HandleFragment(command)
                                    ELSE HandleReliable(command)
      BY <1>5 DEF ReceiveCommand
    <2>2. CASE IsFragment(command)
      BY <2>1, <2>2, FragmentKeepsReceiver
    <2>3. CASE ~IsFragment(command)
      BY <2>1, <2>3, ReliableKeepsReceiver
    <2> QED
      BY <2>2, <2>3
  <1>6. CASE UNCHANGED vars
    <2>1. UNCHANGED receiver /\ UNCHANGED <<ends, attempted, outstanding, acks>>
      BY <1>6 DEF vars, sender
    <2>2. \A x \in acks' \cup ((1 .. attempted') \ outstanding') : Has(commands, Taken, x)
      BY <2>1, HadBefore
    <2>3. /\ Len(ends') \in Nat /\ Len(ends) <= Len(ends')
          /\ \A n \in 0 .. Len(ends) : End(n)' = End(n)
          /\ \A n \in DOMAIN ends : First(n)' = First(n) /\ Content(n)' = Content(n)
          /\ attempted \in Nat /\ attempted' \in Nat /\ attempted <= attempted'
      BY <2>1, SameEnds
    <2> QED
      BY <2>1, <2>2, <2>3, ReceiverStays
  <1> QED
    BY <1>1, <1>2, <1>3, <1>4, <1>5, <1>6 DEF Next

\* The inductive invariant: whatever the sizes of the windows and however the
\* network loses, repeats and reorders, if no packet is longer than a window.
THEOREM Invariance ==
    ASSUME ShortPackets
    PROVE  Spec => []IInv
  <1>1. Init => IInv
    BY SenderInitially, ReceiverInitially DEF IInv
  <1>2. IInv /\ [Next]_vars => IInv'
    BY SenderInductive, ReceiverInductive DEF IInv
  <1> QED
    BY <1>1, <1>2, PTL DEF Spec

-----------------------------------------------------------------------------
(***************************************************************************)
(* What follows.                                                           *)
(***************************************************************************)

\* Every variable has its type: no window counts more commands than it has, and
\* what is in the lists are commands.
THEOREM TypeCorrect ==
    ASSUME ShortPackets
    PROVE  Spec => []TypeOK
  <1>1. ASSUME IInv PROVE TypeOK
    <2>1. PacketsInv /\ SenderInv /\ ReceiverInv
      BY <1>1 DEF IInv
    <2>2. /\ lengths \in Workloads /\ ends \in Seq(Commands)
      BY <2>1 DEF PacketsInv
    <2>3. /\ attempted \in 0 .. queued /\ outstanding \in SUBSET (1 .. attempted)
          /\ usedReliableWindows \in SUBSET Windows
          /\ late \in [Commands -> 0 .. attempted] /\ acks \in SUBSET (1 .. attempted)
          /\ reliableWindows \in [Windows -> Nat]
      BY <2>1 DEF SenderInv
    <2>4. \A w \in Windows : reliableWindows[w] \in 0 .. ReliableWindowSize
      <3> SUFFICES ASSUME NEW w \in Windows
                   PROVE  reliableWindows[w] \in 0 .. ReliableWindowSize
        OBVIOUS
      <3>1. /\ Cardinality(InWindowOf(w)) \in Nat
            /\ Cardinality(InWindowOf(w)) <= ReliableWindowSize
            /\ reliableWindows[w] = Cardinality(InWindowOf(w))
        BY <2>1, WindowBound
      <3> QED
        BY <3>1, Constants
    <2>5. reliableWindows \in [Windows -> 0 .. ReliableWindowSize]
      BY <2>3, <2>4
    <2>6. incoming \in Numbers
      <3>1. End(Taken) \in Nat /\ incoming = Number(End(Taken))
        BY <2>1, ReceiverNear DEF ReceiverInv
      <3> QED
        BY <3>1, NumberOf
    <2>7. /\ received \in Seq(SUBSET Commands) /\ dispatched \in Seq(SUBSET Commands)
          /\ commands \in Seq(IncomingCommands)
      BY <2>1 DEF ReceiverInv, Listed
    <2> QED
      BY <2>2, <2>3, <2>5, <2>6, <2>7 DEF TypeOK
  <1> QED
    BY <1>1, Invariance, PTL

\* The windows count what is outstanding of them, though an acknowledgement only
\* names a number, and comes late, twice or not at all.
THEOREM WindowsAreCounted ==
    ASSUME ShortPackets
    PROVE  Spec => []WindowsCounted
  <1>1. IInv => WindowsCounted
    BY DEF IInv, SenderInv
  <1> QED
    BY <1>1, Invariance, PTL

\* The sender forgets nothing that the receiver does not have.
THEOREM NothingForgotten ==
    ASSUME ShortPackets
    PROVE  Spec => []AcknowledgedIsHeld
  <1>1. ASSUME IInv PROVE AcknowledgedIsHeld
    <2>1. PacketsInv /\ ReceiverInv
      BY <1>1 DEF IInv
    <2>2. \A c \in acks \cup ((1 .. attempted) \ outstanding) : c \in Held
      BY <2>1, HadBefore, HasIsHeld
    <2> QED
      BY <2>2 DEF AcknowledgedIsHeld
  <1> QED
    BY <1>1, Invariance, PTL

\* The list is in the order of sending however often the numbers wrapped, and
\* nothing that could leave it stays.
THEOREM ListStaysInOrder ==
    ASSUME ShortPackets
    PROVE  Spec => []ListInOrder
  <1>1. ASSUME IInv PROVE ListInOrder
    <2> PICK d : d = Taken
      OBVIOUS
    <2>1. /\ PacketsInv /\ incoming = Number(End(d))
          /\ Listed(commands, d) /\ Waits(commands, d) /\ d \in 0 .. Len(ends)
      BY <1>1, ReceiverNear DEF IInv, ReceiverInv
    <2>2. /\ Len(commands) \in Nat /\ DOMAIN commands = 1 .. Len(commands)
          /\ commands \in Seq(IncomingCommands)
      BY <2>1, ListedEntries
    <2>3. Expected = End(d)
      BY DEF Expected, Taken
    <2>4. ASSUME NEW i \in 1 .. Len(commands) - 1
          PROVE  commands[i].packet < commands[i + 1].packet
      <3>1. i \in DOMAIN commands /\ i + 1 \in DOMAIN commands /\ i < i + 1
        BY <2>2
      <3> QED
        BY <3>1, <2>1, ListedEntries
    <2>5. ASSUME commands # <<>>
          PROVE  \/ First(Head(commands).packet) > Expected + 1
                 \/ Head(commands).fragmentsRemaining > 0
      <3>1. Head(commands) = commands[1] /\ 1 \in DOMAIN commands
        <4>1. Len(commands) # 0
          BY <2>2, <2>5, EmptySeq
        <4> QED
          BY <4>1, <2>2
      <3> PICK p : p = commands[1].packet
        OBVIOUS
      <3>2. /\ commands[1].fragmentsRemaining \in Nat
            /\ p \in DOMAIN ends /\ p > d /\ p <= Len(ends) /\ p \in Nat
            /\ First(p) \in Nat
        BY <2>1, <3>1, ListedEntries
      <3>3. CASE commands[1].fragmentsRemaining # 0
        BY <3>1, <3>2, <3>3
      <3>4. CASE p # d + 1
        <4>1. d + 1 \in DOMAIN ends /\ d + 1 < p /\ d + 1 <= Len(ends)
          BY <3>2, <3>4, <2>1, EndsInOrder
        <4>2. First(d + 1) = End(d) + 1 /\ End(d) \in Nat
          BY <4>1, <2>1, PacketsLater
        <4>3. First(d + 1) < First(p)
          BY <4>1, <3>2, <2>1, PacketsApart
        <4> QED
          BY <3>1, <3>2, <4>2, <4>3, <2>3
      <3> QED
        BY <2>1, <2>5, <3>3, <3>4 DEF Waits
    <2> QED
      BY <2>1, <2>3, <2>4, <2>5 DEF ListInOrder
  <1> QED
    BY <1>1, Invariance, PTL

-----------------------------------------------------------------------------
(***************************************************************************)
(* The queue that the application sees.                                    *)
(***************************************************************************)

\* The packets sent and not received yet: the queue of ReliableFifo.
Pending == [i \in 1 .. Len(ends) - Len(received) |-> Content(Len(received) + i)]

\* It is a sequence, of the packets after those received.
PendingFollows ==
    /\ Len(ends) \in Nat /\ Len(received) \in Nat /\ Len(received) <= Len(ends)
    /\ received \in Seq(SUBSET Commands) /\ Pending \in Seq(SUBSET Commands)
    /\ Len(Pending) = Len(ends) - Len(received)
    /\ DOMAIN Pending = 1 .. Len(ends) - Len(received)
    /\ \A m : m = Len(received) =>
          /\ \A i \in 1 .. m : received[i] = Content(i)
          /\ \A i \in 1 .. Len(ends) - m : Pending[i] = Content(m + i)

\* In every state.
LEMMA PendingIs == PacketsInv /\ ReceiverInv => PendingFollows
  <1> SUFFICES ASSUME PacketsInv, ReceiverInv PROVE PendingFollows
    OBVIOUS
  <1> PICK m : m = Len(received)
    OBVIOUS
  <1> PICK l : l = Len(ends) - m
    OBVIOUS
  <1>1. /\ received \in Seq(SUBSET Commands) /\ dispatched \in Seq(SUBSET Commands)
        /\ Taken <= Len(ends)
        /\ \A i \in DOMAIN received : received[i] = Content(i)
    BY DEF ReceiverInv
  <1>2. /\ m \in Nat /\ DOMAIN received = 1 .. m /\ Len(dispatched) \in Nat
        /\ Len(ends) \in Nat /\ DOMAIN ends = 1 .. Len(ends)
    BY <1>1, EndsInOrder
  <1>3. m <= Len(ends) /\ l \in Nat
    BY <1>1, <1>2 DEF Taken
  <1>4. Pending = [i \in 1 .. l |-> Content(m + i)]
    BY DEF Pending
  <1>5. \A i \in 1 .. l : Content(m + i) \in SUBSET Commands
    <2> SUFFICES ASSUME NEW i \in 1 .. l PROVE Content(m + i) \in SUBSET Commands
      OBVIOUS
    <2>1. m + i \in DOMAIN ends
      BY <1>2, <1>3
    <2> QED
      BY <2>1, ContentOf
  <1>6. Pending \in [1 .. l -> SUBSET Commands]
    BY <1>4, <1>5
  <1>7. /\ Pending \in Seq(SUBSET Commands) /\ Len(Pending) = l
        /\ DOMAIN Pending = 1 .. l
    BY <1>3, <1>6
  <1>8. \A i \in 1 .. l : Pending[i] = Content(m + i)
    BY <1>4
  <1> QED
    BY <1>1, <1>2, <1>3, <1>7, <1>8 DEF PendingFollows

\* And so in the next one.
LEMMA PendingAfter == PacketsInv' /\ ReceiverInv' => PendingFollows'
  BY PendingIs, PTL

\* What has been sent, received or not, is the commands up to the last one.
LEMMA SentIsQueued ==
    ASSUME PacketsInv, ReceiverInv
    PROVE  Fifo!Sent = 1 .. queued
  <1> PICK m : m = Len(received)
    OBVIOUS
  <1>1. /\ Len(ends) \in Nat /\ m \in Nat /\ m <= Len(ends)
        /\ DOMAIN received = 1 .. m
        /\ DOMAIN Pending = 1 .. Len(ends) - m
        /\ \A i \in 1 .. m : received[i] = Content(i)
        /\ \A i \in 1 .. Len(ends) - m : Pending[i] = Content(m + i)
    BY SMTT(30), PendingIs DEF PendingFollows
  <1>2. DOMAIN ends = 1 .. Len(ends)
    BY EndsInOrder
  <1>3. Fifo!Sent = UNION ({Pending[i] : i \in DOMAIN Pending}
                              \cup {received[i] : i \in DOMAIN received})
    BY DEF Fifo!Sent, Pending
  <1>4. ASSUME NEW c \in Fifo!Sent
        PROVE  c \in 1 .. queued
    <2>1. (\E i \in DOMAIN Pending : c \in Pending[i])
              \/ (\E i \in DOMAIN received : c \in received[i])
      BY <1>3
    <2>2. \E n \in DOMAIN ends : c \in Content(n)
      <3>1. CASE \E i \in DOMAIN Pending : c \in Pending[i]
        <4>1. PICK i \in DOMAIN Pending : c \in Pending[i]
          BY <3>1
        <4>2. m + i \in DOMAIN ends /\ c \in Content(m + i)
          BY <4>1, <1>1, <1>2
        <4> QED
          BY <4>2
      <3>2. CASE \E i \in DOMAIN received : c \in received[i]
        <4>1. PICK i \in DOMAIN received : c \in received[i]
          BY <3>2
        <4>2. i \in DOMAIN ends /\ c \in Content(i)
          BY <4>1, <1>1, <1>2
        <4> QED
          BY <4>2
      <3> QED
        BY <2>1, <3>1, <3>2
    <2> QED
      BY <2>2, ContentOf
  <1>5. ASSUME NEW c \in 1 .. queued
        PROVE  c \in Fifo!Sent
    <2> PICK n : n = PacketOf(c)
      OBVIOUS
    <2>1. n \in DOMAIN ends /\ c \in Content(n)
      BY PacketOfContent
    <2>2. CASE n <= m
      <3>1. n \in DOMAIN received /\ c \in received[n]
        BY <2>1, <2>2, <1>1, <1>2
      <3> QED
        BY <3>1, <1>3
    <2>3. CASE n > m
      <3>1. /\ n - m \in DOMAIN Pending /\ n - m \in 1 .. Len(ends) - m
            /\ m + (n - m) = n
        BY <2>1, <2>3, <1>1, <1>2
      <3>2. Pending[n - m] = Content(m + (n - m))
        BY <3>1, <1>1
      <3>3. c \in Pending[n - m]
        BY <2>1, <3>1, <3>2
      <3> QED
        BY <3>1, <3>3, <1>3
    <2> QED
      BY <2>1, <2>2, <2>3, <1>1, <1>2
  <1> QED
    BY <1>4, <1>5

\* A packet that is given to enet_peer_send goes to the end of the queue.
LEMMA SendImplements ==
    ASSUME PacketsInv, ReceiverInv, PacketsInv', ReceiverInv', Send
    PROVE  Fifo!Send
  <1> PICK m : m = Len(received)
    OBVIOUS
  <1> PICK k : k = Len(ends)
    OBVIOUS
  <1> PICK n : n = k + 1
    OBVIOUS
  <1> PICK last : last = queued'
    OBVIOUS
  <1> PICK q : q = Pending
    OBVIOUS
  <1> PICK p : p = Pending'
    OBVIOUS
  <1>1. /\ k \in Nat /\ m \in Nat /\ m <= k
        /\ q \in Seq(SUBSET Commands) /\ Len(q) = k - m
        /\ \A i \in 1 .. k - m : q[i] = Content(m + i)
    BY PendingIs DEF PendingFollows
  <1>2. /\ Len(ends') = n /\ received' = received
        /\ queued' = queued + lengths[k + 1] /\ lengths[k + 1] \in Nat \ {0}
        /\ \A i \in 0 .. k : End(i)' = End(i)
        /\ \A i \in DOMAIN ends : Content(i)' = Content(i)
    BY SendAppends DEF Send, receiver
  <1>3. queued \in Nat /\ queued = End(k) /\ DOMAIN ends = 1 .. k
    BY EndsInOrder DEF queued
  <1>4. last \in Nat /\ last > queued /\ last <= MaxCommands
    <2>1. queued + lengths[k + 1] <= MaxCommands
      BY DEF Send
    <2> QED
      BY <2>1, <1>2, <1>3
  <1>5. /\ p \in Seq(SUBSET Commands) /\ Len(p) = n - m
        /\ \A i \in 1 .. n - m : p[i] = Content(m + i)'
    <2>1. m = Len(received')
      BY <1>2
    <2> QED
      BY <2>1, <1>2, PendingAfter DEF PendingFollows
  <1>6. Content(n)' = queued + 1 .. last
    <2>1. n - 1 = k
      BY <1>1
    <2>2. End(n - 1)' = queued
      BY <2>1, <1>1, <1>2, <1>3
    <2>3. End(n)' = last
      BY <1>2 DEF queued
    <2> QED
      BY <2>2, <2>3 DEF Content, First
  <1> PICK x : x = (1 .. last) \ Fifo!Sent
    OBVIOUS
  <1>7. Fifo!Sent = 1 .. queued
    BY SentIsQueued
  <1>8. x = Content(n)'
    BY <1>3, <1>4, <1>6, <1>7
  <1>9. x \in SUBSET Commands
    <2>1. \A c \in 1 .. last : c \in 1 .. MaxCommands
      BY <1>4, Constants
    <2>2. x \subseteq 1 .. last
      OBVIOUS
    <2> QED
      BY <2>1, <2>2 DEF Commands
  <1>10. /\ Append(q, x) \in Seq(SUBSET Commands)
         /\ Len(Append(q, x)) = k - m + 1
         /\ \A i \in 1 .. k - m : Append(q, x)[i] = q[i]
         /\ Append(q, x)[k - m + 1] = x
    BY <1>1, <1>9, AppendProperties
  <1>11. p = Append(q, x)
    <2>1. Len(p) = Len(Append(q, x)) /\ Len(p) = k - m + 1 /\ n - m = k - m + 1
      BY <1>1, <1>5, <1>10
    <2>2. ASSUME NEW i \in 1 .. k - m + 1
          PROVE  p[i] = Append(q, x)[i]
      <3>1. CASE i \in 1 .. k - m
        <4>1. m + i \in DOMAIN ends /\ i \in 1 .. n - m
          BY <3>1, <2>1, <1>1, <1>3
        <4>2. p[i] = Content(m + i)'
          BY <4>1, <1>5
        <4>3. Content(m + i)' = Content(m + i)
          BY <4>1, <1>2
        <4> QED
          BY <3>1, <4>2, <4>3, <1>1, <1>10
      <3>2. CASE i = k - m + 1
        <4>1. i \in 1 .. n - m /\ m + i = n
          BY <3>2, <2>1, <1>1
        <4>2. p[i] = Content(n)'
          BY <4>1, <1>5
        <4> QED
          BY <3>2, <4>2, <1>8, <1>10
      <3> QED
        BY <3>1, <3>2, <1>1
    <2>3. \A i \in 1 .. Len(p) : p[i] = Append(q, x)[i]
      BY <2>1, <2>2
    <2> QED
      BY <2>1, <2>3, <1>5, <1>10, SeqEqual
  <1>12. last \in 1 .. MaxCommands /\ last \notin Fifo!Sent
    BY <1>3, <1>4, <1>7
  <1>13. Pending' = Append(Pending, (1 .. last) \ Fifo!Sent)
    BY <1>11
  <1>14. /\ last \in 1 .. MaxCommands /\ last \notin Fifo!Sent
         /\ Pending' = Append(Pending, (1 .. last) \ Fifo!Sent)
         /\ UNCHANGED received
    BY <1>2, <1>12, <1>13
  <1> QED
    BY <1>14 DEF Fifo!Send, Pending

\* What the application receives is the head of the queue.
LEMMA ReceiveImplements ==
    ASSUME PacketsInv, ReceiverInv, PacketsInv', ReceiverInv', Receive
    PROVE  Fifo!Receive
  <1> PICK m : m = Len(received)
    OBVIOUS
  <1> PICK k : k = Len(ends)
    OBVIOUS
  <1> PICK n : n = m + 1
    OBVIOUS
  <1> PICK q : q = Pending
    OBVIOUS
  <1> PICK p : p = Pending'
    OBVIOUS
  <1>1. /\ k \in Nat /\ m \in Nat /\ m <= k
        /\ received \in Seq(SUBSET Commands)
        /\ q \in Seq(SUBSET Commands) /\ Len(q) = k - m
        /\ \A i \in 1 .. k - m : q[i] = Content(m + i)
    BY PendingIs DEF PendingFollows
  <1>2. /\ dispatched # <<>> /\ received' = Append(received, Head(dispatched))
        /\ UNCHANGED ends
    BY DEF Receive, sender
  <1>3. /\ dispatched \in Seq(SUBSET Commands) /\ Taken <= k
        /\ \A i \in DOMAIN dispatched : dispatched[i] = Content(m + i)
    BY DEF ReceiverInv
  <1>4. /\ Len(dispatched) \in Nat /\ Len(dispatched) >= 1
        /\ Head(dispatched) = dispatched[1] /\ 1 \in DOMAIN dispatched
        /\ Head(dispatched) \in SUBSET Commands
    <2>1. Len(dispatched) \in Nat /\ Len(dispatched) # 0
      BY <1>2, <1>3, EmptySeq
    <2> QED
      BY <2>1, <1>2, <1>3
  <1>5. m + 1 <= k
    BY <1>1, <1>3, <1>4 DEF Taken
  <1>6. q # <<>> /\ Head(q) = q[1] /\ q[1] = Content(m + 1) /\ Len(q) >= 1
    <2>1. 1 \in 1 .. k - m
      BY <1>1, <1>5
    <2>2. Len(q) # 0 /\ Len(q) >= 1
      BY <1>1, <1>5
    <2> QED
      BY <2>1, <2>2, <1>1, EmptySeq
  <1>7. Head(q) = Head(dispatched)
    BY <1>3, <1>4, <1>6
  <1>8. /\ Tail(q) \in Seq(SUBSET Commands) /\ Len(Tail(q)) = k - m - 1
        /\ \A i \in 1 .. k - m - 1 : Tail(q)[i] = q[i + 1]
    <2>1. /\ Tail(q) \in Seq(SUBSET Commands) /\ Len(Tail(q)) = Len(q) - 1
          /\ \A i \in 1 .. Len(Tail(q)) : Tail(q)[i] = q[i + 1]
      BY <1>1, <1>6, HeadTailProperties
    <2>2. Len(q) - 1 = k - m - 1
      BY <1>1
    <2> QED
      BY <2>1, <2>2
  <1>9. Len(received') = n
    BY <1>1, <1>2, <1>4, AppendProperties
  <1>10. /\ p \in Seq(SUBSET Commands) /\ Len(p) = k - n
         /\ \A i \in 1 .. k - n : p[i] = Content(n + i)'
    <2>1. n = Len(received') /\ k = Len(ends')
      BY <1>2, <1>9
    <2> QED
      BY <2>1, PendingAfter DEF PendingFollows
  <1>11. p = Tail(q)
    <2>1. Len(p) = Len(Tail(q)) /\ Len(p) = k - m - 1 /\ k - n = k - m - 1
      <3>1. k - n = k - m - 1
        BY <1>1
      <3> QED
        BY <3>1, <1>8, <1>10
    <2>2. ASSUME NEW i \in 1 .. k - m - 1
          PROVE  p[i] = Tail(q)[i]
      <3>1. /\ i + 1 \in 1 .. k - m /\ n + i = m + (i + 1)
        BY <1>1
      <3>2. Content(n + i)' = Content(n + i)
        BY <1>2, SamePackets
      <3>3. p[i] = Content(n + i)
        BY <2>1, <3>2, <1>10
      <3>4. q[i + 1] = Content(m + (i + 1))
        BY <3>1, <1>1
      <3>5. Tail(q)[i] = q[i + 1]
        BY <1>8
      <3> QED
        BY <3>1, <3>3, <3>4, <3>5
    <2>3. \A i \in 1 .. Len(p) : p[i] = Tail(q)[i]
      BY <2>1, <2>2
    <2> QED
      BY <2>1, <2>3, <1>8, <1>10, SeqEqual
  <1>12. /\ Pending # <<>>
         /\ received' = Append(received, Head(Pending))
         /\ Pending' = Tail(Pending)
    BY <1>2, <1>6, <1>7, <1>11
  <1> QED
    BY <1>12 DEF Fifo!Receive, Pending

\* The application gets every packet once, whole, and in the order they were
\* sent: the channel implements a queue.
THEOREM ChannelImplementsFifo ==
    ASSUME ShortPackets
    PROVE  Spec => ImplementsFifo
  <1>1. ASSUME Init PROVE Fifo!Init
    <2>1. PacketsInv /\ ReceiverInv
      BY <1>1, SenderInitially, ReceiverInitially
    <2>2. Len(ends) = 0 /\ received = <<>> /\ Len(received) = 0
      BY <1>1 DEF Init
    <2>3. Pending \in Seq(SUBSET Commands) /\ Len(Pending) = 0
      BY <2>1, <2>2, PendingIs DEF PendingFollows
    <2>4. Pending = <<>>
      BY <2>3, EmptySeq
    <2> QED
      BY <2>2, <2>4 DEF Fifo!Init, Pending
  <1>2. ASSUME IInv, IInv', [Next]_vars
        PROVE  [Fifo!Next]_(Fifo!vars)
    <2>1. PacketsInv /\ ReceiverInv /\ PacketsInv' /\ ReceiverInv'
      BY <1>2 DEF IInv
    <2>2. CASE Send
      BY <2>1, <2>2, SendImplements DEF Fifo!Next
    <2>3. CASE Receive
      BY <2>1, <2>3, ReceiveImplements DEF Fifo!Next
    <2>4. ASSUME UNCHANGED ends, UNCHANGED received
          PROVE  UNCHANGED Fifo!vars
      <3>1. \A n : Content(n)' = Content(n)
        BY <2>4, SamePackets
      <3>2. Len(ends') = Len(ends) /\ received' = received
        BY <2>4
      <3> PICK m : m = Len(received)
        OBVIOUS
      <3>3. Pending = [i \in 1 .. Len(ends) - m |-> Content(m + i)]
        BY DEF Pending
      <3>4. Pending' = [i \in 1 .. Len(ends) - m |-> Content(m + i)']
        <4>1. m = Len(received')
          BY <3>2
        <4> QED
          BY <3>2, <4>1 DEF Pending, Content, First, End
      <3>5. Pending' = Pending
        BY <3>1, <3>3, <3>4
      <3> QED
        BY <3>2, <3>5 DEF Fifo!vars, Pending
    <2>5. CASE Transmit
      BY <2>5, <2>4 DEF Transmit, receiver
    <2>6. ASSUME NEW command \in Commands, ReceiveAcknowledge(command)
          PROVE  UNCHANGED Fifo!vars
      BY <2>6, <2>4 DEF ReceiveAcknowledge, receiver
    <2>7. ASSUME NEW command \in Commands, ReceiveCommand(command)
          PROVE  UNCHANGED Fifo!vars
      <3>1. UNCHANGED ends
        BY <2>7 DEF ReceiveCommand, sender
      <3>2. UNCHANGED received
        <4>1. HandleFragment(command) \/ HandleReliable(command)
          BY <2>7 DEF ReceiveCommand
        <4>2. HandleFragment(command) => UNCHANGED received
          BY DEF HandleFragment, receiver
        <4>3. HandleReliable(command) => UNCHANGED received
          BY DEF HandleReliable, receiver
        <4> QED
          BY <4>1, <4>2, <4>3
      <3> QED
        BY <2>4, <3>1, <3>2
    <2>8. CASE UNCHANGED vars
      BY <2>8, <2>4 DEF vars, sender, receiver
    <2> QED
      BY <1>2, <2>2, <2>3, <2>5, <2>6, <2>7, <2>8 DEF Next
  <1> QED
    BY <1>1, <1>2, Invariance, PTL DEF Spec, ImplementsFifo, Fifo!Spec
=============================================================================
