----------------------- MODULE UnreliableChannelProofs -----------------------
(***************************************************************************)
(* The packets of a channel that are not sent again, for any sizes of the  *)
(* windows, any age of a datagram within them and whatever is sent.        *)
(***************************************************************************)
EXTENDS UnreliableChannel, Integers, FiniteSetTheorems, SequenceTheorems,
        WellFoundedInduction, TLAPS

-----------------------------------------------------------------------------
(***************************************************************************)
(* Invariants.                                                             *)
(***************************************************************************)

\* Reliable commands less than a round of windows apart are told apart, and so
\* are those of late packets from those still to come.
Room == (ReliableWindows - FreeReliableWindows + 1) * ReliableWindowSize

\* No packet is longer than m, and neither what is in transit nor what is sent after
\* a datagram, while it lives, goes so far round the windows that the free ones meet it.
Fits(m) ==
    /\ \A work \in Workloads : \A i \in DOMAIN work : work[i].length <= m
    /\ InTransit + m <= Room
    /\ Lifetime * m <= Room + m

\* Unsequenced packets are outlived by their groups' windows.
GroupsLast ==
    Lifetime <= (UnsequencedWindows - FreeUnsequencedWindows)
                   * UnsequencedWindowSize + 1

Unreliables == {"SEND_UNRELIABLE", "SEND_UNRELIABLE_FRAGMENT"}

\* b is sent d packets after a.
Follows(a, b, d) ==
    /\ a.group <= b.group /\ b.group <= a.group + d
    /\ b.kind = "SEND_UNSEQUENCED" => a.group < b.group
    /\ a.reliable <= b.reliable
    /\ b.kind = "SEND_RELIABLE" => a.reliable < b.reliable
    /\ a.reliable = b.reliable =>
          /\ a.unreliable <= b.unreliable
          /\ b.kind \in Unreliables => a.unreliable < b.unreliable

Formed(a) ==
    /\ a.kind = "SEND_RELIABLE" => a.unreliable = 0 /\ a.reliable > 0
    /\ a.kind \in Unreliables => a.unreliable > 0
    /\ a.kind \in {"SEND_UNRELIABLE", "SEND_UNSEQUENCED"} => a.length = 1
    /\ a.kind = "SEND_UNRELIABLE_FRAGMENT" => a.length > 1

PacketsInv ==
    /\ workload \in Workloads
    /\ packets \in Seq(OutgoingCommands)
    /\ Len(packets) <= Len(workload)
    /\ \A p \in DOMAIN packets : Formed(packets[p])
    /\ \A p, q \in DOMAIN packets : p < q => Follows(packets[p], packets[q], q - p)

EntryOf(e, ps) ==
    /\ e \in IncomingCommands /\ e.packet \in DOMAIN ps
    /\ e.fragments \subseteq 1 .. ps[e.packet].length
    /\ e.fragmentsRemaining = ps[e.packet].length - Cardinality(e.fragments)

\* What a list may hold, and what is ready for the application.
Waiting(list) ==
    /\ list \in Seq(IncomingCommands)
    /\ \A i \in DOMAIN list :
          EntryOf(list[i], packets) /\ packets[list[i].packet].kind \in Unreliables
Done(list) ==
    /\ list \in Seq(IncomingCommands)
    /\ \A i \in DOMAIN list :
          EntryOf(list[i], packets) /\ list[i].fragmentsRemaining = 0

ListsInv ==
    /\ reliables \in Nat /\ incomingUnreliable \in 0 .. MaximumUnreliable
    /\ Waiting(commands) /\ Done(dispatched)
    /\ totalWaitingData \in Nat
    /\ Waits(commands) + Waits(dispatched) <= totalWaitingData

GroupInv ==
    /\ incomingGroup \in 0 .. Groups - 1
    /\ incomingGroup % UnsequencedWindowSize = 0
    /\ unsequencedWindow \subseteq 0 .. UnsequencedWindowSize - 1
    /\ newest \in 0 .. Len(packets) /\ taken \subseteq DOMAIN packets
    /\ \A p \in taken : packets[p].kind = "SEND_UNSEQUENCED"

GroupSpan(p) == packets[p].group \div UnsequencedWindowSize

\* No copy of the unsequenced p will be let in.
Barred(p) ==
    \E q \in DOMAIN packets :
        /\ incomingGroup = GroupWindow(packets[q].group % Groups)
        /\ GroupSpan(p) <= GroupSpan(q)
        /\ GroupSpan(p) = GroupSpan(q) =>
              packets[p].group % UnsequencedWindowSize \in unsequencedWindow

Received(p) == p \in taken \/ \E i \in Unsequenced : dispatched[i].packet = p

OnceInv ==
    /\ \A p \in DOMAIN packets : Alive(p) /\ Received(p) => Barred(p)
    /\ UnsequencedOnce

Span(command) == command \div ReliableWindowSize

\* A receiver that is at these numbers is past p.
Behind(p, incoming, unreliable) ==
    \/ packets[p].reliable < incoming
    \/ packets[p].reliable = incoming /\ packets[p].unreliable <= unreliable

\* e is not too old for a receiver that is at these numbers, nor too far ahead.
Awaits(e, incoming, unreliable) ==
    /\ incoming <= packets[e.packet].reliable
    /\ Span(packets[e.packet].reliable) + 1 < Span(incoming) + FreeReliableWindows
    /\ packets[e.packet].reliable = incoming =>
          /\ e.fragmentsRemaining > 0
          /\ packets[e.packet].unreliable > unreliable

\* The sequenced packets of a list are in the order they were sent.
Ordered(list) ==
    \A i, j \in DOMAIN list :
        i < j /\ ~IsUnsequenced(list[i]) /\ ~IsUnsequenced(list[j])
            => list[i].packet < list[j].packet

Near(m) ==
    /\ \A p \in DOMAIN packets : packets[p].length <= m
    /\ \A p, q \in DOMAIN packets :
          p < q => packets[q].reliable <= packets[p].reliable + (q - p) * m
    /\ reliables <= Outgoing.reliable
    /\ Outgoing.reliable < reliables + InTransit + m

OrderInv ==
    /\ \A i \in DOMAIN commands : Awaits(commands[i], reliables, incomingUnreliable)
    /\ Ordered(commands)
    /\ newest # 0 => Behind(newest, reliables, incomingUnreliable)
    /\ \A i \in Sequenced :
          Behind(dispatched[i].packet, reliables, incomingUnreliable)
    /\ SequencedInOrder

-----------------------------------------------------------------------------
(***************************************************************************)
(* Arithmetic.                                                             *)
(***************************************************************************)

\* What the constants are known to be.
LEMMA Constants ==
    /\ ReliableWindowSize \in Nat /\ ReliableWindowSize >= 1
    /\ FreeReliableWindows \in Nat /\ FreeReliableWindows >= 2
    /\ ReliableWindows \in Nat
    /\ ReliableWindows >= FreeReliableWindows + FreeReliableWindows
    /\ UnsequencedWindowSize \in Nat /\ UnsequencedWindowSize >= 1
    /\ FreeUnsequencedWindows \in Nat /\ FreeUnsequencedWindows >= 1
    /\ UnsequencedWindows \in Nat
    /\ UnsequencedWindows >= FreeUnsequencedWindows + FreeUnsequencedWindows
    /\ MaximumUnreliable \in Nat /\ MaximumUnreliable >= 1
    /\ MaximumWaiting \in Nat /\ InTransit \in Nat /\ Lifetime \in Nat
  <1>1. /\ FreeReliableWindows \in Nat /\ FreeReliableWindows >= 2
        /\ FreeUnsequencedWindows \in Nat
    BY WindowsAssumption
  <1>2. /\ 2 * FreeReliableWindows = FreeReliableWindows + FreeReliableWindows
        /\ 2 * FreeUnsequencedWindows
              = FreeUnsequencedWindows + FreeUnsequencedWindows
    BY <1>1
  <1> QED
    BY <1>1, <1>2, WindowsAssumption, BoundsAssumption

\* A set of natural numbers has a least one.
LEMMA Least ==
    ASSUME NEW T \in SUBSET Nat, T # {}
    PROVE  \E x \in T : \A y \in T : x <= y
  <1> DEFINE R == {ss \in Nat \X Nat : ss[1] < ss[2]}
  <1>1. IsWellFoundedOn(R, Nat)
    BY NatLessThanWellFounded DEF OpToRel
  <1>2. \A x, y \in Nat : ~(<<y, x>> \in R) => x <= y
    OBVIOUS
  <1> HIDE DEF R
  <1>3. T \subseteq Nat
    OBVIOUS
  <1>4. \E x \in T : \A y \in T : ~(<<y, x>> \in R)
    BY <1>1, <1>3, WFMin
  <1>5. PICK x \in T : \A y \in T : ~(<<y, x>> \in R)
    BY <1>4
  <1>6. \A y \in T : x <= y
    BY <1>2, <1>3, <1>5, Zenon
  <1> QED
    BY <1>6

\* So a bounded one has a greatest one.
LEMMA Greatest ==
    ASSUME NEW b \in Nat, NEW T \in SUBSET (0 .. b), T # {}
    PROVE  /\ Max(T) \in T
           /\ \A y \in T : Max(T) >= y
  <1> DEFINE U == {b - x : x \in T}
  <1>1. U \in SUBSET Nat /\ U # {}
    <2>1. \A x \in T : b - x \in Nat
      OBVIOUS
    <2> QED
      BY <2>1
  <1>2. PICK u \in U : \A y \in U : u <= y
    BY <1>1, Least
  <1>3. PICK x \in T : u = b - x
    BY <1>2
  <1>4. \A y \in T : b - y \in U
    OBVIOUS
  <1> HIDE DEF U
  <1>5. \A y \in T : b - x <= b - y
    BY <1>2, <1>3, <1>4
  <1>6. \A y \in T : x >= y
    BY <1>5
  <1> QED
    BY <1>6 DEF Max

\* Quotient and remainder.
LEMMA DivMod ==
    ASSUME NEW a \in Nat, NEW b \in Nat \ {0}
    PROVE  /\ a \div b \in Nat /\ a % b \in 0 .. b - 1
           /\ a = b * (a \div b) + (a % b)
  OBVIOUS

\* They are the only ones.
LEMMA DivUnique ==
    ASSUME NEW b \in Nat \ {0}, NEW q \in Nat, NEW r \in 0 .. b - 1
    PROVE  (b * q + r) \div b = q /\ (b * q + r) % b = r
  <1> DEFINE a == b * q + r
  <1>1. a \in Nat
    OBVIOUS
  <1>2. ASSUME NEW q1 \in Nat, NEW q2 \in Nat, NEW r1 \in 0 .. b - 1,
               NEW r2 \in 0 .. b - 1, b * q1 + r1 = b * q2 + r2
        PROVE  q1 <= q2
    <2>1. SUFFICES ASSUME q1 > q2 PROVE FALSE
      OBVIOUS
    <2>2. PICK d \in Nat : q1 = q2 + d /\ d >= 1
      BY <2>1
    <2>3. b * q1 = b * q2 + b * d
      BY <2>2
    <2>4. b * d >= b
      BY <2>2
    <2> QED
      BY <1>2, <2>3, <2>4
  <1>3. /\ a \div b \in Nat /\ a % b \in 0 .. b - 1
        /\ a = b * (a \div b) + (a % b)
    BY <1>1, DivMod
  <1> DEFINE q3 == a \div b
             r3 == a % b
  <1>4. b * q + r = b * q3 + r3 /\ q3 \in Nat /\ r3 \in 0 .. b - 1
    BY <1>3
  <1> HIDE DEF a, q3, r3
  <1>5. q <= q3 /\ q3 <= q
    BY <1>2, <1>4
  <1>6. q3 = q
    BY <1>4, <1>5
  <1>7. r3 = r
    BY <1>4, <1>6
  <1> QED
    BY <1>6, <1>7 DEF a, q3, r3

\* A larger number has no smaller quotient; one divisor more is one more.
LEMMA DivMonotone ==
    ASSUME NEW a \in Nat, NEW c \in Nat, NEW b \in Nat \ {0}
    PROVE  /\ a <= c => a \div b <= c \div b
           /\ a <= c + b => a \div b <= (c \div b) + 1
           /\ a > c + b => a \div b > c \div b
  <1>1. /\ a \div b \in Nat /\ a % b \in 0 .. b - 1
        /\ a = b * (a \div b) + (a % b)
    BY DivMod
  <1>2. /\ c \div b \in Nat /\ c % b \in 0 .. b - 1
        /\ c = b * (c \div b) + (c % b)
    BY DivMod
  <1> DEFINE p == a \div b
             q == c \div b
  <1> HIDE DEF p, q
  <1>3. ASSUME NEW x \in Nat, NEW y \in Nat, x > y
        PROVE  b * x >= b * y + b
    <2>1. PICK d \in Nat : x = y + 1 + d
      BY <1>3
    <2>2. b * x = b * y + b + b * d
      BY <2>1
    <2>3. b * d >= 0
      OBVIOUS
    <2> QED
      BY <2>2, <2>3
  <1>4. /\ p \in Nat /\ q \in Nat /\ q + 1 \in Nat
        /\ a < b * p + b /\ a >= b * p
        /\ c < b * q + b /\ c >= b * q
    BY <1>1, <1>2 DEF p, q
  <1>5. ASSUME a <= c PROVE p <= q
    <2>1. p > q => b * p >= b * q + b
      BY <1>3, <1>4
    <2> QED
      BY <1>4, <1>5, <2>1
  <1>6. ASSUME a <= c + b PROVE p <= q + 1
    <2>1. p > q + 1 => b * p >= b * (q + 1) + b
      BY <1>3, <1>4
    <2>2. b * (q + 1) = b * q + b
      BY <1>4
    <2> QED
      BY <1>4, <1>6, <2>1, <2>2
  <1>7. ASSUME a > c + b PROVE p > q
    <2>1. q > p => b * q >= b * p + b
      BY <1>3, <1>4
    <2>2. q = p => b * q = b * p
      OBVIOUS
    <2> QED
      BY <1>4, <1>7, <2>1, <2>2
  <1> QED
    BY <1>5, <1>6, <1>7 DEF p, q

\* What is one greater, up to n, is reached from 0.
LEMMA Stepwise ==
    ASSUME NEW n \in Nat, NEW T, 0 \in T,
           \A i \in 1 .. n : i - 1 \in T => i \in T
    PROVE  \A i \in 0 .. n : i \in T
  <1> DEFINE U == {i \in 0 .. n : i \notin T}
  <1>1. SUFFICES ASSUME U # {} PROVE FALSE
    OBVIOUS
  <1>a. U \in SUBSET Nat
    OBVIOUS
  <1>b. \E x \in U : \A y \in U : x <= y
    BY ONLY <1>1, <1>a, Least
  <1>2. PICK x \in U : \A y \in U : x <= y
    BY <1>b
  <1>3. x # 0 /\ x \in 1 .. n
    BY <1>2
  <1>4. x - 1 \in T
    BY <1>2, <1>3
  <1> QED
    BY <1>2, <1>3, <1>4

-----------------------------------------------------------------------------
(***************************************************************************)
(* Lists.                                                                  *)
(***************************************************************************)

\* A loop of n steps, each of which makes a value of V of the one before.
Steps(n, V) == [1 .. n -> [V -> V]]

\* f has the values between the steps.
Runs(f, n, V, v0, g) ==
    /\ f \in [0 .. n -> V]
    /\ f[0] = v0
    /\ \A i \in 1 .. n : f[i] = g[i][f[i - 1]]

\* What a loop computes is there.
LEMMA Loop ==
    ASSUME NEW n \in Nat, NEW V, NEW v0 \in V, NEW g \in Steps(n, V)
    PROVE  \E f : Runs(f, n, V, v0, g)
  <1> DEFINE T == {m \in 0 .. n : \E f : Runs(f, m, V, v0, g)}
  <1>1. 0 \in T
    <2> DEFINE h == [i \in 0 .. 0 |-> v0]
    <2>1. h \in [0 .. 0 -> V] /\ h[0] = v0
      OBVIOUS
    <2> HIDE DEF h
    <2>2. Runs(h, 0, V, v0, g)
      BY <2>1 DEF Runs
    <2> QED
      BY <2>2
  <1>2. ASSUME NEW m \in 1 .. n, m - 1 \in T PROVE m \in T
    <2>0. PICK f : Runs(f, m - 1, V, v0, g)
      BY <1>2
    <2>1. /\ f \in [0 .. m - 1 -> V]
          /\ f[0] = v0
          /\ \A i \in 1 .. m - 1 : f[i] = g[i][f[i - 1]]
      BY <2>0 DEF Runs
    <2>d. g \in [1 .. n -> [V -> V]]
      BY DEF Steps
    <2> DEFINE h == [i \in 0 .. m |-> IF i < m THEN f[i] ELSE g[m][f[m - 1]]]
    <2>a. m - 1 \in 0 .. m - 1 /\ m \in Nat
      OBVIOUS
    <2>2. f[m - 1] \in V /\ g[m] \in [V -> V]
      BY <2>1, <2>a, <2>d
    <2>b. \A i \in 0 .. m : i < m => f[i] \in V
      BY <2>1
    <2>c. g[m][f[m - 1]] \in V
      BY <2>2
    <2>3. h \in [0 .. m -> V]
      BY <2>b, <2>c
    <2>4. h[0] = v0
      BY <2>1
    <2>5. ASSUME NEW i \in 1 .. m PROVE h[i] = g[i][h[i - 1]]
      <3>1. i - 1 \in 0 .. m /\ i - 1 < m /\ i \in 0 .. m
        OBVIOUS
      <3>2. h[i - 1] = f[i - 1]
        BY <3>1
      <3>3. CASE i < m
        BY <2>1, <3>1, <3>2, <3>3
      <3>4. CASE i = m
        BY <3>1, <3>2, <3>4
      <3> QED
        BY <3>3, <3>4
    <2> HIDE DEF h
    <2>6. Runs(h, m, V, v0, g)
      BY <2>3, <2>4, <2>5 DEF Runs
    <2> QED
      BY <2>6
  <1> HIDE DEF T
  <1>3. \A m \in 0 .. n : m \in T
    BY <1>1, <1>2, Stepwise
  <1>4. n \in T
    BY <1>3
  <1> QED
    BY <1>4 DEF T

\* Every list is got by appending.
LEMMA Lists ==
    ASSUME NEW S, NEW P, <<>> \in P,
           \A s \in Seq(S), c \in S : s \in P => Append(s, c) \in P
    PROVE  \A s \in Seq(S) : s \in P
  <1> SUFFICES ASSUME NEW t \in Seq(S) PROVE t \in P
    OBVIOUS
  <1> DEFINE n == Len(t)
             T == {i \in 0 .. n : \A s \in Seq(S) : Len(s) = i => s \in P}
  <1>1. n \in Nat
    OBVIOUS
  <1>2. 0 \in T
    <2>1. \A s \in Seq(S) : Len(s) = 0 => s = <<>>
      OBVIOUS
    <2> QED
      BY <1>1, <2>1
  <1>3. ASSUME NEW i \in 1 .. n, i - 1 \in T PROVE i \in T
    <2>1. SUFFICES ASSUME NEW s \in Seq(S), Len(s) = i PROVE s \in P
      OBVIOUS
    <2> DEFINE u == SubSeq(s, 1, i - 1)
    <2>2. u \in Seq(S) /\ Len(u) = i - 1 /\ s[i] \in S
      BY <2>1
    <2>3. s = Append(u, s[i])
      BY <2>1
    <2>4. u \in P
      BY <1>3, <2>2
    <2> HIDE DEF u
    <2>5. Append(u, s[i]) \in P
      BY <2>2, <2>4
    <2> QED
      BY <2>3, <2>5
  <1> HIDE DEF T
  <1>4. \A i \in 0 .. n : i \in T
    BY ONLY <1>1, <1>2, <1>3, Stepwise
  <1>5. n \in T
    BY <1>1, <1>4
  <1> QED
    BY <1>5 DEF T

\* What InsertAt of SequencesExt does.
LEMMA InsertedAt ==
    ASSUME NEW s \in Seq(IncomingCommands), NEW k \in 1 .. Len(s) + 1,
           NEW e \in IncomingCommands,
           NEW r, r = InsertAt(s, k, e)
    PROVE  /\ r \in Seq(IncomingCommands) /\ Len(r) = Len(s) + 1
           /\ DOMAIN r = 1 .. Len(s) + 1
           /\ \A j \in 1 .. k - 1 : r[j] = s[j]
           /\ r[k] = e
           /\ \A j \in k .. Len(s) : r[j + 1] = s[j]
  <1> DEFINE a == SubSeq(s, 1, k - 1)
             b == SubSeq(s, k, Len(s))
             m == a \o <<e>>
  <1>1. Len(s) \in Nat /\ k \in Nat /\ k >= 1 /\ k <= Len(s) + 1
    BY LenProperties
  <1>2. \A i \in 1 .. Len(s) : s[i] \in IncomingCommands
    BY ElementOfSeq
  <1>3. /\ a \in Seq(IncomingCommands) /\ Len(a) = k - 1
        /\ \A j \in 1 .. k - 1 : a[j] = s[j]
    <2>1. \A i \in 1 .. k - 1 : s[i] \in IncomingCommands
      BY <1>1, <1>2
    <2>2. /\ a \in Seq(IncomingCommands)
          /\ Len(a) = IF 1 <= k - 1 THEN k - 1 - 1 + 1 ELSE 0
          /\ \A j \in 1 .. k - 1 - 1 + 1 : a[j] = s[1 + j - 1]
      BY <1>1, <2>1, SubSeqProperties
    <2> HIDE DEF a
    <2>3. \A j \in 1 .. k - 1 : a[j] = s[j]
      <3> SUFFICES ASSUME NEW j \in 1 .. k - 1 PROVE a[j] = s[j]
        OBVIOUS
      <3>1. j \in 1 .. k - 1 - 1 + 1 /\ 1 + j - 1 = j
        BY <1>1
      <3> QED
        BY <2>2, <3>1
    <2> QED
      BY <1>1, <2>2, <2>3
  <1>4. /\ b \in Seq(IncomingCommands) /\ Len(b) = Len(s) - k + 1
        /\ \A j \in 1 .. Len(s) - k + 1 : b[j] = s[k + j - 1]
    <2>1. \A i \in k .. Len(s) : s[i] \in IncomingCommands
      BY <1>1, <1>2
    <2>2. /\ b \in Seq(IncomingCommands)
          /\ Len(b) = IF k <= Len(s) THEN Len(s) - k + 1 ELSE 0
          /\ \A j \in 1 .. Len(s) - k + 1 : b[j] = s[k + j - 1]
      BY <1>1, <2>1, SubSeqProperties
    <2> HIDE DEF b
    <2> QED
      BY <1>1, <2>2
  <1> HIDE DEF a, b
  <1>5. <<e>> \in Seq(IncomingCommands) /\ Len(<<e>>) = 1 /\ <<e>>[1] = e
    OBVIOUS
  <1>6. /\ m \in Seq(IncomingCommands) /\ Len(m) = k
        /\ \A j \in 1 .. k - 1 : m[j] = s[j]
        /\ m[k] = e
    <2> DEFINE x == <<e>>
    <2> HIDE DEF x
    <2>1. /\ m \in Seq(IncomingCommands) /\ Len(m) = Len(a) + Len(x)
          /\ \A j \in 1 .. Len(a) + Len(x) :
                m[j] = IF j <= Len(a) THEN a[j] ELSE x[j - Len(a)]
      BY <1>3, <1>5, ConcatProperties DEF x
    <2>2. Len(x) = 1 /\ x[1] = e
      BY <1>5 DEF x
    <2> HIDE DEF m
    <2>3. Len(m) = k
      BY <1>1, <1>3, <2>1, <2>2
    <2>4. \A j \in 1 .. k - 1 : m[j] = s[j]
      BY <1>1, <1>3, <2>1, <2>2
    <2>5. m[k] = e
      <3>1. k \in 1 .. Len(a) + Len(x) /\ ~(k <= Len(a)) /\ k - Len(a) = 1
        BY <1>1, <1>3, <2>2
      <3> QED
        BY <2>1, <2>2, <3>1
    <2> QED
      BY <2>1, <2>3, <2>4, <2>5
  <1>7. r = m \o b
    BY DEF InsertAt, a, b
  <1> HIDE DEF m
  <1>8. /\ r \in Seq(IncomingCommands) /\ Len(r) = Len(m) + Len(b)
        /\ \A j \in 1 .. Len(m) + Len(b) :
              r[j] = IF j <= Len(m) THEN m[j] ELSE b[j - Len(m)]
    <2>1. /\ m \o b \in Seq(IncomingCommands) /\ Len(m \o b) = Len(m) + Len(b)
          /\ \A j \in 1 .. Len(m) + Len(b) :
                (m \o b)[j] = IF j <= Len(m) THEN m[j] ELSE b[j - Len(m)]
      BY <1>4, <1>6, ConcatProperties
    <2> QED
      BY ONLY <1>7, <2>1
  <1>9. Len(r) = Len(s) + 1 /\ Len(m) + Len(b) = Len(s) + 1
    BY <1>1, <1>4, <1>6, <1>8
  <1>10. \A j \in 1 .. k - 1 : r[j] = s[j]
    BY <1>1, <1>6, <1>8, <1>9
  <1>11. r[k] = e
    BY <1>1, <1>6, <1>8, <1>9
  <1>12. ASSUME NEW j \in k .. Len(s)
         PROVE  r[j + 1] = s[j]
    <2>1. /\ j + 1 \in 1 .. Len(m) + Len(b) /\ ~(j + 1 <= Len(m))
          /\ j + 1 - k \in 1 .. Len(s) - k + 1 /\ k + (j + 1 - k) - 1 = j
      BY <1>1, <1>6, <1>9
    <2>2. r[j + 1] = b[j + 1 - Len(m)]
      BY <1>8, <2>1
    <2>3. b[j + 1 - k] = s[k + (j + 1 - k) - 1]
      BY <1>4, <2>1
    <2> QED
      BY <1>6, <2>1, <2>2, <2>3
  <1>13. DOMAIN r = 1 .. Len(s) + 1
    BY <1>8, <1>9, LenProperties
  <1> QED
    BY <1>8, <1>9, <1>10, <1>11, <1>12, <1>13
\* f is what Picked has at each place of the list.
PickedBy(f, r, s, A, S) ==
    /\ f \in [0 .. Len(s) -> Seq(S)]
    /\ f[0] = <<>>
    /\ \A i \in 1 .. Len(s) :
          f[i] = IF i \in A THEN Append(f[i - 1], s[i]) ELSE f[i - 1]
    /\ r = f[Len(s)]

\* So there is such an f.
LEMMA PickedLoop ==
    ASSUME NEW S, NEW s \in Seq(S), NEW A
    PROVE  \E f : PickedBy(f, Picked(s, A), s, A, S)
  <1> DEFINE n == Len(s)
             V == Seq(S)
             v0 == <<>>
             Step(i, v) == IF i \in A THEN Append(v, s[i]) ELSE v
             P(f) == f = [i \in 0 .. n |-> IF i = 0 THEN v0 ELSE Step(i, f[i - 1])]
             g == [i \in 1 .. n |-> [v \in V |-> Step(i, v)]]
  <1>1. n \in Nat /\ v0 \in V /\ \A i \in 1 .. n : \A v \in V : Step(i, v) \in V
    OBVIOUS
  <1>2. Picked(s, A) = (CHOOSE f : P(f))[n]
    BY DEF Picked
  <1> HIDE DEF n, V, v0, Step
  <1>3. \A i \in 1 .. n : \A v \in V : g[i][v] = Step(i, v)
    OBVIOUS
  <1>4. g \in [1 .. n -> [V -> V]]
    BY <1>1
  <1> HIDE DEF g
  <1>a. n \in Nat /\ v0 \in V
    BY <1>1
  <1>b. g \in Steps(n, V)
    BY <1>4 DEF Steps
  <1>c. \E f : Runs(f, n, V, v0, g)
    BY ONLY <1>a, <1>b, Loop
  <1>5. PICK f \in [0 .. n -> V] :
           f[0] = v0 /\ \A i \in 1 .. n : f[i] = g[i][f[i - 1]]
    BY <1>c DEF Runs
  <1>6. \A i \in 1 .. n : f[i - 1] \in V /\ f[i] = Step(i, f[i - 1])
    BY <1>1, <1>3, <1>5
  <1>7. P(f)
    <2>1. f = [i \in 0 .. n |-> f[i]]
      BY <1>5
    <2>2. \A i \in 0 .. n : f[i] = IF i = 0 THEN v0 ELSE Step(i, f[i - 1])
      BY <1>1, <1>5, <1>6
    <2> QED
      BY <2>1, <2>2
  <1>8. PICK h : h = (CHOOSE ff : P(ff))
    OBVIOUS
  <1>9. P(h)
    BY <1>7, <1>8
  <1>10. h[0] = v0 /\ \A i \in 1 .. n : h[i] = Step(i, h[i - 1])
    BY <1>1, <1>9
  <1>11. \A i \in 0 .. n : h[i] \in V
    <2> DEFINE T == {i \in 0 .. n : h[i] \in V}
    <2>1. 0 \in T
      BY <1>1, <1>10
    <2>2. ASSUME NEW i \in 1 .. n, i - 1 \in T PROVE i \in T
      BY <1>1, <1>10, <2>2
    <2> HIDE DEF T
    <2>3. \A i \in 0 .. n : i \in T
      BY ONLY <1>1, <2>1, <2>2, Stepwise
    <2> QED
      BY <2>3 DEF T
  <1>12. h = [i \in 0 .. n |-> h[i]]
    BY <1>9
  <1>13. h \in [0 .. n -> V] /\ Picked(s, A) = h[n]
    BY <1>2, <1>8, <1>11, <1>12
  <1> QED
    BY <1>10, <1>13 DEF n, V, v0, Step, PickedBy

\* h says where in the first n places of s the entries of r come from: from those
\* of A, all of them, in their order.
Places(h, r, s, A, n) ==
    /\ h \in [1 .. Len(r) -> 1 .. n]
    /\ \A k \in 1 .. Len(r) : h[k] \in A /\ r[k] = s[h[k]]
    /\ \A k, l \in 1 .. Len(r) : k < l => h[k] < h[l]
    /\ \A j \in 1 .. n : j \in A => \E k \in 1 .. Len(r) : h[k] = j

\* What is picked is what the list has at these places.
LEMMA PickedPlaces ==
    ASSUME NEW S, NEW s \in Seq(S), NEW A
    PROVE  /\ Picked(s, A) \in Seq(S)
           /\ \E h : Places(h, Picked(s, A), s, A, Len(s))
  <1>1. PICK f \in [0 .. Len(s) -> Seq(S)] :
           /\ f[0] = <<>>
           /\ \A i \in 1 .. Len(s) :
                 f[i] = IF i \in A THEN Append(f[i - 1], s[i]) ELSE f[i - 1]
           /\ Picked(s, A) = f[Len(s)]
    <2>1. PICK f : PickedBy(f, Picked(s, A), s, A, S)
      BY PickedLoop
    <2> QED
      BY <2>1 DEF PickedBy
  <1> DEFINE n == Len(s)
             T == {i \in 0 .. n : \E h : Places(h, f[i], s, A, i)}
  <1>2. n \in Nat /\ \A i \in 1 .. n : s[i] \in S
    OBVIOUS
  <1>3. 0 \in T
    <2> DEFINE e == [k \in 1 .. 0 |-> 0]
    <2>1. Len(f[0]) = 0 /\ f[0] = <<>> /\ 1 .. 0 = {}
      BY <1>1
    <2>2. Places(e, f[0], s, A, 0)
      BY <2>1 DEF Places
    <2> QED
      BY <1>2, <2>2
  <1>4. ASSUME NEW i \in 1 .. n, i - 1 \in T PROVE i \in T
    <2>1. PICK h : Places(h, f[i - 1], s, A, i - 1)
      BY <1>4
    <2> DEFINE r == f[i - 1]
               m == Len(r)
    <2>2. r \in Seq(S) /\ m \in Nat /\ i \in Nat /\ i >= 1 /\ s[i] \in S
      BY <1>1, <1>2
    <2>3. f[i] = IF i \in A THEN Append(r, s[i]) ELSE r
      BY <1>1
    <2>4. /\ h \in [1 .. m -> 1 .. i - 1]
          /\ \A k \in 1 .. m : h[k] \in A /\ r[k] = s[h[k]]
          /\ \A k, l \in 1 .. m : k < l => h[k] < h[l]
          /\ \A j \in 1 .. i - 1 : j \in A => \E k \in 1 .. m : h[k] = j
      BY <2>1 DEF Places
    <2> HIDE DEF r, m
    <2>5. \A k \in 1 .. m : h[k] \in 1 .. i - 1 /\ h[k] \in 1 .. i /\ h[k] < i
      BY <2>2, <2>4
    <2>6. CASE i \notin A
      <3>1. \A j \in 1 .. i : j \in A => j \in 1 .. i - 1
        BY <2>2, <2>6
      <3>2. h \in [1 .. m -> 1 .. i]
        BY <2>4, <2>5
      <3>3. \A j \in 1 .. i : j \in A => \E k \in 1 .. m : h[k] = j
        BY <2>4, <3>1
      <3>4. Places(h, r, s, A, i)
        BY <2>4, <3>2, <3>3 DEF Places, m
      <3>5. f[i] = r
        BY <2>3, <2>6
      <3> QED
        BY <1>4, <3>4, <3>5
    <2>7. CASE i \in A
      <3> DEFINE g == [k \in 1 .. m + 1 |-> IF k <= m THEN h[k] ELSE i]
      <3> PICK t : t = Append(r, s[i])
        OBVIOUS
      <3>1. /\ Len(t) = m + 1 /\ t[m + 1] = s[i]
            /\ \A k \in 1 .. m : t[k] = r[k]
        BY <2>2 DEF m
      <3>2. \A k \in 1 .. m : k \in 1 .. m + 1 /\ g[k] = h[k]
        BY <2>2
      <3>3. m + 1 \in 1 .. m + 1 /\ g[m + 1] = i
        BY <2>2
      <3>4. \A k \in 1 .. m + 1 : k \in 1 .. m \/ k = m + 1
        BY <2>2
      <3>5. g \in [1 .. m + 1 -> 1 .. i]
        BY <2>2, <2>5
      <3> HIDE DEF g
      <3>6. \A k \in 1 .. m + 1 : g[k] \in A /\ t[k] = s[g[k]]
        BY <2>4, <2>7, <3>1, <3>2, <3>3, <3>4
      <3>7. ASSUME NEW k \in 1 .. m + 1, NEW l \in 1 .. m + 1, k < l
            PROVE  g[k] < g[l]
        <4>1. k \in 1 .. m
          BY <3>7, <2>2
        <4>2. CASE l \in 1 .. m
          BY <3>2, <3>7, <2>4, <4>1, <4>2
        <4>3. CASE l = m + 1
          BY <3>2, <3>3, <2>5, <4>1, <4>3
        <4> QED
          BY <3>4, <4>2, <4>3
      <3>8. ASSUME NEW j \in 1 .. i, j \in A
            PROVE  \E k \in 1 .. m + 1 : g[k] = j
        <4>1. CASE j = i
          BY <3>3, <4>1
        <4>2. CASE j # i
          <5>1. j \in 1 .. i - 1
            BY <2>2, <4>2
          <5>2. PICK k \in 1 .. m : h[k] = j
            BY <2>4, <3>8, <5>1
          <5> QED
            BY <3>2, <5>2
        <4> QED
          BY <4>1, <4>2
      <3>9. Places(g, t, s, A, i)
        BY <3>1, <3>5, <3>6, <3>7, <3>8 DEF Places
      <3>10. f[i] = t
        BY <2>3, <2>7
      <3>11. Places(g, f[i], s, A, i)
        BY <3>9, <3>10
      <3>12. i \in 0 .. n
        BY <1>2
      <3> QED
        BY <3>11, <3>12
    <2> QED
      BY <2>6, <2>7
  <1> HIDE DEF T
  <1>5. \A i \in 0 .. n : i \in T
    BY ONLY <1>2, <1>3, <1>4, Stepwise
  <1>6. n \in T
    BY <1>2, <1>5
  <1>7. Picked(s, A) = f[n] /\ f[n] \in Seq(S)
    BY <1>1, <1>2
  <1> QED
    BY <1>6, <1>7 DEF T

\* The same, of the entries.
LEMMA PickedEntries ==
    ASSUME NEW S, NEW s \in Seq(S), NEW A, NEW r, r = Picked(s, A)
    PROVE  /\ r \in Seq(S)
           /\ \A k \in DOMAIN r : \E i \in DOMAIN s : i \in A /\ r[k] = s[i]
           /\ \A k, l \in DOMAIN r : k < l =>
                 \E i, j \in DOMAIN s :
                    i \in A /\ j \in A /\ i < j /\ r[k] = s[i] /\ r[l] = s[j]
           /\ \A i \in DOMAIN s : i \in A => \E k \in DOMAIN r : r[k] = s[i]
  <1>1. r \in Seq(S) /\ \E h : Places(h, r, s, A, Len(s))
    BY PickedPlaces
  <1>2. PICK h : Places(h, r, s, A, Len(s))
    BY <1>1
  <1>3. DOMAIN r = 1 .. Len(r) /\ DOMAIN s = 1 .. Len(s)
    BY <1>1
  <1>4. /\ h \in [DOMAIN r -> DOMAIN s]
        /\ \A k \in DOMAIN r : h[k] \in A /\ r[k] = s[h[k]]
        /\ \A k, l \in DOMAIN r : k < l => h[k] < h[l]
        /\ \A j \in DOMAIN s : j \in A => \E k \in DOMAIN r : h[k] = j
    BY <1>2, <1>3 DEF Places
  <1>5. \A k \in DOMAIN r : h[k] \in DOMAIN s
    BY <1>4
  <1>6. ASSUME NEW i \in DOMAIN s, i \in A PROVE \E k \in DOMAIN r : r[k] = s[i]
    BY <1>4, <1>6
  <1> QED
    BY <1>1, <1>4, <1>5, <1>6

\* Waits, with the packets as a parameter, and the entries it is about.
WaitsOf(list, ps) ==
    LET waits[i \in 0 .. Len(list)] ==
            IF i = 0 THEN 0 ELSE waits[i - 1] + ps[list[i].packet].length
    IN  waits[Len(list)]

EntriesOf(ps) == {e \in IncomingCommands : e.packet \in DOMAIN ps}

\* It is the same.
LEMMA WaitsIs == \A list : Waits(list) = WaitsOf(list, packets)
  BY DEF Waits, WaitsOf

\* An entry counts something.
LEMMA EntryWaits ==
    ASSUME NEW ps \in Seq(OutgoingCommands), NEW e \in EntriesOf(ps)
    PROVE  ps[e.packet].length \in Nat /\ ps[e.packet].length >= 1
  <1>1. e.packet \in DOMAIN ps
    BY DEF EntriesOf
  <1>2. ps[e.packet] \in OutgoingCommands
    BY <1>1
  <1> QED
    BY <1>2 DEF OutgoingCommands

\* Waits goes through the list.
LEMMA WaitsLoop ==
    ASSUME NEW ps \in Seq(OutgoingCommands), NEW s \in Seq(EntriesOf(ps))
    PROVE  \E f \in [0 .. Len(s) -> Nat] :
              /\ f[0] = 0
              /\ \A i \in 1 .. Len(s) : f[i] = f[i - 1] + ps[s[i].packet].length
              /\ WaitsOf(s, ps) = f[Len(s)]
  <1> DEFINE n == Len(s)
             V == Nat
             v0 == 0
             Step(i, v) == v + ps[s[i].packet].length
             P(f) == f = [i \in 0 .. n |-> IF i = 0 THEN v0 ELSE Step(i, f[i - 1])]
             g == [i \in 1 .. n |-> [v \in V |-> Step(i, v)]]
  <1>1. n \in Nat /\ v0 \in V /\ \A i \in 1 .. n : \A v \in V : Step(i, v) \in V
    <2>1. \A i \in 1 .. n : s[i] \in EntriesOf(ps)
      OBVIOUS
    <2>2. \A i \in 1 .. n : ps[s[i].packet].length \in Nat
      BY <2>1, EntryWaits
    <2> QED
      BY <2>2
  <1>2. WaitsOf(s, ps) = (CHOOSE f : P(f))[n]
    BY DEF WaitsOf
  <1> HIDE DEF n, V, v0, Step
  <1>3. \A i \in 1 .. n : \A v \in V : g[i][v] = Step(i, v)
    OBVIOUS
  <1>4. g \in [1 .. n -> [V -> V]]
    BY <1>1
  <1> HIDE DEF g
  <1>a. n \in Nat /\ v0 \in V
    BY <1>1
  <1>b. g \in Steps(n, V)
    BY <1>4 DEF Steps
  <1>c. \E f : Runs(f, n, V, v0, g)
    BY ONLY <1>a, <1>b, Loop
  <1>5. PICK f \in [0 .. n -> V] :
           f[0] = v0 /\ \A i \in 1 .. n : f[i] = g[i][f[i - 1]]
    BY <1>c DEF Runs
  <1>6. \A i \in 1 .. n : f[i - 1] \in V /\ f[i] = Step(i, f[i - 1])
    BY <1>1, <1>3, <1>5
  <1>7. P(f)
    <2>1. f = [i \in 0 .. n |-> f[i]]
      BY <1>5
    <2>2. \A i \in 0 .. n : f[i] = IF i = 0 THEN v0 ELSE Step(i, f[i - 1])
      BY <1>1, <1>5, <1>6
    <2> QED
      BY <2>1, <2>2
  <1>8. PICK h : h = (CHOOSE ff : P(ff))
    OBVIOUS
  <1>9. P(h)
    BY <1>7, <1>8
  <1>10. h[0] = v0 /\ \A i \in 1 .. n : h[i] = Step(i, h[i - 1])
    BY <1>1, <1>9
  <1>11. \A i \in 0 .. n : h[i] \in V
    <2> DEFINE T == {i \in 0 .. n : h[i] \in V}
    <2>1. 0 \in T
      BY <1>1, <1>10
    <2>2. ASSUME NEW i \in 1 .. n, i - 1 \in T PROVE i \in T
      BY <1>1, <1>10, <2>2
    <2> HIDE DEF T
    <2>3. \A i \in 0 .. n : i \in T
      BY ONLY <1>1, <2>1, <2>2, Stepwise
    <2> QED
      BY <2>3 DEF T
  <1>12. h = [i \in 0 .. n |-> h[i]]
    BY <1>9
  <1>13. h \in [0 .. n -> V] /\ WaitsOf(s, ps) = h[n]
    BY <1>2, <1>8, <1>11, <1>12
  <1> QED
    BY <1>10, <1>13 DEF n, V, v0, Step

\* Lists of entries that count the same, place by place, count the same.
LEMMA WaitsSame ==
    ASSUME NEW ps \in Seq(OutgoingCommands), NEW s \in Seq(EntriesOf(ps)),
           NEW qs \in Seq(OutgoingCommands), NEW t \in Seq(EntriesOf(qs)),
           Len(s) = Len(t),
           \A i \in 1 .. Len(s) :
              ps[s[i].packet].length = qs[t[i].packet].length
    PROVE  WaitsOf(s, ps) = WaitsOf(t, qs)
  <1> DEFINE n == Len(s)
  <1>1. PICK f \in [0 .. n -> Nat] :
           /\ f[0] = 0
           /\ \A i \in 1 .. n : f[i] = f[i - 1] + ps[s[i].packet].length
           /\ WaitsOf(s, ps) = f[n]
    BY WaitsLoop
  <1>2. PICK h \in [0 .. n -> Nat] :
           /\ h[0] = 0
           /\ \A i \in 1 .. n : h[i] = h[i - 1] + qs[t[i].packet].length
           /\ WaitsOf(t, qs) = h[n]
    <2>1. \E h \in [0 .. Len(t) -> Nat] :
             /\ h[0] = 0
             /\ \A i \in 1 .. Len(t) : h[i] = h[i - 1] + qs[t[i].packet].length
             /\ WaitsOf(t, qs) = h[Len(t)]
      BY ONLY WaitsLoop, qs \in Seq(OutgoingCommands), t \in Seq(EntriesOf(qs))
    <2> QED
      BY <2>1
  <1>3. n \in Nat
    OBVIOUS
  <1> DEFINE T == {i \in 0 .. n : f[i] = h[i]}
  <1>4. 0 \in T
    BY <1>1, <1>2, <1>3
  <1>5. ASSUME NEW i \in 1 .. n, i - 1 \in T PROVE i \in T
    <2>1. i \in 0 .. n /\ f[i - 1] = h[i - 1]
      BY <1>3, <1>5
    <2> QED
      BY <1>1, <1>2, <2>1
  <1> HIDE DEF T
  <1>6. \A i \in 0 .. n : i \in T
    BY ONLY <1>3, <1>4, <1>5, Stepwise
  <1>7. n \in T
    BY <1>3, <1>6
  <1> QED
    BY <1>1, <1>2, <1>7 DEF T

\* A longer list counts more.
LEMMA WaitsSteps ==
    ASSUME NEW ps \in Seq(OutgoingCommands)
    PROVE  /\ WaitsOf(<<>>, ps) = 0
           /\ \A s \in Seq(EntriesOf(ps)) : WaitsOf(s, ps) \in Nat
           /\ \A s \in Seq(EntriesOf(ps)), e \in EntriesOf(ps) :
                 WaitsOf(Append(s, e), ps) = WaitsOf(s, ps) + ps[e.packet].length
  <1>1. WaitsOf(<<>>, ps) = 0
    <2> PICK e : e = <<>>
      OBVIOUS
    <2>1. e \in Seq(EntriesOf(ps)) /\ Len(e) = 0
      OBVIOUS
    <2>2. PICK f \in [0 .. Len(e) -> Nat] : f[0] = 0 /\ WaitsOf(e, ps) = f[Len(e)]
      BY ONLY <2>1, ps \in Seq(OutgoingCommands), WaitsLoop
    <2>3. WaitsOf(e, ps) = 0
      BY <2>1, <2>2
    <2> QED
      BY <2>3
  <1>2. ASSUME NEW s \in Seq(EntriesOf(ps)) PROVE WaitsOf(s, ps) \in Nat
    BY WaitsLoop
  <1>3. ASSUME NEW s \in Seq(EntriesOf(ps)), NEW e \in EntriesOf(ps)
        PROVE  WaitsOf(Append(s, e), ps) = WaitsOf(s, ps) + ps[e.packet].length
    <2> DEFINE n == Len(s)
    <2> PICK t : t = Append(s, e)
      OBVIOUS
    <2>1. /\ t \in Seq(EntriesOf(ps)) /\ Len(t) = n + 1 /\ n \in Nat
          /\ t[n + 1] = e /\ \A i \in 1 .. n : t[i] = s[i]
      OBVIOUS
    <2>2. PICK f \in [0 .. n -> Nat] :
             /\ f[0] = 0
             /\ \A i \in 1 .. n : f[i] = f[i - 1] + ps[s[i].packet].length
             /\ WaitsOf(s, ps) = f[n]
      BY WaitsLoop
    <2>3. PICK h \in [0 .. n + 1 -> Nat] :
             /\ h[0] = 0
             /\ \A i \in 1 .. n + 1 : h[i] = h[i - 1] + ps[t[i].packet].length
             /\ WaitsOf(t, ps) = h[n + 1]
      <3>1. \E h \in [0 .. Len(t) -> Nat] :
               /\ h[0] = 0
               /\ \A i \in 1 .. Len(t) : h[i] = h[i - 1] + ps[t[i].packet].length
               /\ WaitsOf(t, ps) = h[Len(t)]
        BY ONLY <2>1, ps \in Seq(OutgoingCommands), WaitsLoop
      <3> QED
        BY ONLY <2>1, <3>1
    <2> HIDE DEF n
    <2> DEFINE T == {i \in 0 .. n : f[i] = h[i]}
    <2>4. 0 \in T
      BY <2>1, <2>2, <2>3
    <2>a. ASSUME NEW i \in 1 .. n, i - 1 \in T PROVE i \in T
      <3>1. i \in 1 .. n + 1 /\ t[i] = s[i] /\ f[i - 1] = h[i - 1] /\ i \in 0 .. n
        BY <2>1, <2>a
      <3>2. f[i] = h[i]
        BY <2>2, <2>3, <3>1
      <3> QED
        BY <3>1, <3>2
    <2>b. n \in Nat
      BY <2>1
    <2> HIDE DEF T
    <2>5. n \in T
      <3>1. \A i \in 0 .. n : i \in T
        BY ONLY <2>4, <2>a, <2>b, Stepwise
      <3> QED
        BY <2>b, <3>1
    <2>6. f[n] = h[n]
      BY <2>5 DEF T
    <2>7. n + 1 \in 1 .. n + 1 /\ (n + 1) - 1 = n
      BY <2>1
    <2>8. h[n + 1] = h[n] + ps[e.packet].length
      BY <2>1, <2>3, <2>7
    <2> QED
      BY <2>2, <2>3, <2>6, <2>8
  <1> QED
    BY <1>1, <1>2, <1>3

\* What one list after another counts.
LEMMA WaitsBoth ==
    ASSUME NEW ps \in Seq(OutgoingCommands),
           NEW s \in Seq(EntriesOf(ps)), NEW t \in Seq(EntriesOf(ps))
    PROVE  WaitsOf(s \o t, ps) = WaitsOf(s, ps) + WaitsOf(t, ps)
  <1> DEFINE E == EntriesOf(ps)
             W(u) == WaitsOf(u, ps)
             P == {u \in Seq(E) : W(s \o u) = W(s) + W(u)}
  <1>0. \A u \in Seq(E) : W(u) \in Nat
    BY WaitsSteps
  <1>1. <<>> \in P
    <2>1. s \o <<>> = s /\ <<>> \in Seq(E)
      OBVIOUS
    <2>2. W(<<>>) = 0
      BY WaitsSteps
    <2>3. W(s) = W(s) + 0
      BY <1>0
    <2> QED
      BY <2>1, <2>2, <2>3
  <1>2. ASSUME NEW u \in Seq(E), NEW c \in E, u \in P
        PROVE  Append(u, c) \in P
    <2>1. s \o Append(u, c) = Append(s \o u, c) /\ s \o u \in Seq(E)
      OBVIOUS
    <2> PICK v : v = s \o u
      OBVIOUS
    <2>2. v \in Seq(E) /\ W(v) = W(s) + W(u)
      BY <1>2, <2>1
    <2> PICK w : w = ps[c.packet].length
      OBVIOUS
    <2>3. W(Append(v, c)) = W(v) + w
      BY <2>2, WaitsSteps
    <2>4. W(Append(u, c)) = W(u) + w
      BY WaitsSteps
    <2>5. w \in Nat /\ Append(u, c) \in Seq(E)
      BY EntryWaits
    <2> HIDE DEF W
    <2>6. W(Append(v, c)) = W(s) + W(Append(u, c))
      BY <1>0, <2>2, <2>3, <2>4, <2>5
    <2> QED
      BY <2>1, <2>5, <2>6
  <1> HIDE DEF P, E
  <1>3. \A u \in Seq(E) : u \in P
    BY <1>1, <1>2, Lists
  <1> QED
    BY <1>3 DEF P, E

\* What disjoint parts of a list count.
LEMMA WaitsParts ==
    ASSUME NEW ps \in Seq(OutgoingCommands), NEW s \in Seq(EntriesOf(ps)),
           NEW A, NEW B, A \cap B = {}
    PROVE  WaitsOf(Picked(s, A), ps) + WaitsOf(Picked(s, B), ps) <= WaitsOf(s, ps)
  <1> DEFINE E == EntriesOf(ps)
             W(u) == WaitsOf(u, ps)
             n == Len(s)
  <1>1. PICK f \in [0 .. n -> Seq(E)] :
           /\ f[0] = <<>>
           /\ \A i \in 1 .. n :
                 f[i] = IF i \in A THEN Append(f[i - 1], s[i]) ELSE f[i - 1]
           /\ Picked(s, A) = f[n]
    <2>1. PICK f : PickedBy(f, Picked(s, A), s, A, E)
      BY PickedLoop
    <2> QED
      BY <2>1 DEF PickedBy
  <1>2. PICK g \in [0 .. n -> Seq(E)] :
           /\ g[0] = <<>>
           /\ \A i \in 1 .. n :
                 g[i] = IF i \in B THEN Append(g[i - 1], s[i]) ELSE g[i - 1]
           /\ Picked(s, B) = g[n]
    <2>1. PICK h : PickedBy(h, Picked(s, B), s, B, E)
      BY PickedLoop
    <2> QED
      BY <2>1 DEF PickedBy
  <1>3. PICK h \in [0 .. n -> Nat] :
           /\ h[0] = 0
           /\ \A i \in 1 .. n : h[i] = h[i - 1] + ps[s[i].packet].length
           /\ W(s) = h[n]
    BY WaitsLoop
  <1>4. /\ n \in Nat /\ \A i \in 1 .. n : s[i] \in E
    OBVIOUS
  <1>5. W(<<>>) = 0 /\ \A u \in Seq(E) : W(u) \in Nat
    BY WaitsSteps
  <1>6. ASSUME NEW u \in Seq(E), NEW e \in E
        PROVE  W(Append(u, e)) = W(u) + ps[e.packet].length
    BY WaitsSteps
  <1>7. \A e \in E : ps[e.packet].length \in Nat
    BY EntryWaits
  <1> HIDE DEF W, n, E
  <1> DEFINE T == {i \in 0 .. n : W(f[i]) + W(g[i]) <= h[i]}
  <1>8. 0 \in T
    BY <1>1, <1>2, <1>3, <1>4, <1>5
  <1>9. ASSUME NEW i \in 1 .. n, i - 1 \in T PROVE i \in T
    <2> PICK a : a = f[i - 1]
      OBVIOUS
    <2> PICK b : b = g[i - 1]
      OBVIOUS
    <2> PICK w : w = ps[s[i].packet].length
      OBVIOUS
    <2>1. i \in 0 .. n /\ i - 1 \in 0 .. n
      BY <1>4
    <2>2. a \in Seq(E) /\ b \in Seq(E) /\ s[i] \in E /\ w \in Nat
      BY <1>1, <1>2, <1>4, <1>7, <2>1
    <2>3. W(a) \in Nat /\ W(b) \in Nat /\ h[i - 1] \in Nat
      BY <1>3, <1>5, <2>1, <2>2
    <2>4. W(a) + W(b) <= h[i - 1] /\ h[i] = h[i - 1] + w
      BY <1>3, <1>9
    <2>5. W(f[i]) = IF i \in A THEN W(a) + w ELSE W(a)
      BY <1>1, <1>6, <2>2
    <2>6. W(g[i]) = IF i \in B THEN W(b) + w ELSE W(b)
      BY <1>2, <1>6, <2>2
    <2>7. i \notin A \/ i \notin B
      OBVIOUS
    <2>8. W(f[i]) + W(g[i]) <= h[i]
      <3> PICK x : x = W(a)
        OBVIOUS
      <3> PICK y : y = W(b)
        OBVIOUS
      <3> PICK z : z = h[i - 1]
        OBVIOUS
      <3>1. x \in Nat /\ y \in Nat /\ z \in Nat /\ w \in Nat /\ x + y <= z
        BY <2>2, <2>3, <2>4
      <3>2. x + w + y <= z + w /\ x + (y + w) <= z + w /\ x + y <= z + w
        BY ONLY <3>1
      <3>3. h[i] = z + w
        BY <2>4
      <3>4. CASE i \in A
        <4>1. W(f[i]) = x + w /\ W(g[i]) = y
          BY <2>5, <2>6, <2>7, <3>4
        <4> QED
          BY ONLY <3>2, <3>3, <4>1
      <3>5. CASE i \in B
        <4>1. W(f[i]) = x /\ W(g[i]) = y + w
          BY <2>5, <2>6, <2>7, <3>5
        <4> QED
          BY ONLY <3>2, <3>3, <4>1
      <3>6. CASE i \notin A /\ i \notin B
        <4>1. W(f[i]) = x /\ W(g[i]) = y
          BY <2>5, <2>6, <3>6
        <4> QED
          BY ONLY <3>2, <3>3, <4>1
      <3> QED
        BY <3>4, <3>5, <3>6
    <2> QED
      BY <2>1, <2>8
  <1> HIDE DEF T
  <1>10. \A i \in 0 .. n : i \in T
    BY ONLY <1>4, <1>8, <1>9, Stepwise
  <1>11. n \in T
    BY <1>4, <1>10
  <1>12. W(f[n]) + W(g[n]) <= h[n]
    BY <1>11 DEF T
  <1> QED
    BY <1>1, <1>2, <1>3, <1>12 DEF W

\* An entry more.
LEMMA WaitsOne ==
    ASSUME NEW ps \in Seq(OutgoingCommands), NEW e \in EntriesOf(ps)
    PROVE  /\ <<e>> \in Seq(EntriesOf(ps))
           /\ WaitsOf(<<e>>, ps) = ps[e.packet].length
  <1>1. <<e>> = Append(<<>>, e) /\ <<>> \in Seq(EntriesOf(ps))
    OBVIOUS
  <1>2. WaitsOf(Append(<<>>, e), ps) = WaitsOf(<<>>, ps) + ps[e.packet].length
    BY <1>1, WaitsSteps
  <1>3. WaitsOf(<<>>, ps) = 0
    BY WaitsSteps
  <1>4. ps[e.packet].length \in Nat
    BY EntryWaits
  <1> QED
    BY <1>1, <1>2, <1>3, <1>4

\* An entry inserted.
LEMMA WaitsInserted ==
    ASSUME NEW ps \in Seq(OutgoingCommands), NEW s \in Seq(EntriesOf(ps)),
           NEW e \in EntriesOf(ps), NEW k \in 1 .. Len(s) + 1
    PROVE  /\ InsertAt(s, k, e) \in Seq(EntriesOf(ps))
           /\ WaitsOf(InsertAt(s, k, e), ps) = WaitsOf(s, ps) + ps[e.packet].length
  <1> DEFINE E == EntriesOf(ps)
             W(u) == WaitsOf(u, ps)
  <1> PICK a : a = SubSeq(s, 1, k - 1)
    OBVIOUS
  <1> PICK b : b = SubSeq(s, k, Len(s))
    OBVIOUS
  <1> PICK c : c = <<e>>
    OBVIOUS
  <1> PICK d : d = a \o c
    OBVIOUS
  <1> PICK w : w = ps[e.packet].length
    OBVIOUS
  <1>a. s \in Seq(E) /\ Len(s) \in Nat /\ k \in Nat /\ k >= 1 /\ k <= Len(s) + 1
    OBVIOUS
  <1> HIDE DEF E, W
  <1>1. a \in Seq(E) /\ b \in Seq(E) /\ s = a \o b
    <2>1. a \in Seq(E) /\ b \in Seq(E)
      BY <1>a
    <2>a. /\ Len(a) = k - 1 /\ Len(b) = Len(s) - k + 1
          /\ \A i \in 1 .. k - 1 : a[i] = s[i]
          /\ \A i \in 1 .. Len(s) - k + 1 : b[i] = s[k + i - 1]
      BY <1>a
    <2> PICK x : x = a \o b
      OBVIOUS
    <2> PICK n : n = Len(s)
      OBVIOUS
    <2>b. /\ x \in Seq(E) /\ Len(x) = Len(a) + Len(b)
          /\ \A i \in 1 .. Len(a) + Len(b) :
                x[i] = IF i <= Len(a) THEN a[i] ELSE b[i - Len(a)]
      BY <2>1, ConcatProperties
    <2>c. /\ n \in Nat /\ Len(a) = k - 1 /\ Len(b) = n - k + 1
          /\ k \in Nat /\ k >= 1 /\ k <= n + 1
          /\ \A i \in 1 .. k - 1 : a[i] = s[i]
          /\ \A i \in 1 .. n - k + 1 : b[i] = s[k + i - 1]
      BY <1>a, <2>a
    <2>e. Len(a) + Len(b) = n
      BY ONLY <2>c
    <2>f. /\ Len(x) = n
          /\ \A i \in 1 .. n : x[i] = IF i <= k - 1 THEN a[i] ELSE b[i - (k - 1)]
      BY ONLY <2>b, <2>c, <2>e
    <2>d. ASSUME NEW i \in 1 .. n
          PROVE  s[i] = x[i]
      <3>1. i \in Nat /\ i >= 1 /\ i <= n
        BY ONLY <2>c, i \in 1 .. n
      <3>2. CASE i <= k - 1
        <4>1. i \in 1 .. k - 1 /\ x[i] = a[i]
          BY ONLY <2>c, <2>f, <3>1, <3>2, i \in 1 .. n
        <4> QED
          BY ONLY <2>c, <4>1
      <3>3. CASE ~(i <= k - 1)
        <4>1. i - (k - 1) \in 1 .. n - k + 1 /\ k + (i - (k - 1)) - 1 = i
          BY ONLY <2>c, <3>1, <3>3
        <4>2. x[i] = b[i - (k - 1)]
          BY ONLY <2>f, <3>3, i \in 1 .. n
        <4>3. b[i - (k - 1)] = s[k + (i - (k - 1)) - 1]
          BY ONLY <2>c, <4>1
        <4> QED
          BY ONLY <4>1, <4>2, <4>3
      <3> QED
        BY <3>2, <3>3
    <2>2. s = a \o b
      <3>1. x \in Seq(E) /\ Len(x) = Len(s) /\ \A i \in 1 .. Len(s) : s[i] = x[i]
        BY <2>b, <2>f, <2>d
      <3>2. s = x
        BY ONLY <1>a, <3>1, SeqEqual
      <3> QED
        BY <3>2
    <2> QED
      BY <2>1, <2>2
  <1>2. c \in Seq(E) /\ W(c) = w
    BY WaitsOne DEF E, W
  <1>3. d \in Seq(E) /\ d \o b \in Seq(E)
    <2>1. a \o c \in Seq(E)
      BY <1>1, <1>2, ConcatProperties
    <2>2. d \o b \in Seq(E)
      BY <1>1, <2>1, ConcatProperties
    <2> QED
      BY <2>1, <2>2
  <1>4. InsertAt(s, k, e) = d \o b
    BY DEF InsertAt
  <1>5. W(d) = W(a) + W(c)
    BY <1>1, <1>2, WaitsBoth DEF E, W
  <1>6. W(d \o b) = W(d) + W(b)
    BY <1>1, <1>3, WaitsBoth DEF E, W
  <1>7. W(s) = W(a) + W(b)
    BY <1>1, WaitsBoth DEF E, W
  <1>8. \A u \in Seq(E) : W(u) \in Nat
    BY WaitsSteps DEF E, W
  <1>9. W(d \o b) = W(s) + w
    <2>1. W(a) \in Nat /\ W(b) \in Nat /\ W(c) \in Nat /\ w \in Nat
      BY <1>1, <1>2, <1>8
    <2> QED
      BY <1>2, <1>5, <1>6, <1>7, <2>1
  <1> QED
    BY <1>3, <1>4, <1>9 DEF W, E

\* The first entry taken away.
LEMMA WaitsTail ==
    ASSUME NEW ps \in Seq(OutgoingCommands), NEW s \in Seq(EntriesOf(ps)), s # <<>>
    PROVE  /\ Tail(s) \in Seq(EntriesOf(ps)) /\ Head(s) \in EntriesOf(ps)
           /\ WaitsOf(s, ps) = ps[Head(s).packet].length + WaitsOf(Tail(s), ps)
  <1> PICK e : e = Head(s)
    OBVIOUS
  <1> PICK c : c = <<e>>
    OBVIOUS
  <1> PICK t : t = Tail(s)
    OBVIOUS
  <1>1. e \in EntriesOf(ps) /\ t \in Seq(EntriesOf(ps)) /\ s = <<e>> \o t
    BY HeadTailProperties
  <1>2. c \in Seq(EntriesOf(ps)) /\ WaitsOf(c, ps) = ps[e.packet].length
    BY <1>1, WaitsOne
  <1>3. WaitsOf(c \o t, ps) = WaitsOf(c, ps) + WaitsOf(t, ps)
    BY <1>1, <1>2, WaitsBoth
  <1> QED
    BY <1>1, <1>2, <1>3

-----------------------------------------------------------------------------
(***************************************************************************)
(* The dispatch of unreliable commands.                                    *)
(***************************************************************************)

\* What the loop makes of an entry when the reliable number is r: it passes, or
\* is kept for its missing fragments, or ends the loop; all others are dropped.
Current(e, r) == ~IsUnsequenced(e) /\ Reliable(e) = r
Complete(e, r) == Current(e, r) /\ e.fragmentsRemaining = 0
Passes(e, r) == IsUnsequenced(e) \/ Complete(e, r)
Lacks(e, r) == Current(e, r) /\ e.fragmentsRemaining # 0
Ahead(e, r) == ~IsUnsequenced(e) /\ Reliable(e) # r /\ InWindow(Reliable(e), r)

\* v is the number of the last complete one of the first b entries, u if none is.
LastNumber(list, r, u, v, b) ==
    \/ v = u /\ \A k \in 1 .. b : ~Complete(list[k], r)
    \/ \E c \in 1 .. b :
          /\ Complete(list[c], r) /\ v = Unreliable(list[c])
          /\ \A k \in c + 1 .. b : ~Complete(list[k], r)

Loops ==
    [start : Nat, dropped : Nat, moved : SUBSET Nat, end : Nat,
     unreliable : 0 .. MaximumUnreliable]

\* The loop has gone past the first b entries.
LoopInv(list, r, u, v, b) ==
    /\ v \in Loops
    /\ \A k \in 1 .. b : ~Ahead(list[k], r)
    /\ v.start \in 1 .. b + 1 /\ \A k \in v.start .. b : Passes(list[k], r)
    /\ v.moved = {k \in 1 .. v.start - 1 : Passes(list[k], r)}
    /\ v.dropped \in 1 .. v.start
    /\ \A k \in v.dropped .. v.start - 1 : Lacks(list[k], r)
    /\ b <= 2 /\ (\A k \in 1 .. b : Lacks(list[k], r)) => v.dropped = 1
    /\ LastNumber(list, r, u, v.unreliable, b)

\* It ends before the place end, the places M pass, and those from `from` on that
\* do not are left.
Dispatches(list, r, u, end, from, M, v) ==
    /\ end \in 1 .. Len(list) + 1 /\ (end <= Len(list) => Ahead(list[end], r))
    /\ \A k \in 1 .. end - 1 : ~Ahead(list[k], r)
    /\ M = {k \in 1 .. end - 1 : Passes(list[k], r)}
    /\ from \in 1 .. end /\ \A k \in from .. end - 1 : Lacks(list[k], r)
    /\ end <= 3 /\ (\A k \in 1 .. end - 1 : Lacks(list[k], r)) => from = 1
    /\ LastNumber(list, r, u, v, end - 1)

Left(list, from, M) == {k \in from .. Len(list) : k \notin M}

\* A command of the channel is one of the packets.
LEMMA EntryPacket ==
    ASSUME packets \in Seq(OutgoingCommands), NEW e \in EntriesOf(packets)
    PROVE  /\ e.packet \in DOMAIN packets /\ packets[e.packet] \in OutgoingCommands
           /\ Unreliable(e) \in 0 .. MaximumUnreliable
           /\ e.fragmentsRemaining \in Nat
  <1>1. e \in IncomingCommands /\ e.packet \in DOMAIN packets
    BY DEF EntriesOf
  <1>2. packets[e.packet] \in OutgoingCommands
    BY <1>1
  <1>3. packets[e.packet].unreliable \in 0 .. MaximumUnreliable
    BY <1>2 DEF OutgoingCommands
  <1>4. Unreliable(e) \in 0 .. MaximumUnreliable
    BY <1>3, Constants DEF Unreliable
  <1> QED
    BY <1>1, <1>2, <1>4 DEF IncomingCommands

\* What a step of the loop does.
LEMMA DispatchSteps ==
    ASSUME packets \in Seq(OutgoingCommands), NEW list \in Seq(EntriesOf(packets)),
           NEW r, NEW v \in Loops, NEW i \in 1 .. Len(list),
           NEW w, w = DispatchOne(list, r, v, i)
    PROVE  /\ w \in Loops
           /\ IsUnsequenced(list[i]) => w = v
           /\ ~Ahead(list[i], r) => w.end = v.end
           /\ Passes(list[i], r) =>
                 w.start = v.start /\ w.dropped = v.dropped /\ w.moved = v.moved
           /\ ~Complete(list[i], r) => w.unreliable = v.unreliable
           /\ Complete(list[i], r) => w.unreliable = Unreliable(list[i])
           /\ Ahead(list[i], r) =>
                 /\ w.end = i
                 /\ w.start = v.start /\ w.dropped = v.dropped /\ w.moved = v.moved
           /\ ~Ahead(list[i], r) /\ ~Passes(list[i], r) =>
                 /\ w.start = i + 1 /\ w.moved = Moved(v, i)
                 /\ w.dropped = IF Lacks(list[i], r) THEN DroppedAtIncomplete(v, i)
                                ELSE i + 1
  <1> PICK e : e = list[i]
    OBVIOUS
  <1>1. e \in EntriesOf(packets)
    OBVIOUS
  <1>2. Unreliable(e) \in 0 .. MaximumUnreliable
    BY <1>1, EntryPacket
  <1>3. /\ v.start \in Nat /\ v.dropped \in Nat /\ v.moved \in SUBSET Nat
        /\ v.end \in Nat /\ v.unreliable \in 0 .. MaximumUnreliable
    BY DEF Loops
  <1>4. i \in Nat /\ i - 1 \in Nat /\ i + 1 \in Nat
    OBVIOUS
  <1>5. Moved(v, i) \in SUBSET Nat
    BY <1>3, <1>4 DEF Moved
  <1>6. DroppedAtIncomplete(v, i) \in Nat
    BY <1>3, <1>4 DEF DroppedAtIncomplete
  <1>7. CASE IsUnsequenced(e)
    <2>1. w = v
      BY <1>7 DEF DispatchOne
    <2>2. Passes(e, r) /\ ~Complete(e, r) /\ ~Ahead(e, r)
      BY <1>7 DEF Passes, Complete, Current, Ahead
    <2> QED
      BY <2>1, <2>2
  <1>8. CASE Complete(e, r)
    <2>0. ~IsUnsequenced(e) /\ Reliable(e) = r /\ e.fragmentsRemaining = 0
      BY <1>8 DEF Complete, Current
    <2>1. w = [v EXCEPT !.unreliable = Unreliable(e)]
      BY <2>0 DEF DispatchOne
    <2>2. Passes(e, r) /\ ~Ahead(e, r)
      BY <1>8, <2>0 DEF Passes, Ahead
    <2>3. /\ w \in Loops /\ w.unreliable = Unreliable(e) /\ w.start = v.start
          /\ w.end = v.end /\ w.dropped = v.dropped /\ w.moved = v.moved
      BY ONLY <2>1, <1>2, v \in Loops DEF Loops
    <2> QED
      BY <2>0, <2>2, <2>3, <1>8
  <1>9. CASE Lacks(e, r)
    <2>0. ~IsUnsequenced(e) /\ Reliable(e) = r /\ e.fragmentsRemaining # 0
      BY <1>9 DEF Lacks, Current
    <2>1. w = [v EXCEPT !.moved = Moved(v, i), !.dropped = DroppedAtIncomplete(v, i),
                        !.start = i + 1]
      BY <2>0 DEF DispatchOne
    <2>2. ~Passes(e, r) /\ ~Ahead(e, r) /\ ~Complete(e, r)
      BY <2>0 DEF Passes, Ahead, Complete
    <2>3. /\ w \in Loops /\ w.unreliable = v.unreliable /\ w.start = i + 1
          /\ w.end = v.end /\ w.moved = Moved(v, i)
          /\ w.dropped = DroppedAtIncomplete(v, i)
      BY ONLY <2>1, <1>4, <1>5, <1>6, v \in Loops DEF Loops
    <2> QED
      BY <2>0, <2>2, <2>3, <1>9
  <1>10. CASE Ahead(e, r)
    <2>0. /\ ~IsUnsequenced(e) /\ Reliable(e) # r
          /\ InWindow(Reliable(e), r)
      BY <1>10 DEF Ahead
    <2>1. w = [v EXCEPT !.end = i]
      BY <2>0 DEF DispatchOne
    <2>2. ~Passes(e, r) /\ ~Complete(e, r)
      BY <2>0 DEF Passes, Complete, Current
    <2>3. /\ w \in Loops /\ w.unreliable = v.unreliable /\ w.start = v.start
          /\ w.end = i /\ w.dropped = v.dropped /\ w.moved = v.moved
      BY ONLY <2>1, <1>4, v \in Loops DEF Loops
    <2> QED
      BY <2>0, <2>2, <2>3, <1>10
  <1>11. CASE ~IsUnsequenced(e) /\ ~Current(e, r) /\ ~Ahead(e, r)
    <2>0. /\ ~IsUnsequenced(e) /\ Reliable(e) # r
          /\ ~InWindow(Reliable(e), r)
      BY <1>11 DEF Ahead, Current
    <2>1. w = [v EXCEPT !.moved = Moved(v, i), !.dropped = i + 1, !.start = i + 1]
      BY <2>0 DEF DispatchOne
    <2>2. ~Passes(e, r) /\ ~Complete(e, r) /\ ~Lacks(e, r)
      BY <2>0 DEF Passes, Complete, Current, Lacks
    <2>3. /\ w \in Loops /\ w.unreliable = v.unreliable /\ w.start = i + 1
          /\ w.end = v.end /\ w.moved = Moved(v, i) /\ w.dropped = i + 1
      BY ONLY <2>1, <1>4, <1>5, v \in Loops DEF Loops
    <2> QED
      BY <2>0, <2>2, <2>3, <1>11
  <1> QED
    BY <1>7, <1>8, <1>9, <1>10, <1>11 DEF Complete, Lacks

\* An entry more does not change the number of the last complete one, unless it
\* is complete.
LEMMA LastNumberStep ==
    ASSUME NEW list, NEW r, NEW u, NEW v, NEW w, NEW i \in Nat \ {0},
           LastNumber(list, r, u, v, i - 1),
           Complete(list[i], r) => w = Unreliable(list[i]),
           ~Complete(list[i], r) => w = v
    PROVE  LastNumber(list, r, u, w, i)
  <1>1. CASE Complete(list[i], r)
    <2>1. i \in 1 .. i /\ i + 1 .. i = {}
      OBVIOUS
    <2> QED
      BY <1>1, <2>1 DEF LastNumber
  <1>2. CASE ~Complete(list[i], r)
    <2>1. w = v
      BY <1>2
    <2>2. ASSUME v = u, \A k \in 1 .. i - 1 : ~Complete(list[k], r)
          PROVE  LastNumber(list, r, u, w, i)
      <3>1. \A k \in 1 .. i : k = i \/ k \in 1 .. i - 1
        OBVIOUS
      <3>2. \A k \in 1 .. i : ~Complete(list[k], r)
        BY <1>2, <2>2, <3>1
      <3> QED
        BY <2>1, <2>2, <3>2 DEF LastNumber
    <2>3. ASSUME NEW c \in 1 .. i - 1, Complete(list[c], r), v = Unreliable(list[c]),
                 \A k \in c + 1 .. i - 1 : ~Complete(list[k], r)
          PROVE  LastNumber(list, r, u, w, i)
      <3>1. c \in 1 .. i /\ \A k \in c + 1 .. i : k = i \/ k \in c + 1 .. i - 1
        OBVIOUS
      <3>2. \A k \in c + 1 .. i : ~Complete(list[k], r)
        BY <1>2, <2>3, <3>1
      <3> QED
        BY <2>1, <2>3, <3>1, <3>2 DEF LastNumber
    <2> QED
      BY <2>2, <2>3 DEF LastNumber
  <1> QED
    BY <1>1, <1>2

\* The loop goes past an entry.
LEMMA LoopPasses ==
    ASSUME packets \in Seq(OutgoingCommands), NEW list \in Seq(EntriesOf(packets)),
           NEW r, NEW u, NEW v, NEW i \in 1 .. Len(list),
           LoopInv(list, r, u, v, i - 1),
           NEW w, w = DispatchOne(list, r, v, i), ~Ahead(list[i], r)
    PROVE  LoopInv(list, r, u, w, i) /\ w.end = v.end
  <1>1. /\ v \in Loops
        /\ v.start \in 1 .. i - 1 + 1 /\ \A k \in v.start .. i - 1 : Passes(list[k], r)
        /\ v.moved = {k \in 1 .. v.start - 1 : Passes(list[k], r)}
        /\ v.dropped \in 1 .. v.start
        /\ \A k \in v.dropped .. v.start - 1 : Lacks(list[k], r)
        /\ i - 1 <= 2 /\ (\A k \in 1 .. i - 1 : Lacks(list[k], r)) => v.dropped = 1
        /\ LastNumber(list, r, u, v.unreliable, i - 1)
    BY DEF LoopInv
  <1>2. i \in Nat /\ i >= 1 /\ i \in Nat \ {0}
    OBVIOUS
  <1>a. \A k \in 1 .. i : ~Ahead(list[k], r)
    <2>1. \A k \in 1 .. i : k = i \/ k \in 1 .. i - 1
      BY <1>2
    <2> QED
      BY <2>1 DEF LoopInv
  <1>3. /\ w \in Loops /\ w.end = v.end
        /\ Passes(list[i], r) =>
              w.start = v.start /\ w.dropped = v.dropped /\ w.moved = v.moved
        /\ ~Complete(list[i], r) => w.unreliable = v.unreliable
        /\ Complete(list[i], r) => w.unreliable = Unreliable(list[i])
        /\ ~Passes(list[i], r) =>
                 /\ w.start = i + 1 /\ w.moved = Moved(v, i)
                 /\ w.dropped = IF Lacks(list[i], r) THEN DroppedAtIncomplete(v, i)
                                ELSE i + 1
    BY <1>1, DispatchSteps
  <1>4. LastNumber(list, r, u, w.unreliable, i)
    <2> PICK x : x = w.unreliable
      OBVIOUS
    <2> PICK y : y = v.unreliable
      OBVIOUS
    <2> QED
      BY <1>1, <1>2, <1>3, LastNumberStep
  <1>5. \A e : Lacks(e, r) => ~Passes(e, r)
    BY DEF Lacks, Passes, Complete, Current
  <1> PICK s : s = v.start
    OBVIOUS
  <1> PICK d : d = v.dropped
    OBVIOUS
  <1>6. /\ s \in 1 .. i /\ s \in Nat /\ d \in 1 .. s /\ d \in Nat
        /\ \A k \in s .. i - 1 : Passes(list[k], r)
        /\ v.moved = {k \in 1 .. s - 1 : Passes(list[k], r)}
        /\ \A k \in d .. s - 1 : Lacks(list[k], r)
        /\ i - 1 <= 2 /\ (\A k \in 1 .. i - 1 : Lacks(list[k], r)) => d = 1
    BY <1>1, <1>2
  <1>7. CASE Passes(list[i], r)
    <2>1. w.start = s /\ w.dropped = d /\ w.moved = v.moved
      BY <1>3, <1>7
    <2>2. s \in 1 .. i + 1 /\ \A k \in s .. i : k = i \/ k \in s .. i - 1
      BY <1>2, <1>6
    <2>3. \A k \in s .. i : Passes(list[k], r)
      BY <1>6, <1>7, <2>2
    <2>4. ~\A k \in 1 .. i : Lacks(list[k], r)
      BY <1>2, <1>5, <1>7
    <2> QED
      BY <1>3, <1>4, <1>6, <1>a, <2>1, <2>2, <2>3, <2>4 DEF LoopInv
  <1>8. CASE ~Passes(list[i], r)
    <2>1. w.start = i + 1 /\ w.moved = Moved(v, i)
      BY <1>3, <1>8
    <2>2. w.start \in 1 .. i + 1 /\ i + 1 .. i = {} /\ (i + 1) - 1 = i
      BY <1>2, <2>1
    <2>3. w.moved = {k \in 1 .. i : Passes(list[k], r)}
      <3>1. w.moved = IF s = i THEN v.moved ELSE v.moved \cup s .. i - 1
        BY <2>1 DEF Moved
      <3>2. v.moved \cup s .. i - 1 = {k \in 1 .. i : Passes(list[k], r)}
        <4>1. \A k \in 1 .. i : k \in 1 .. s - 1 \/ k \in s .. i - 1 \/ k = i
          BY <1>2, <1>6
        <4>2. 1 .. s - 1 \subseteq 1 .. i /\ s .. i - 1 \subseteq 1 .. i
          BY <1>2, <1>6
        <4> QED
          BY <1>6, <1>8, <4>1, <4>2
      <3>3. s = i => s .. i - 1 = {}
        BY <1>2
      <3> QED
        BY <3>1, <3>2, <3>3
    <2>4. CASE Lacks(list[i], r)
      <3>1. w.dropped = IF s # i THEN i ELSE IF d # i THEN i - 1 ELSE d
        BY <1>3, <1>8, <2>4 DEF DroppedAtIncomplete
      <3>2. w.dropped \in 1 .. i + 1
        BY <1>2, <1>6, <3>1
      <3>3. ASSUME NEW k \in w.dropped .. i PROVE Lacks(list[k], r)
        <4>1. CASE k = i
          BY <2>4, <4>1
        <4>2. CASE k # i
          <5>1. s = i /\ d # i /\ k = i - 1
            BY <1>2, <1>6, <3>1, <4>2
          <5>2. k \in d .. s - 1
            BY <1>2, <1>6, <5>1
          <5> QED
            BY <1>6, <5>2
        <4> QED
          BY <4>1, <4>2
      <3>4. ASSUME i <= 2, \A k \in 1 .. i : Lacks(list[k], r)
            PROVE  w.dropped = 1
        <4>1. \A k \in 1 .. i - 1 : k \in 1 .. i
          OBVIOUS
        <4>2. d = 1
          BY <1>2, <1>6, <3>4, <4>1
        <4>3. s = i
          <5>1. SUFFICES ASSUME s # i PROVE FALSE
            OBVIOUS
          <5>2. s \in s .. i - 1 /\ s \in 1 .. i
            BY <1>2, <1>6, <5>1
          <5> QED
            BY <1>5, <1>6, <3>4, <5>2
        <4> QED
          BY <1>2, <3>1, <3>4, <4>2, <4>3
      <3> QED
        BY <1>3, <1>4, <1>a, <2>1, <2>2, <2>3, <3>2, <3>3, <3>4 DEF LoopInv
    <2>5. CASE ~Lacks(list[i], r)
      <3>1. w.dropped = i + 1 /\ w.dropped \in 1 .. i + 1
        BY <1>2, <1>3, <1>8, <2>5
      <3>2. ~\A k \in 1 .. i : Lacks(list[k], r)
        BY <1>2, <2>5
      <3> QED
        BY <1>3, <1>4, <1>a, <2>1, <2>2, <2>3, <3>1, <3>2 DEF LoopInv
    <2> QED
      BY <2>4, <2>5
  <1> QED
    BY <1>3, <1>7, <1>8

\* f is what the loop has at each place of the list.
DispatchedBy(f, list, r, u) ==
    /\ f \in [0 .. Len(list) -> Loops]
    /\ f[0] = [start |-> 1, dropped |-> 1, moved |-> {}, end |-> Len(list) + 1,
               unreliable |-> u]
    /\ \A i \in 1 .. Len(list) :
          f[i] = IF f[i - 1].end < i THEN f[i - 1]
                 ELSE DispatchOne(list, r, f[i - 1], i)

\* What is picked then.
DispatchedAs(list, v) ==
    LET moved == Moved(v, v.end)
        left == {i \in DroppedAtEnd(v) .. Len(list) : i \notin moved}
    IN  [moved |-> Picked(list, moved), left |-> Picked(list, left),
         unreliable |-> v.unreliable]

\* There is such an f.
LEMMA DispatchedLoop ==
    ASSUME packets \in Seq(OutgoingCommands), NEW list \in Seq(EntriesOf(packets)),
           NEW r, NEW u \in 0 .. MaximumUnreliable
    PROVE  \E f : /\ DispatchedBy(f, list, r, u)
                  /\ DispatchedFrom(list, r, u) = DispatchedAs(list, f[Len(list)])
  <1> DEFINE n == Len(list)
             V == Loops
             v0 == [start |-> 1, dropped |-> 1, moved |-> {}, end |-> n + 1,
                    unreliable |-> u]
             Step(i, v) == IF v.end < i THEN v ELSE DispatchOne(list, r, v, i)
             P(f) == f = [i \in 0 .. n |-> IF i = 0 THEN v0 ELSE Step(i, f[i - 1])]
             g == [i \in 1 .. n |-> [v \in V |-> Step(i, v)]]
  <1>1. n \in Nat /\ v0 \in V /\ \A i \in 1 .. n : \A v \in V : Step(i, v) \in V
    <2>1. n \in Nat /\ n + 1 \in Nat
      OBVIOUS
    <2>2. v0 \in V
      BY <2>1 DEF Loops
    <2>3. ASSUME NEW i \in 1 .. n, NEW v \in V PROVE Step(i, v) \in V
      <3> PICK w : w = DispatchOne(list, r, v, i)
        OBVIOUS
      <3>1. w \in V
        BY DispatchSteps
      <3> QED
        BY <3>1
    <2> QED
      BY <2>1, <2>2, <2>3
  <1>2. DispatchedFrom(list, r, u) = DispatchedAs(list, (CHOOSE f : P(f))[n])
    BY DEF DispatchedFrom, DispatchedAs
  <1> HIDE DEF n, V, v0, Step
  <1>3. \A i \in 1 .. n : \A v \in V : g[i][v] = Step(i, v)
    OBVIOUS
  <1>4. g \in [1 .. n -> [V -> V]]
    BY <1>1
  <1> HIDE DEF g
  <1>a. n \in Nat /\ v0 \in V
    BY <1>1
  <1>b. g \in Steps(n, V)
    BY <1>4 DEF Steps
  <1>c. \E f : Runs(f, n, V, v0, g)
    BY ONLY <1>a, <1>b, Loop
  <1>5. PICK f \in [0 .. n -> V] :
           f[0] = v0 /\ \A i \in 1 .. n : f[i] = g[i][f[i - 1]]
    BY <1>c DEF Runs
  <1>6. \A i \in 1 .. n : f[i - 1] \in V /\ f[i] = Step(i, f[i - 1])
    BY <1>1, <1>3, <1>5
  <1>7. P(f)
    <2>1. f = [i \in 0 .. n |-> f[i]]
      BY <1>5
    <2>2. \A i \in 0 .. n : f[i] = IF i = 0 THEN v0 ELSE Step(i, f[i - 1])
      BY <1>1, <1>5, <1>6
    <2> QED
      BY <2>1, <2>2
  <1>8. PICK h : h = (CHOOSE ff : P(ff))
    OBVIOUS
  <1>9. P(h)
    BY <1>7, <1>8
  <1>10. h[0] = v0 /\ \A i \in 1 .. n : h[i] = Step(i, h[i - 1])
    BY <1>1, <1>9
  <1>11. \A i \in 0 .. n : h[i] \in V
    <2> DEFINE T == {i \in 0 .. n : h[i] \in V}
    <2>1. 0 \in T
      BY <1>1, <1>10
    <2>2. ASSUME NEW i \in 1 .. n, i - 1 \in T PROVE i \in T
      BY <1>1, <1>10, <2>2
    <2> HIDE DEF T
    <2>3. \A i \in 0 .. n : i \in T
      BY ONLY <1>1, <2>1, <2>2, Stepwise
    <2> QED
      BY <2>3 DEF T
  <1>12. h = [i \in 0 .. n |-> h[i]]
    BY <1>9
  <1>13. h \in [0 .. n -> V]
    BY <1>11, <1>12
  <1>14. DispatchedFrom(list, r, u) = DispatchedAs(list, h[n])
    BY <1>2, <1>8
  <1>15. DispatchedBy(h, list, r, u)
    BY <1>10, <1>13 DEF n, V, v0, Step, DispatchedBy
  <1> QED
    BY <1>14, <1>15 DEF n

\* What the loop comes to.
LEMMA DispatchedIs ==
    ASSUME packets \in Seq(OutgoingCommands), NEW list \in Seq(EntriesOf(packets)),
           NEW r, NEW u \in 0 .. MaximumUnreliable,
           NEW res, res = DispatchedFrom(list, r, u)
    PROVE  \E end, from, M :
              /\ Dispatches(list, r, u, end, from, M, res.unreliable)
              /\ res.moved = Picked(list, M)
              /\ res.left = Picked(list, Left(list, from, M))
              /\ res.unreliable \in 0 .. MaximumUnreliable
  <1>1. PICK f : /\ DispatchedBy(f, list, r, u)
                 /\ res = DispatchedAs(list, f[Len(list)])
    BY DispatchedLoop
  <1> PICK n : n = Len(list)
    OBVIOUS
  <1>2. n \in Nat /\ n + 1 \in Nat
    OBVIOUS
  <1>3. /\ f \in [0 .. n -> Loops]
        /\ f[0] = [start |-> 1, dropped |-> 1, moved |-> {}, end |-> n + 1,
                   unreliable |-> u]
        /\ \A i \in 1 .. n :
              f[i] = IF f[i - 1].end < i THEN f[i - 1]
                     ELSE DispatchOne(list, r, f[i - 1], i)
    BY <1>1 DEF DispatchedBy
  <1> DEFINE Ended(v, i, b) ==
                 \/ v.end = n + 1 /\ b = i
                 \/ v.end \in 1 .. i /\ b = v.end - 1 /\ Ahead(list[v.end], r)
             G(i) == \E b \in 0 .. i : Ended(f[i], i, b) /\ LoopInv(list, r, u, f[i], b)
             T == {i \in 0 .. n : G(i)}
  <1>4. 0 \in T
    <2> PICK v : v = f[0]
      OBVIOUS
    <2>a. v = [start |-> 1, dropped |-> 1, moved |-> {}, end |-> n + 1,
               unreliable |-> u]
      BY <1>3
    <2>1. /\ v.start = 1 /\ v.dropped = 1 /\ v.moved = {} /\ v.end = n + 1
          /\ v.unreliable = u /\ v \in Loops
      BY <1>2, <2>a DEF Loops
    <2>2. 1 .. 0 = {} /\ 1 \in 1 .. 0 + 1 /\ 1 \in 1 .. 1 /\ 1 - 1 = 0
      OBVIOUS
    <2>3. LastNumber(list, r, u, v.unreliable, 0)
      BY <2>1, <2>2 DEF LastNumber
    <2>4. LoopInv(list, r, u, v, 0)
      BY <2>1, <2>2, <2>3 DEF LoopInv
    <2>5. Ended(v, 0, 0) /\ 0 \in 0 .. 0 /\ 0 \in 0 .. n
      BY <1>2, <2>1
    <2> HIDE DEF Ended
    <2> QED
      BY <2>4, <2>5
  <1>5. ASSUME NEW i \in 1 .. n, i - 1 \in T PROVE i \in T
    <2> PICK v : v = f[i - 1]
      OBVIOUS
    <2>1. i \in Nat /\ i >= 1 /\ i <= n /\ i \in 0 .. n /\ i - 1 \in 0 .. n
      BY <1>2
    <2>2. PICK b \in 0 .. i - 1 : Ended(v, i - 1, b) /\ LoopInv(list, r, u, v, b)
      BY <1>5
    <2>3. v \in Loops /\ v.end \in Nat
      BY <1>3, <2>1 DEF Loops
    <2>4. f[i] = IF v.end < i THEN v ELSE DispatchOne(list, r, v, i)
      BY <1>3
    <2>5. CASE v.end < i
      <3>1. f[i] = v /\ v.end \in 1 .. i /\ b = v.end - 1 /\ Ahead(list[v.end], r)
        BY <1>2, <2>1, <2>2, <2>4, <2>5
      <3>2. b \in 0 .. i
        BY <2>1
      <3> QED
        BY <2>1, <2>2, <3>1, <3>2
    <2>6. CASE ~(v.end < i)
      <3>1. v.end = n + 1 /\ b = i - 1
        BY <1>2, <2>1, <2>2, <2>3, <2>6
      <3> PICK w : w = DispatchOne(list, r, v, i)
        OBVIOUS
      <3>2. f[i] = w
        BY <2>4, <2>6
      <3>3. CASE ~Ahead(list[i], r)
        <4>1. LoopInv(list, r, u, w, i) /\ w.end = n + 1
          BY <2>2, <3>1, <3>3, LoopPasses
        <4>2. Ended(w, i, i) /\ i \in 0 .. i
          BY <2>1, <4>1
        <4> HIDE DEF Ended
        <4> QED
          BY <2>1, <3>2, <4>1, <4>2
      <3>4. CASE Ahead(list[i], r)
        <4>1. /\ w \in Loops /\ w.end = i /\ w.start = v.start
              /\ w.dropped = v.dropped /\ w.moved = v.moved
          BY <2>3, <3>4, DispatchSteps
        <4>2. ~Complete(list[i], r)
          BY <3>4 DEF Ahead, Complete, Current
        <4>3. w.unreliable = v.unreliable
          BY <2>3, <4>2, DispatchSteps
        <4>4. LoopInv(list, r, u, w, b)
          BY <2>2, <4>1, <4>3 DEF LoopInv
        <4>5. Ended(w, i, b) /\ b \in 0 .. i
          BY <2>1, <3>1, <3>4, <4>1
        <4> HIDE DEF Ended
        <4> QED
          BY <2>1, <3>2, <4>4, <4>5
      <3> QED
        BY <3>3, <3>4
    <2> QED
      BY <2>5, <2>6
  <1> HIDE DEF T
  <1>6. \A i \in 0 .. n : i \in T
    BY ONLY <1>2, <1>4, <1>5, Stepwise
  <1>7. n \in T
    BY <1>2, <1>6
  <1> PICK v : v = f[n]
    OBVIOUS
  <1>8. PICK b \in 0 .. n : Ended(v, n, b) /\ LoopInv(list, r, u, v, b)
    BY <1>7 DEF T
  <1> PICK end : end = v.end
    OBVIOUS
  <1>9. /\ end \in 1 .. n + 1 /\ b = end - 1 /\ end \in Nat /\ b + 1 = end
        /\ end <= n => Ahead(list[end], r)
    BY <1>2, <1>8
  <1> PICK from : from = DroppedAtEnd(v)
    OBVIOUS
  <1> PICK M : M = Moved(v, end)
    OBVIOUS
  <1>10. /\ v \in Loops /\ \A k \in 1 .. end - 1 : ~Ahead(list[k], r)
         /\ v.start \in 1 .. end /\ \A k \in v.start .. end - 1 : Passes(list[k], r)
         /\ v.moved = {k \in 1 .. v.start - 1 : Passes(list[k], r)}
         /\ v.dropped \in 1 .. v.start
         /\ \A k \in v.dropped .. v.start - 1 : Lacks(list[k], r)
         /\ end - 1 <= 2 /\ (\A k \in 1 .. end - 1 : Lacks(list[k], r)) => v.dropped = 1
         /\ LastNumber(list, r, u, v.unreliable, end - 1)
    BY <1>8, <1>9 DEF LoopInv
  <1>a. v.start \in Nat /\ v.dropped \in Nat
    BY <1>10 DEF Loops
  <1>11. from = IF v.start # end THEN end ELSE v.dropped
    BY DEF DroppedAtEnd
  <1>12. from \in 1 .. end /\ \A k \in from .. end - 1 : Lacks(list[k], r)
    <2>1. CASE v.start = end
      BY <1>10, <1>11, <2>1
    <2>2. CASE v.start # end
      <3>1. from = end /\ end .. end - 1 = {}
        BY <1>9, <1>11, <2>2
      <3> QED
        BY <1>9, <3>1
    <2> QED
      BY <2>1, <2>2
  <1>13. M = {k \in 1 .. end - 1 : Passes(list[k], r)}
    <2> PICK s : s = v.start
      OBVIOUS
    <2>1. /\ s \in 1 .. end /\ s \in Nat
          /\ v.moved = {k \in 1 .. s - 1 : Passes(list[k], r)}
      BY <1>10, <1>a
    <2>2. M = IF s = end THEN v.moved ELSE v.moved \cup s .. end - 1
      BY DEF Moved
    <2>3. \A k \in 1 .. end - 1 : k \in 1 .. s - 1 \/ k \in s .. end - 1
      BY <1>9, <2>1
    <2>4. 1 .. s - 1 \subseteq 1 .. end - 1 /\ s .. end - 1 \subseteq 1 .. end - 1
      BY <1>9, <2>1, SMTT(40)
    <2>5. s = end => s .. end - 1 = {}
      BY <1>9
    <2>6. \A k \in s .. end - 1 : Passes(list[k], r)
      BY <1>10
    <2>7. v.moved \cup s .. end - 1 = {k \in 1 .. end - 1 : Passes(list[k], r)}
      BY <2>1, <2>3, <2>4, <2>6
    <2> QED
      BY <2>2, <2>5, <2>7
  <1>14. ASSUME end <= 3, \A k \in 1 .. end - 1 : Lacks(list[k], r)
         PROVE  from = 1
    <2>1. v.dropped = 1
      BY <1>9, <1>10, <1>14
    <2>2. v.start = end
      <3>1. SUFFICES ASSUME v.start # end PROVE FALSE
        OBVIOUS
      <3>2. v.start \in v.start .. end - 1 /\ v.start \in 1 .. end - 1
        BY <1>9, <1>10, <1>a, <3>1
      <3>3. Passes(list[v.start], r) /\ Lacks(list[v.start], r)
        BY <1>10, <1>14, <3>2
      <3> QED
        BY <3>3 DEF Lacks, Passes, Complete, Current
    <2> QED
      BY <1>11, <2>1, <2>2
  <1>15. /\ res.moved = Picked(list, M) /\ res.unreliable = v.unreliable
         /\ res.left = Picked(list, Left(list, from, M))
    BY <1>1 DEF DispatchedAs, Left
  <1>16. Dispatches(list, r, u, end, from, M, v.unreliable)
    BY <1>9, <1>10, <1>12, <1>13, <1>14 DEF Dispatches
  <1>17. v.unreliable \in 0 .. MaximumUnreliable
    BY <1>10 DEF Loops
  <1> QED
    BY <1>15, <1>16, <1>17

-----------------------------------------------------------------------------
(***************************************************************************)
(* What is sent.                                                           *)
(***************************************************************************)

\* What follows what follows.
LEMMA FollowsOn ==
    ASSUME NEW a \in OutgoingCommands, NEW b \in OutgoingCommands,
           NEW c \in OutgoingCommands, NEW d \in Nat, NEW e \in Nat,
           Follows(a, b, d), Follows(b, c, e)
    PROVE  Follows(a, c, d + e)
  <1>1. /\ a.group \in Nat /\ b.group \in Nat /\ c.group \in Nat
        /\ a.reliable \in Nat /\ b.reliable \in Nat /\ c.reliable \in Nat
        /\ a.unreliable \in Nat /\ b.unreliable \in Nat /\ c.unreliable \in Nat
    BY Constants DEF OutgoingCommands
  <1>2. /\ a.group <= b.group /\ b.group <= a.group + d
        /\ a.reliable <= b.reliable
        /\ a.reliable = b.reliable => a.unreliable <= b.unreliable
    BY DEF Follows
  <1>3. /\ b.group <= c.group /\ c.group <= b.group + e
        /\ c.kind = "SEND_UNSEQUENCED" => b.group < c.group
        /\ b.reliable <= c.reliable
        /\ c.kind = "SEND_RELIABLE" => b.reliable < c.reliable
        /\ b.reliable = c.reliable =>
              /\ b.unreliable <= c.unreliable
              /\ c.kind \in Unreliables => b.unreliable < c.unreliable
    BY DEF Follows
  <1>4. /\ a.group <= c.group /\ c.group <= a.group + (d + e)
        /\ c.kind = "SEND_UNSEQUENCED" => a.group < c.group
    BY <1>1, <1>2, <1>3
  <1>5. /\ a.reliable <= c.reliable
        /\ c.kind = "SEND_RELIABLE" => a.reliable < c.reliable
    BY <1>1, <1>2, <1>3
  <1>6. ASSUME a.reliable = c.reliable
        PROVE  /\ a.unreliable <= c.unreliable
               /\ c.kind \in Unreliables => a.unreliable < c.unreliable
    <2>1. a.reliable = b.reliable /\ b.reliable = c.reliable
      BY <1>1, <1>2, <1>3, <1>6
    <2> QED
      BY <1>1, <1>2, <1>3, <2>1
  <1> QED
    BY <1>4, <1>5, <1>6 DEF Follows

\* The numbers of the sender.
LEMMA OutgoingIs ==
    ASSUME packets \in Seq(OutgoingCommands)
    PROVE  /\ Outgoing.reliable \in Nat /\ Outgoing.group \in Nat
           /\ Outgoing.unreliable \in 0 .. MaximumUnreliable
           /\ packets # <<>> => /\ Outgoing = packets[Len(packets)]
                                /\ Len(packets) \in DOMAIN packets
                                /\ Outgoing \in OutgoingCommands
           /\ packets = <<>> => Outgoing.reliable = 0
  <1>1. CASE packets = <<>>
    BY <1>1, Constants DEF Outgoing
  <1>2. CASE packets # <<>>
    <2>1. /\ Len(packets) \in DOMAIN packets
          /\ packets[Len(packets)] \in OutgoingCommands
      BY <1>2
    <2>2. Outgoing = packets[Len(packets)]
      BY <1>2 DEF Outgoing
    <2> QED
      BY <1>2, <2>1, <2>2 DEF OutgoingCommands
  <1> QED
    BY <1>1, <1>2

\* A packet gets a number that follows all before.
LEMMA NumberedIs ==
    ASSUME packets \in Seq(OutgoingCommands),
           NEW packet \in [flags : Flags, length : Nat \ {0}],
           NEW new, new = Numbered(KindOf(packet, Outgoing.unreliable), packet.length)
    PROVE  /\ new \in OutgoingCommands /\ Formed(new) /\ new.length = packet.length
           /\ new.reliable <= Outgoing.reliable + packet.length
           /\ packets # <<>> => Follows(Outgoing, new, 1)
  <1> PICK kind : kind = KindOf(packet, Outgoing.unreliable)
    OBVIOUS
  <1> PICK length : length = packet.length
    OBVIOUS
  <1> PICK o : o = Outgoing
    OBVIOUS
  <1>1. length \in Nat /\ length >= 1
    OBVIOUS
  <1>2. /\ o.reliable \in Nat /\ o.group \in Nat
        /\ o.unreliable \in Nat /\ o.unreliable <= MaximumUnreliable
    BY OutgoingIs, Constants
  <1>3. /\ kind \in Kinds
        /\ kind \in Unreliables => o.unreliable < MaximumUnreliable
        /\ kind \in {"SEND_UNRELIABLE", "SEND_UNSEQUENCED"} => length = 1
        /\ kind = "SEND_UNRELIABLE_FRAGMENT" => length > 1
    BY DEF KindOf, Kinds, Unreliables
  <1>4. new = [kind |-> kind, length |-> length,
               reliable |-> o.reliable + (IF kind = "SEND_RELIABLE" THEN length ELSE 0),
               unreliable |-> CASE kind = "SEND_RELIABLE" -> 0
                                [] kind = "SEND_UNSEQUENCED" -> o.unreliable
                                [] OTHER -> o.unreliable + 1,
               group |-> o.group + (IF kind = "SEND_UNSEQUENCED" THEN 1 ELSE 0)]
    BY DEF Numbered
  <1>a. /\ new.kind = kind /\ new.length = length
        /\ new.reliable = o.reliable + (IF kind = "SEND_RELIABLE" THEN length ELSE 0)
        /\ new.group = o.group + (IF kind = "SEND_UNSEQUENCED" THEN 1 ELSE 0)
        /\ kind = "SEND_RELIABLE" => new.unreliable = 0
        /\ kind = "SEND_UNSEQUENCED" => new.unreliable = o.unreliable
        /\ kind \in Unreliables => new.unreliable = o.unreliable + 1
    BY <1>3, <1>4 DEF Kinds, Unreliables
  <1>b. \/ kind = "SEND_RELIABLE" /\ kind \notin Unreliables
        \/ kind = "SEND_UNSEQUENCED" /\ kind \notin Unreliables
        \/ /\ kind \in Unreliables
           /\ kind # "SEND_RELIABLE" /\ kind # "SEND_UNSEQUENCED"
    BY <1>3 DEF Kinds, Unreliables
  <1>5. /\ new.reliable \in Nat /\ new.group \in Nat
        /\ new.unreliable \in 0 .. MaximumUnreliable
    BY <1>1, <1>2, <1>3, <1>a, <1>b, Constants
  <1>6. new \in OutgoingCommands
    <2>1. new = [kind |-> new.kind, length |-> new.length, reliable |-> new.reliable,
                 unreliable |-> new.unreliable, group |-> new.group]
      BY <1>4
    <2>2. new.kind \in Kinds /\ new.length \in Nat \ {0}
      BY <1>1, <1>3, <1>a
    <2> QED
      BY <1>5, <2>1, <2>2 DEF OutgoingCommands
  <1>7. Formed(new)
    <2>1. kind = "SEND_RELIABLE" => new.unreliable = 0 /\ new.reliable > 0
      BY <1>1, <1>2, <1>a
    <2>2. kind \in Unreliables => new.unreliable > 0
      BY <1>2, <1>a
    <2>3. /\ kind \in {"SEND_UNRELIABLE", "SEND_UNSEQUENCED"} => new.length = 1
          /\ kind = "SEND_UNRELIABLE_FRAGMENT" => new.length > 1
      BY <1>3, <1>a
    <2> QED
      BY <1>a, <2>1, <2>2, <2>3 DEF Formed
  <1>8. new.reliable <= o.reliable + length
    BY <1>1, <1>2, <1>a
  <1>9. Follows(o, new, 1)
    <2>1. /\ o.group <= new.group /\ new.group <= o.group + 1
          /\ new.kind = "SEND_UNSEQUENCED" => o.group < new.group
      BY <1>2, <1>a
    <2>2. /\ o.reliable <= new.reliable
          /\ new.kind = "SEND_RELIABLE" => o.reliable < new.reliable
      BY <1>1, <1>2, <1>a
    <2>3. ASSUME o.reliable = new.reliable
          PROVE  /\ o.unreliable <= new.unreliable
                 /\ new.kind \in Unreliables => o.unreliable < new.unreliable
      <3>1. kind # "SEND_RELIABLE"
        BY <1>1, <1>2, <1>a, <2>3
      <3> QED
        BY <1>2, <1>a, <1>b, <3>1
    <2> QED
      BY <2>1, <2>2, <2>3 DEF Follows
  <1> QED
    BY <1>6, <1>7, <1>8, <1>9, <1>a

\* What Send appends.
LEMMA SendIs ==
    ASSUME PacketsInv, Send
    PROVE  \E new \in OutgoingCommands :
              /\ packets' = Append(packets, new)
              /\ Formed(new) /\ new.length = workload[Len(packets) + 1].length
              /\ Len(packets) + 1 \in DOMAIN workload
              /\ new.reliable <= Outgoing.reliable + new.length
              /\ packets # <<>> => Follows(Outgoing, new, 1)
  <1>1. packets \in Seq(OutgoingCommands) /\ workload \in Workloads
    BY DEF PacketsInv
  <1>2. workload \in Seq([flags : Flags, length : Nat \ {0}])
    BY <1>1, BoundsAssumption
  <1>3. Len(packets) + 1 \in DOMAIN workload
    BY <1>1, <1>2 DEF Send
  <1> PICK packet : packet = workload[Len(packets) + 1]
    OBVIOUS
  <1>4. packet \in [flags : Flags, length : Nat \ {0}]
    <2> PICK R : R = [flags : Flags, length : Nat \ {0}]
      OBVIOUS
    <2>1. workload \in Seq(R)
      BY <1>2
    <2>2. packet \in R
      BY ONLY <1>3, <2>1, packet = workload[Len(packets) + 1], ElementOfSeq,
         LenProperties
    <2> QED
      BY <2>2
  <1> PICK new : new = Numbered(KindOf(packet, Outgoing.unreliable), packet.length)
    OBVIOUS
  <1>5. packets' = Append(packets, new)
    BY DEF Send
  <1>6. /\ new \in OutgoingCommands /\ Formed(new) /\ new.length = packet.length
        /\ new.reliable <= Outgoing.reliable + packet.length
        /\ packets # <<>> => Follows(Outgoing, new, 1)
    BY <1>1, <1>4, NumberedIs
  <1> QED
    BY <1>3, <1>5, <1>6

\* The packets that were there.
LEMMA Sent ==
    ASSUME PacketsInv, Send
    PROVE  /\ Len(packets) \in Nat /\ DOMAIN packets = 1 .. Len(packets)
           /\ Len(packets') = Len(packets) + 1
           /\ DOMAIN packets' = 1 .. Len(packets) + 1
           /\ packets' \in Seq(OutgoingCommands)
           /\ \A p \in DOMAIN packets : p \in DOMAIN packets' /\ packets'[p] = packets[p]
  <1>1. packets \in Seq(OutgoingCommands)
    BY DEF PacketsInv
  <1>2. PICK new \in OutgoingCommands : packets' = Append(packets, new)
    BY SendIs
  <1> PICK t : t = Append(packets, new)
    OBVIOUS
  <1>3. /\ Len(packets) \in Nat /\ DOMAIN packets = 1 .. Len(packets)
        /\ t \in Seq(OutgoingCommands) /\ Len(t) = Len(packets) + 1
        /\ DOMAIN t = 1 .. Len(packets) + 1
        /\ \A p \in 1 .. Len(packets) : p \in DOMAIN t /\ t[p] = packets[p]
    BY <1>1
  <1> QED
    BY <1>2, <1>3

\* The numbers of the packets are what they should be, whatever is sent.
LEMMA PacketsNext ==
    ASSUME PacketsInv, [Next]_vars
    PROVE  PacketsInv'
  <1>1. /\ workload \in Workloads /\ packets \in Seq(OutgoingCommands)
        /\ Len(packets) <= Len(workload)
        /\ \A p \in DOMAIN packets : Formed(packets[p])
        /\ \A p, q \in DOMAIN packets :
              p < q => Follows(packets[p], packets[q], q - p)
    BY DEF PacketsInv
  <1>2. ASSUME UNCHANGED <<workload, packets>> PROVE PacketsInv'
    BY <1>2 DEF PacketsInv
  <1>3. ASSUME Send PROVE PacketsInv'
    <2> PICK n : n = Len(packets)
      OBVIOUS
    <2>1. /\ n \in Nat /\ DOMAIN packets = 1 .. n
          /\ Len(packets') = n + 1 /\ DOMAIN packets' = 1 .. n + 1
          /\ packets' \in Seq(OutgoingCommands)
          /\ \A p \in 1 .. n : packets'[p] = packets[p]
      BY <1>3, Sent
    <2>2. PICK new \in OutgoingCommands :
             /\ packets' = Append(packets, new) /\ Formed(new)
             /\ packets # <<>> => Follows(Outgoing, new, 1)
      BY <1>3, SendIs
    <2>3. packets'[n + 1] = new
      BY <1>1, <2>2
    <2>4. workload' = workload /\ Len(packets) < Len(workload)
      BY <1>3 DEF Send
    <2>5. Len(packets') <= Len(workload')
      <3>1. workload \in Seq([flags : Flags, length : Nat \ {0}])
        BY <1>1, BoundsAssumption
      <3>2. Len(workload) \in Nat
        BY <3>1
      <3> QED
        BY <2>1, <2>4, <3>2
    <2>6. \A p \in 1 .. n + 1 : p = n + 1 \/ p \in 1 .. n
      BY <2>1
    <2>7. ASSUME NEW p \in 1 .. n + 1 PROVE Formed(packets'[p])
      <3>1. CASE p = n + 1
        BY <2>2, <2>3, <3>1
      <3>2. CASE p \in 1 .. n
        <4>1. packets'[p] = packets[p] /\ p \in DOMAIN packets
          BY <2>1, <3>2
        <4> QED
          BY <1>1, <4>1
      <3> QED
        BY <2>6, <3>1, <3>2
    <2>8. ASSUME NEW p \in 1 .. n + 1, NEW q \in 1 .. n + 1, p < q
          PROVE  Follows(packets'[p], packets'[q], q - p)
      <3>0. p \in 1 .. n
        BY <2>1, <2>8
      <3>1. CASE q \in 1 .. n
        BY <1>1, <2>1, <2>8, <3>0, <3>1
      <3>2. CASE q = n + 1
        <4>1. packets # <<>> /\ n \in 1 .. n
          BY <1>1, <2>1, <3>0
        <4>2. Outgoing = packets[n] /\ Follows(packets[n], new, 1)
          BY <2>2, <4>1 DEF Outgoing
        <4>3. CASE p = n
          <5>1. q - p = 1
            BY <2>1, <3>2, <4>3
          <5> QED
            BY <2>1, <2>3, <3>2, <4>1, <4>2, <4>3, <5>1
        <4>4. CASE p # n
          <5>1. p < n /\ n - p \in Nat /\ (n - p) + 1 = q - p
            BY <2>1, <3>0, <3>2, <4>4
          <5>2. Follows(packets[p], packets[n], n - p)
            BY <1>1, <2>1, <3>0, <4>1, <5>1
          <5>3. packets[p] \in OutgoingCommands /\ packets[n] \in OutgoingCommands
            BY <1>1, <2>1, <3>0, <4>1
          <5>4. Follows(packets[p], new, (n - p) + 1)
            BY <4>2, <5>1, <5>2, <5>3, FollowsOn
          <5> QED
            BY <2>1, <2>3, <3>0, <3>2, <5>1, <5>4
        <4> QED
          BY <4>3, <4>4
      <3> QED
        BY <2>6, <3>1, <3>2
    <2> QED
      BY <1>1, <2>1, <2>4, <2>5, <2>7, <2>8 DEF PacketsInv
  <1>4. ASSUME NEW p \in DOMAIN packets,
               \/ ReceiveReliable(p) \/ ReceiveUnreliable(p) \/ ReceiveUnsequenced(p)
               \/ \E fragment \in 1 .. packets[p].length :
                     \/ ReceiveFirstFragment(p, fragment)
                     \/ ReceiveFurtherFragment(p, fragment)
        PROVE  UNCHANGED <<workload, packets>>
    BY <1>4 DEF ReceiveReliable, ReceiveUnreliable, ReceiveUnsequenced,
       ReceiveFirstFragment, ReceiveFurtherFragment
  <1>5. ASSUME Receive PROVE UNCHANGED <<workload, packets>>
    BY <1>5 DEF Receive
  <1>6. ASSUME UNCHANGED vars PROVE UNCHANGED <<workload, packets>>
    BY <1>6 DEF vars
  <1> QED
    BY <1>2, <1>3, <1>4, <1>5, <1>6 DEF Next

-----------------------------------------------------------------------------
(***************************************************************************)
(* What the lists hold.                                                    *)
(***************************************************************************)

\* What a list may hold while a packet is dispatched: an unsequenced one is first.
Dispatchable(list) ==
    /\ list \in Seq(IncomingCommands)
    /\ \A i \in DOMAIN list :
          /\ EntryOf(list[i], packets)
          /\ \/ packets[list[i].packet].kind \in Unreliables
             \/ i = 1 /\ IsUnsequenced(list[i]) /\ list[i].fragmentsRemaining = 0

\* Such lists are lists of entries.
LEMMA ListsAre ==
    /\ \A list : Waiting(list) =>
          Dispatchable(list) /\ list \in Seq(EntriesOf(packets))
    /\ \A list : Dispatchable(list) => list \in Seq(EntriesOf(packets))
    /\ \A list : Done(list) => list \in Seq(EntriesOf(packets))
    /\ Waiting(<<>>) /\ Done(<<>>)
  <1>1. ASSUME NEW list \in Seq(IncomingCommands),
               \A i \in DOMAIN list : EntryOf(list[i], packets)
        PROVE  list \in Seq(EntriesOf(packets))
    <2>1. \A i \in DOMAIN list : list[i] \in EntriesOf(packets)
      BY <1>1 DEF EntryOf, EntriesOf
    <2> PICK E : E = EntriesOf(packets)
      OBVIOUS
    <2>2. Len(list) \in Nat /\ list \in [1 .. Len(list) -> IncomingCommands]
      BY LenProperties
    <2>3. list \in [1 .. Len(list) -> E]
      BY <2>1, <2>2
    <2> QED
      BY <2>2, <2>3, SeqDef
  <1>2. \A list : Waiting(list) => Dispatchable(list)
    BY DEF Waiting, Dispatchable
  <1>3. \A list : Dispatchable(list) =>
           /\ list \in Seq(IncomingCommands)
           /\ \A i \in DOMAIN list : EntryOf(list[i], packets)
    BY DEF Dispatchable
  <1>4. \A list : Done(list) =>
           /\ list \in Seq(IncomingCommands)
           /\ \A i \in DOMAIN list : EntryOf(list[i], packets)
    BY DEF Done
  <1>5. Waiting(<<>>) /\ Done(<<>>)
    <2>1. <<>> \in Seq(IncomingCommands) /\ DOMAIN <<>> = {}
      OBVIOUS
    <2> QED
      BY <2>1 DEF Waiting, Done
  <1> QED
    BY <1>1, <1>2, <1>3, <1>4, <1>5

\* What is ready, and what follows it.
LEMMA DoneBoth ==
    ASSUME NEW s, NEW t, Done(s), Done(t)
    PROVE  Done(s \o t)
  <1> PICK x : x = s \o t
    OBVIOUS
  <1>1. s \in Seq(IncomingCommands) /\ t \in Seq(IncomingCommands)
    BY DEF Done
  <1>2. /\ x \in Seq(IncomingCommands) /\ DOMAIN x = 1 .. Len(s) + Len(t)
        /\ \A i \in 1 .. Len(s) + Len(t) :
              x[i] = IF i <= Len(s) THEN s[i] ELSE t[i - Len(s)]
    <2>1. /\ s \o t \in Seq(IncomingCommands) /\ Len(s \o t) = Len(s) + Len(t)
          /\ \A i \in 1 .. Len(s) + Len(t) :
                (s \o t)[i] = IF i <= Len(s) THEN s[i] ELSE t[i - Len(s)]
      BY <1>1, ConcatProperties
    <2>2. /\ x \in Seq(IncomingCommands) /\ Len(x) = Len(s) + Len(t)
          /\ \A i \in 1 .. Len(s) + Len(t) :
                x[i] = IF i <= Len(s) THEN s[i] ELSE t[i - Len(s)]
      BY <2>1
    <2> QED
      BY <2>2, LenProperties
  <1>3. Len(s) \in Nat /\ Len(t) \in Nat
    BY <1>1, LenProperties
  <1>4. ASSUME NEW i \in DOMAIN x
        PROVE  EntryOf(x[i], packets) /\ x[i].fragmentsRemaining = 0
    <2>1. i \in Nat /\ i >= 1 /\ i <= Len(s) + Len(t)
      BY <1>2, <1>3, <1>4
    <2>2. CASE i <= Len(s)
      <3>1. i \in DOMAIN s /\ x[i] = s[i]
        BY <1>1, <1>2, <1>3, <2>1, <2>2, LenProperties
      <3> QED
        BY <3>1 DEF Done
    <2>3. CASE ~(i <= Len(s))
      <3>1. i - Len(s) \in DOMAIN t
        BY <1>1, <1>3, <2>1, <2>3, LenProperties
      <3>2. x[i] = t[i - Len(s)]
        BY <1>2, <2>3
      <3> QED
        BY <3>1, <3>2 DEF Done
    <2> QED
      BY <2>2, <2>3
  <1>5. Done(x)
    BY <1>2, <1>4 DEF Done
  <1> QED
    BY <1>5

\* What the dispatch leaves and what it moves.
LEMMA DispatchKeeps ==
    ASSUME packets \in Seq(OutgoingCommands), NEW list, Dispatchable(list),
           NEW r, NEW u \in 0 .. MaximumUnreliable,
           NEW res, res = DispatchedFrom(list, r, u)
    PROVE  /\ Waiting(res.left) /\ Done(res.moved)
           /\ res.unreliable \in 0 .. MaximumUnreliable
           /\ Waits(res.left) + Waits(res.moved) <= Waits(list)
  <1>1. list \in Seq(EntriesOf(packets))
    BY ListsAre
  <1>2. PICK end, from, M :
           /\ Dispatches(list, r, u, end, from, M, res.unreliable)
           /\ res.moved = Picked(list, M)
           /\ res.left = Picked(list, Left(list, from, M))
           /\ res.unreliable \in 0 .. MaximumUnreliable
    BY <1>1, DispatchedIs
  <1> PICK L : L = Left(list, from, M)
    OBVIOUS
  <1> PICK moved : moved = Picked(list, M)
    OBVIOUS
  <1> PICK left : left = Picked(list, L)
    OBVIOUS
  <1>3. /\ list \in Seq(IncomingCommands)
        /\ \A i \in DOMAIN list :
              /\ EntryOf(list[i], packets)
              /\ \/ packets[list[i].packet].kind \in Unreliables
                 \/ i = 1 /\ IsUnsequenced(list[i]) /\ list[i].fragmentsRemaining = 0
    BY DEF Dispatchable
  <1>4. /\ moved \in Seq(IncomingCommands)
        /\ \A k \in DOMAIN moved : \E i \in DOMAIN list : i \in M /\ moved[k] = list[i]
    BY <1>3, PickedEntries
  <1>5. /\ left \in Seq(IncomingCommands)
        /\ \A k \in DOMAIN left : \E i \in DOMAIN list : i \in L /\ left[k] = list[i]
    BY <1>3, PickedEntries
  <1>6. DOMAIN list = 1 .. Len(list) /\ Len(list) \in Nat
    BY <1>3, LenProperties
  <1>7. /\ end \in 1 .. Len(list) + 1 /\ (end <= Len(list) => Ahead(list[end], r))
        /\ M = {k \in 1 .. end - 1 : Passes(list[k], r)}
    BY <1>2 DEF Dispatches
  <1>8. Done(moved)
    <2>1. ASSUME NEW i \in DOMAIN list, i \in M
          PROVE  list[i].fragmentsRemaining = 0
      <3>1. Passes(list[i], r)
        BY <1>7, <2>1
      <3>2. \/ packets[list[i].packet].kind \in Unreliables
            \/ IsUnsequenced(list[i]) /\ list[i].fragmentsRemaining = 0
        BY <1>3
      <3>3. packets[list[i].packet].kind \in Unreliables => ~IsUnsequenced(list[i])
        BY DEF Unreliables, IsUnsequenced
      <3> QED
        BY <3>1, <3>2, <3>3 DEF Passes, Complete
    <2>2. \A k \in DOMAIN moved :
             EntryOf(moved[k], packets) /\ moved[k].fragmentsRemaining = 0
      BY <1>3, <1>4, <2>1
    <2> QED
      BY <1>4, <2>2 DEF Done
  <1>9. Waiting(left)
    <2>1. ASSUME NEW i \in DOMAIN list, i \in L
          PROVE  packets[list[i].packet].kind \in Unreliables
      <3>1. SUFFICES ASSUME i = 1, IsUnsequenced(list[1]) PROVE FALSE
        BY <1>3
      <3>2. Passes(list[1], r) /\ ~Ahead(list[1], r)
        BY <3>1 DEF Passes, Ahead
      <3>3. end # 1
        BY <1>6, <1>7, <3>1, <3>2
      <3>4. 1 \in 1 .. end - 1
        BY <1>6, <1>7, <3>3
      <3>5. 1 \in M
        BY <1>7, <3>2, <3>4
      <3> QED
        BY <2>1, <3>1, <3>5 DEF Left
    <2>2. \A k \in DOMAIN left :
             EntryOf(left[k], packets) /\ packets[left[k].packet].kind \in Unreliables
      BY <1>3, <1>5, <2>1
    <2> QED
      BY <1>5, <2>2 DEF Waiting
  <1>10. Waits(left) + Waits(moved) <= Waits(list)
    <2>1. L \cap M = {}
      BY DEF Left
    <2>2. WaitsOf(Picked(list, L), packets) + WaitsOf(Picked(list, M), packets)
             <= WaitsOf(list, packets)
      BY <1>1, <2>1, WaitsParts
    <2> QED
      BY <2>2, WaitsIs
  <1>11. res.left = left /\ res.moved = moved
    BY <1>2
  <1> QED
    BY <1>2, <1>8, <1>9, <1>10, <1>11

\* What lists count, when they are lists of entries.
LEMMA WaitsAre ==
    ASSUME packets \in Seq(OutgoingCommands)
    PROVE  /\ \A s \in Seq(EntriesOf(packets)) : Waits(s) \in Nat
           /\ \A s, t \in Seq(EntriesOf(packets)) : Waits(s \o t) = Waits(s) + Waits(t)
           /\ \A e \in EntriesOf(packets) :
                 /\ Waits(<<e>>) = packets[e.packet].length
                 /\ <<e>> \in Seq(EntriesOf(packets))
  <1>1. \A s \in Seq(EntriesOf(packets)) : Waits(s) \in Nat
    BY WaitsSteps, WaitsIs
  <1>2. ASSUME NEW s \in Seq(EntriesOf(packets)), NEW t \in Seq(EntriesOf(packets))
        PROVE  Waits(s \o t) = Waits(s) + Waits(t)
    <2>1. WaitsOf(s \o t, packets) = WaitsOf(s, packets) + WaitsOf(t, packets)
      BY WaitsBoth
    <2> QED
      BY <2>1, WaitsIs
  <1>3. ASSUME NEW e \in EntriesOf(packets)
        PROVE  /\ Waits(<<e>>) = packets[e.packet].length
               /\ <<e>> \in Seq(EntriesOf(packets))
    BY WaitsOne, WaitsIs
  <1> QED
    BY <1>1, <1>2, <1>3

\* New data, some of it dispatched at once, and what the list then gives.
LEMMA ListsDispatched ==
    ASSUME PacketsInv, ListsInv, NEW list, Dispatchable(list), NEW next, Done(next),
           NEW d \in Nat, Waits(list) + Waits(next) <= Waits(commands) + d,
           NEW r, NEW u \in 0 .. MaximumUnreliable,
           NEW res, res = DispatchedFrom(list, r, u)
    PROVE  /\ Waiting(res.left) /\ Done(dispatched \o next \o res.moved)
           /\ res.unreliable \in 0 .. MaximumUnreliable
           /\ Waits(res.left) + Waits(dispatched \o next \o res.moved)
                 <= totalWaitingData + d
           /\ res.left \in Seq(EntriesOf(packets))
  <1>0. packets \in Seq(OutgoingCommands)
    BY DEF PacketsInv
  <1>1. /\ Waiting(res.left) /\ Done(res.moved)
        /\ res.unreliable \in 0 .. MaximumUnreliable
        /\ Waits(res.left) + Waits(res.moved) <= Waits(list)
    BY <1>0, DispatchKeeps
  <1>2. /\ Waiting(commands) /\ Done(dispatched) /\ totalWaitingData \in Nat
        /\ Waits(commands) + Waits(dispatched) <= totalWaitingData
    BY DEF ListsInv
  <1> PICK x : x = dispatched \o next
    OBVIOUS
  <1> PICK y : y = x \o res.moved
    OBVIOUS
  <1>3. Done(x) /\ Done(y)
    BY <1>1, <1>2, DoneBoth
  <1> DEFINE E == Seq(EntriesOf(packets))
  <1>4. /\ commands \in E /\ dispatched \in E /\ list \in E /\ next \in E
        /\ res.left \in E /\ res.moved \in E /\ x \in E
    BY <1>1, <1>2, <1>3, ListsAre
  <1>5. /\ \A s \in E : Waits(s) \in Nat
        /\ \A s, t \in E : Waits(s \o t) = Waits(s) + Waits(t)
    BY <1>0, WaitsAre
  <1> HIDE DEF E
  <1>6. /\ Waits(x) = Waits(dispatched) + Waits(next)
        /\ Waits(y) = Waits(x) + Waits(res.moved)
    BY <1>4, <1>5
  <1>7. /\ Waits(commands) \in Nat /\ Waits(dispatched) \in Nat /\ Waits(list) \in Nat
        /\ Waits(next) \in Nat /\ Waits(res.left) \in Nat /\ Waits(res.moved) \in Nat
    BY <1>4, <1>5
  <1>8. Waits(res.left) + Waits(y) <= totalWaitingData + d
    BY ONLY <1>1, <1>2, <1>6, <1>7, d \in Nat,
       Waits(list) + Waits(next) <= Waits(commands) + d
  <1> QED
    BY <1>1, <1>3, <1>4, <1>8 DEF E

\* A new entry of a packet with some of its fragments.
LEMMA EntryIs ==
    ASSUME packets \in Seq(OutgoingCommands), NEW p \in DOMAIN packets,
           NEW F \in SUBSET (1 .. packets[p].length),
           NEW e, e = Entry(p, F)
    PROVE  /\ e.packet = p /\ e.fragments = F /\ EntryOf(e, packets)
           /\ e \in IncomingCommands /\ e \in EntriesOf(packets)
           /\ F = 1 .. packets[p].length => e.fragmentsRemaining = 0
           /\ F = {} => e.fragmentsRemaining = packets[p].length
           /\ packets[p].length \in Nat \ {0} /\ p \in Nat \ {0}
  <1>1. packets[p] \in OutgoingCommands /\ p \in Nat \ {0}
    <2>1. DOMAIN packets = 1 .. Len(packets) /\ Len(packets) \in Nat
      OBVIOUS
    <2> QED
      BY <2>1
  <1>2. packets[p].length \in Nat \ {0}
    BY <1>1 DEF OutgoingCommands
  <1> PICK n : n = packets[p].length
    OBVIOUS
  <1>3. IsFiniteSet(1 .. n) /\ Cardinality(1 .. n) = n
    <2>1. n \in Int /\ 1 \in Int
      BY <1>2
    <2>2. /\ IsFiniteSet(1 .. n)
          /\ Cardinality(1 .. n) = IF 1 > n THEN 0 ELSE n - 1 + 1
      BY <2>1, FS_Interval
    <2> QED
      BY <1>2, <2>2
  <1>4. IsFiniteSet(F) /\ Cardinality(F) \in Nat /\ Cardinality(F) <= n
    BY <1>3, FS_Subset, FS_CardinalityType
  <1>5. e = [packet |-> p, fragments |-> F, fragmentsRemaining |-> n - Cardinality(F)]
    BY DEF Entry
  <1>6. n - Cardinality(F) \in Nat
    BY <1>2, <1>4
  <1>7. F \in SUBSET Nat
    BY <1>2
  <1>8. e \in IncomingCommands
    BY <1>1, <1>5, <1>6, <1>7 DEF IncomingCommands
  <1>9. /\ e.packet = p /\ e.fragments = F
        /\ e.fragmentsRemaining = n - Cardinality(F)
    BY <1>5
  <1>10. F = 1 .. n => e.fragmentsRemaining = 0
    BY <1>2, <1>3, <1>9
  <1>11. F = {} => e.fragmentsRemaining = n
    BY <1>2, <1>9, FS_EmptySet
  <1>12. EntryOf(e, packets) /\ e \in EntriesOf(packets)
    BY <1>8, <1>9 DEF EntryOf, EntriesOf
  <1> QED
    BY <1>1, <1>2, <1>8, <1>9, <1>10, <1>11, <1>12

\* A packet that is not in fragments.
LEMMA SingleIs ==
    ASSUME packets \in Seq(OutgoingCommands), NEW p \in DOMAIN packets,
           packets[p].length = 1, NEW e, e = Entry(p, {1})
    PROVE  /\ e.packet = p /\ EntryOf(e, packets) /\ e.fragmentsRemaining = 0
           /\ e \in IncomingCommands /\ e \in EntriesOf(packets)
  <1>1. {1} \in SUBSET (1 .. packets[p].length)
    OBVIOUS
  <1>2. /\ e.packet = p /\ e.fragments = {1} /\ EntryOf(e, packets)
        /\ e \in IncomingCommands /\ e \in EntriesOf(packets)
    BY <1>1, EntryIs
  <1>3. Cardinality({1}) = 1
    BY FS_Singleton
  <1>4. e.fragmentsRemaining = 1 - Cardinality({1})
    BY <1>2 DEF EntryOf
  <1> QED
    BY <1>2, <1>3, <1>4

\* A fragment more.
LEMMA CopiedIs ==
    ASSUME packets \in Seq(OutgoingCommands), NEW e, EntryOf(e, packets),
           NEW fragment \in 1 .. packets[e.packet].length,
           NEW c, c = Copied(e, fragment)
    PROVE  /\ EntryOf(c, packets) /\ c.packet = e.packet
           /\ c \in IncomingCommands /\ c \in EntriesOf(packets)
           /\ c = e \/ e.fragmentsRemaining = c.fragmentsRemaining + 1
  <1>1. /\ e \in IncomingCommands /\ e.packet \in DOMAIN packets
        /\ e.fragments \subseteq 1 .. packets[e.packet].length
        /\ e.fragmentsRemaining = packets[e.packet].length - Cardinality(e.fragments)
    BY DEF EntryOf
  <1>2. CASE fragment \in e.fragments
    BY <1>1, <1>2 DEF Copied, EntriesOf
  <1>3. CASE fragment \notin e.fragments
    <2> PICK n : n = packets[e.packet].length
      OBVIOUS
    <2> PICK F : F = e.fragments \cup {fragment}
      OBVIOUS
    <2>1. packets[e.packet] \in OutgoingCommands
      BY <1>1
    <2>2. n \in Nat /\ n >= 1
      BY <2>1 DEF OutgoingCommands
    <2>3. F \subseteq 1 .. n
      BY <1>1
    <2>4. IsFiniteSet(1 .. n) /\ Cardinality(1 .. n) = n
      <3>1. 1 \in Int /\ n \in Int
        BY <2>2
      <3>2. /\ IsFiniteSet(1 .. n)
            /\ Cardinality(1 .. n) = IF 1 > n THEN 0 ELSE n - 1 + 1
        BY <3>1, FS_Interval
      <3> QED
        BY <2>2, <3>2
    <2>5. IsFiniteSet(e.fragments) /\ Cardinality(e.fragments) \in Nat
      BY <1>1, <2>4, FS_Subset, FS_CardinalityType
    <2>6. Cardinality(F) = Cardinality(e.fragments) + 1
      BY <1>3, <2>5, FS_AddElement
    <2>7. Cardinality(F) <= n
      BY <2>3, <2>4, FS_Subset
    <2> PICK k : k = e.fragmentsRemaining
      OBVIOUS
    <2>8. k - 1 = n - Cardinality(F) /\ k - 1 \in Nat /\ k \in Nat
      BY <1>1, <2>2, <2>5, <2>6, <2>7
    <2>9. c = [e EXCEPT !.fragments = F, !.fragmentsRemaining = k - 1]
      BY <1>3 DEF Copied
    <2>10. F \in SUBSET Nat
      BY <2>2, <2>3
    <2>11. /\ c \in IncomingCommands /\ c.packet = e.packet /\ c.fragments = F
           /\ c.fragmentsRemaining = k - 1
      BY <1>1, <2>8, <2>9, <2>10 DEF IncomingCommands
    <2> QED
      BY <1>1, <2>3, <2>8, <2>11 DEF EntryOf, EntriesOf
  <1> QED
    BY <1>2, <1>3

\* The list with an entry inserted.
LEMMA InsertedDispatchable ==
    ASSUME packets \in Seq(OutgoingCommands), Waiting(commands),
           NEW k \in 1 .. Len(commands) + 1,
           NEW e \in IncomingCommands, EntryOf(e, packets),
           packets[e.packet].kind \in Unreliables,
           NEW list, list = InsertAt(commands, k, e)
    PROVE  /\ Dispatchable(list)
           /\ Waits(list) = Waits(commands) + packets[e.packet].length
           /\ DOMAIN list = 1 .. Len(commands) + 1 /\ Len(list) = Len(commands) + 1
           /\ list[k] = e
           /\ \A j \in 1 .. k - 1 : list[j] = commands[j]
           /\ \A j \in k .. Len(commands) : list[j + 1] = commands[j]
           /\ \A i \in DOMAIN list :
                 i = k \/ \E j \in DOMAIN commands :
                    list[i] = commands[j] /\ ((i = j /\ i < k) \/ (i = j + 1 /\ i > k))
  <1>1. /\ commands \in Seq(IncomingCommands)
        /\ \A i \in DOMAIN commands :
              /\ EntryOf(commands[i], packets)
              /\ packets[commands[i].packet].kind \in Unreliables
    BY DEF Waiting
  <1>2. /\ list \in Seq(IncomingCommands) /\ Len(list) = Len(commands) + 1
        /\ DOMAIN list = 1 .. Len(commands) + 1
        /\ \A j \in 1 .. k - 1 : list[j] = commands[j]
        /\ list[k] = e
        /\ \A j \in k .. Len(commands) : list[j + 1] = commands[j]
    BY <1>1, InsertedAt
  <1>3. DOMAIN commands = 1 .. Len(commands) /\ Len(commands) \in Nat
    BY <1>1, LenProperties
  <1>4. ASSUME NEW i \in DOMAIN list
        PROVE  i = k \/ \E j \in DOMAIN commands :
                    list[i] = commands[j] /\ ((i = j /\ i < k) \/ (i = j + 1 /\ i > k))
    <2>1. i \in Nat /\ i >= 1 /\ i <= Len(commands) + 1
      BY <1>2, <1>3
    <2>2. CASE i < k
      <3>1. i \in 1 .. k - 1 /\ i \in DOMAIN commands
        BY <1>3, <2>1, <2>2
      <3> QED
        BY <1>2, <2>2, <3>1
    <2>3. CASE i > k
      <3>1. /\ i - 1 \in k .. Len(commands) /\ i - 1 \in DOMAIN commands
            /\ (i - 1) + 1 = i
        BY <1>3, <2>1, <2>3
      <3>2. list[i] = commands[i - 1]
        BY <1>2, <3>1
      <3> QED
        BY <2>3, <3>1, <3>2
    <2> QED
      BY <1>3, <2>1, <2>2, <2>3
  <1>5. \A i \in DOMAIN list :
           EntryOf(list[i], packets) /\ packets[list[i].packet].kind \in Unreliables
    <2> SUFFICES ASSUME NEW i \in DOMAIN list
                 PROVE  /\ EntryOf(list[i], packets)
                        /\ packets[list[i].packet].kind \in Unreliables
      OBVIOUS
    <2>1. CASE i = k
      BY <1>2, <2>1
    <2>2. CASE i # k
      <3>1. PICK j \in DOMAIN commands : list[i] = commands[j]
        BY <1>4, <2>2
      <3> QED
        BY <1>1, <3>1
    <2> QED
      BY <2>1, <2>2
  <1>6. Dispatchable(list)
    BY <1>2, <1>5 DEF Dispatchable
  <1>7. Waits(list) = Waits(commands) + packets[e.packet].length
    <2>1. commands \in Seq(EntriesOf(packets)) /\ e \in EntriesOf(packets)
      BY ListsAre DEF EntryOf, EntriesOf
    <2>2. WaitsOf(InsertAt(commands, k, e), packets)
             = WaitsOf(commands, packets) + packets[e.packet].length
      BY <2>1, WaitsInserted
    <2> QED
      BY <2>2, WaitsIs
  <1> QED
    BY <1>2, <1>4, <1>6, <1>7

\* The places the search ends at.
LEMMA PositionIs ==
    ASSUME Waiting(commands), NEW reliable, NEW unreliable,
           NEW k, k = Position(reliable, unreliable)
    PROVE  /\ k \in 0 .. Len(commands) /\ k + 1 \in 1 .. Len(commands) + 1
           /\ k # 0 => k \in DOMAIN commands /\ ~Past(commands[k], reliable, unreliable)
           /\ \A i \in DOMAIN commands :
                 i > k => Past(commands[i], reliable, unreliable)
  <1> PICK n : n = Len(commands)
    OBVIOUS
  <1>1. n \in Nat /\ DOMAIN commands = 1 .. n
    BY LenProperties DEF Waiting
  <1> DEFINE T == {0} \cup {i \in DOMAIN commands :
                               ~Past(commands[i], reliable, unreliable)}
  <1>2. T \in SUBSET (0 .. n) /\ T # {}
    BY <1>1
  <1>3. k = Max(T)
    BY DEF Position
  <1>4. \A i \in T : i = 0 \/ (i \in DOMAIN commands
                                  /\ ~Past(commands[i], reliable, unreliable))
    OBVIOUS
  <1>5. \A i \in DOMAIN commands : ~Past(commands[i], reliable, unreliable) => i \in T
    OBVIOUS
  <1> HIDE DEF T
  <1>6. k \in T /\ \A y \in T : k >= y
    BY <1>1, <1>2, <1>3, Greatest
  <1>7. k \in 0 .. n
    BY <1>2, <1>6
  <1>8. ASSUME NEW i \in DOMAIN commands, i > k
        PROVE  Past(commands[i], reliable, unreliable)
    <2>1. i \in Nat /\ k \in Nat
      BY <1>1, <1>7
    <2>2. i \notin T
      BY <1>6, <1>8, <2>1
    <2> QED
      BY <1>5, <2>2
  <1> QED
    BY <1>1, <1>4, <1>6, <1>7, <1>8

\* What is dispatched with reliable packets.
LEMMA NextIs ==
    ASSUME PacketsInv, NEW A,
           NEW whole, whole = [q \in DOMAIN packets |-> Entry(q, 1 .. packets[q].length)],
           NEW next, next = Picked(whole, A)
    PROVE  /\ Done(next)
           /\ \A k \in DOMAIN next : next[k].packet \in A
           /\ \A k, l \in DOMAIN next : k < l => next[k].packet < next[l].packet
  <1>1. packets \in Seq(OutgoingCommands)
    BY DEF PacketsInv
  <1>2. Len(packets) \in Nat /\ DOMAIN packets = 1 .. Len(packets)
    BY <1>1
  <1>3. ASSUME NEW q \in DOMAIN packets
        PROVE  /\ whole[q] \in IncomingCommands /\ EntryOf(whole[q], packets)
               /\ whole[q].packet = q /\ whole[q].fragmentsRemaining = 0
    <2> PICK F : F = 1 .. packets[q].length
      OBVIOUS
    <2>1. whole[q] = Entry(q, F)
      OBVIOUS
    <2> QED
      BY <1>1, <2>1, EntryIs
  <1>4. DOMAIN whole = DOMAIN packets
    OBVIOUS
  <1>5. whole \in Seq(IncomingCommands)
    <2> PICK E : E = IncomingCommands
      OBVIOUS
    <2> PICK n : n = Len(packets)
      OBVIOUS
    <2> DEFINE w == [q \in 1 .. n |-> Entry(q, 1 .. packets[q].length)]
    <2>1. w = whole /\ n \in Nat
      BY <1>2
    <2>2. \A q \in 1 .. n : w[q] \in E
      BY <1>2, <1>3, <2>1
    <2>3. w \in [1 .. n -> E]
      BY <2>2
    <2> HIDE DEF w
    <2>4. w \in Seq(E)
      BY ONLY <2>1, <2>3, SeqDef
    <2> QED
      BY <2>1, <2>4
  <1>6. /\ next \in Seq(IncomingCommands)
        /\ \A k \in DOMAIN next : \E i \in DOMAIN whole : i \in A /\ next[k] = whole[i]
        /\ \A k, l \in DOMAIN next : k < l =>
              \E i, j \in DOMAIN whole :
                 i \in A /\ j \in A /\ i < j /\ next[k] = whole[i] /\ next[l] = whole[j]
    BY ONLY <1>5, next = Picked(whole, A), PickedEntries
  <1>7. Done(next)
    BY <1>3, <1>4, <1>6 DEF Done
  <1>8. ASSUME NEW k \in DOMAIN next PROVE next[k].packet \in A
    BY <1>3, <1>4, <1>6
  <1>9. ASSUME NEW k \in DOMAIN next, NEW l \in DOMAIN next, k < l
        PROVE  next[k].packet < next[l].packet
    <2>1. PICK i, j \in DOMAIN whole :
             i \in A /\ j \in A /\ i < j /\ next[k] = whole[i] /\ next[l] = whole[j]
      BY ONLY <1>6, <1>9, k \in DOMAIN next, l \in DOMAIN next
    <2> QED
      BY <1>3, <1>4, <2>1
  <1> QED
    BY <1>7, <1>8, <1>9

\* What a list counts does not change as more is sent.
LEMMA ListsSent ==
    ASSUME PacketsInv, Send, NEW list
    PROVE  /\ Waiting(list) => Waiting(list)' /\ Waits(list)' = Waits(list)
           /\ Done(list) => Done(list)' /\ Waits(list)' = Waits(list)
  <1>1. /\ packets \in Seq(OutgoingCommands) /\ packets' \in Seq(OutgoingCommands)
        /\ \A p \in DOMAIN packets : p \in DOMAIN packets' /\ packets'[p] = packets[p]
    BY Sent DEF PacketsInv
  <1>2. ASSUME NEW e, EntryOf(e, packets)
        PROVE  EntryOf(e, packets') /\ packets'[e.packet] = packets[e.packet]
    <2>1. e.packet \in DOMAIN packets
      BY <1>2 DEF EntryOf
    <2> QED
      BY <1>1, <1>2, <2>1 DEF EntryOf
  <1>3. ASSUME list \in Seq(IncomingCommands),
               \A i \in DOMAIN list : EntryOf(list[i], packets),
               list \in Seq(EntriesOf(packets)), list \in Seq(EntriesOf(packets'))
        PROVE  WaitsOf(list, packets) = WaitsOf(list, packets')
    <2>1. \A i \in 1 .. Len(list) :
             packets[list[i].packet].length = packets'[list[i].packet].length
      BY <1>2, <1>3, LenProperties
    <2> QED
      BY <1>1, <1>3, <2>1, WaitsSame
  <1>4. Waits(list)' = WaitsOf(list, packets')
    BY DEF Waits, WaitsOf
  <1>5. ASSUME list \in Seq(IncomingCommands),
               \A i \in DOMAIN list : EntryOf(list[i], packets)
        PROVE  list \in Seq(EntriesOf(packets)) /\ list \in Seq(EntriesOf(packets'))
    <2> PICK E : E = EntriesOf(packets)
      OBVIOUS
    <2> PICK F : F = EntriesOf(packets')
      OBVIOUS
    <2>1. Len(list) \in Nat /\ list \in [1 .. Len(list) -> IncomingCommands]
      BY <1>5, LenProperties
    <2>2. \A i \in 1 .. Len(list) : list[i] \in E
      BY <1>5, <2>1 DEF EntryOf, EntriesOf
    <2>3. \A i \in 1 .. Len(list) : list[i] \in F
      BY <1>2, <1>5, <2>1 DEF EntryOf, EntriesOf
    <2>4. list \in [1 .. Len(list) -> E] /\ list \in [1 .. Len(list) -> F]
      BY <2>1, <2>2, <2>3
    <2> QED
      BY <2>1, <2>4, SeqDef
  <1>6. ASSUME Waiting(list) PROVE Waiting(list)' /\ Waits(list)' = Waits(list)
    <2>1. /\ list \in Seq(IncomingCommands)
          /\ \A i \in DOMAIN list : EntryOf(list[i], packets)
          /\ \A i \in DOMAIN list : packets[list[i].packet].kind \in Unreliables
      BY <1>6 DEF Waiting
    <2>2. Waiting(list)'
      BY <1>2, <2>1 DEF Waiting
    <2> QED
      BY <1>3, <1>4, <1>5, <2>1, <2>2, WaitsIs
  <1>7. ASSUME Done(list) PROVE Done(list)' /\ Waits(list)' = Waits(list)
    <2>1. /\ list \in Seq(IncomingCommands)
          /\ \A i \in DOMAIN list : EntryOf(list[i], packets)
          /\ \A i \in DOMAIN list : list[i].fragmentsRemaining = 0
      BY <1>7 DEF Done
    <2>2. Done(list)'
      BY <1>2, <2>1 DEF Done
    <2> QED
      BY <1>3, <1>4, <1>5, <2>1, <2>2, WaitsIs
  <1> QED
    BY <1>6, <1>7

\* The lists after a step that sends nothing.
LEMMA ListsKept ==
    ASSUME UNCHANGED packets, reliables' \in Nat,
           incomingUnreliable' \in 0 .. MaximumUnreliable,
           NEW c, c = commands', NEW d, d = dispatched', Waiting(c), Done(d),
           totalWaitingData' \in Nat, Waits(c) + Waits(d) <= totalWaitingData'
    PROVE  ListsInv'
  <1>1. Waiting(commands)'
    BY DEF Waiting
  <1>2. Done(dispatched)'
    BY DEF Done
  <1>3. Waits(commands)' = Waits(c) /\ Waits(dispatched)' = Waits(d)
    BY DEF Waits
  <1> QED
    BY <1>1, <1>2, <1>3 DEF ListsInv

\* A reliable packet arrives.
LEMMA ListsReliable ==
    ASSUME PacketsInv, ListsInv, NEW p \in DOMAIN packets, ReceiveReliable(p)
    PROVE  ListsInv'
  <1> PICK A : A = {q \in DOMAIN packets :
                      /\ packets[q].kind = "SEND_RELIABLE"
                      /\ reliables < packets[q].reliable
                      /\ packets[q].reliable <= packets[p].reliable}
    OBVIOUS
  <1> PICK whole : whole = [q \in DOMAIN packets |-> Entry(q, 1 .. packets[q].length)]
    OBVIOUS
  <1> PICK next : next = Picked(whole, A)
    OBVIOUS
  <1> PICK r : r = Number(packets[p].reliable)
    OBVIOUS
  <1> PICK res : res = DispatchedFrom(commands, r, 0)
    OBVIOUS
  <1>1. packets \in Seq(OutgoingCommands)
    BY DEF PacketsInv
  <1>2. packets[p].reliable \in Nat
    <2>1. packets[p] \in OutgoingCommands
      BY <1>1
    <2> QED
      BY <2>1 DEF OutgoingCommands
  <1>3. /\ totalWaitingData' = totalWaitingData + Waits(next)
        /\ reliables' = packets[p].reliable
        /\ commands' = res.left
        /\ dispatched' = dispatched \o next \o res.moved
        /\ incomingUnreliable' = res.unreliable
        /\ UNCHANGED packets
    BY DEF ReceiveReliable
  <1>4. Done(next)
    BY NextIs
  <1>5. Dispatchable(commands) /\ totalWaitingData \in Nat
    BY ListsAre DEF ListsInv
  <1>6. Waits(next) \in Nat /\ Waits(commands) \in Nat
    BY <1>1, <1>4, ListsAre, WaitsAre DEF ListsInv
  <1>7. 0 \in 0 .. MaximumUnreliable
    BY Constants
  <1>8. /\ Waiting(res.left) /\ Done(dispatched \o next \o res.moved)
        /\ res.unreliable \in 0 .. MaximumUnreliable
        /\ Waits(res.left) + Waits(dispatched \o next \o res.moved)
                 <= totalWaitingData + Waits(next)
    <2> PICK d : d = Waits(next)
      OBVIOUS
    <2>1. d \in Nat /\ Waits(commands) + Waits(next) <= Waits(commands) + d
      BY <1>6
    <2> QED
      BY <1>4, <1>5, <1>7, <2>1, ListsDispatched
  <1>9. totalWaitingData' \in Nat
    BY <1>3, <1>5, <1>6
  <1> QED
    BY <1>2, <1>3, <1>8, <1>9, ListsKept

\* The list gets an entry, and is dispatched.
LEMMA ListsQueued ==
    ASSUME PacketsInv, ListsInv, UNCHANGED packets, UNCHANGED reliables,
           NEW list, Dispatchable(list), DispatchUnreliable(list),
           NEW d \in Nat, Waits(list) <= Waits(commands) + d,
           totalWaitingData' = totalWaitingData + d
    PROVE  ListsInv'
  <1> PICK e : e = <<>>
    OBVIOUS
  <1> PICK r : r = Number(reliables)
    OBVIOUS
  <1> PICK res : res = DispatchedFrom(list, r, incomingUnreliable)
    OBVIOUS
  <1>1. packets \in Seq(OutgoingCommands)
    BY DEF PacketsInv
  <1>2. /\ incomingUnreliable \in 0 .. MaximumUnreliable /\ reliables \in Nat
        /\ totalWaitingData \in Nat /\ Waiting(commands) /\ Done(dispatched)
    BY DEF ListsInv
  <1>3. Done(e) /\ Waits(e) = 0
    BY <1>1, ListsAre, WaitsIs, WaitsSteps
  <1>4. Waits(list) \in Nat
    BY <1>1, ListsAre, WaitsAre
  <1>5. Waits(list) + Waits(e) <= Waits(commands) + d
    BY <1>3, <1>4
  <1>6. /\ Waiting(res.left) /\ Done(dispatched \o e \o res.moved)
        /\ res.unreliable \in 0 .. MaximumUnreliable
        /\ Waits(res.left) + Waits(dispatched \o e \o res.moved)
                 <= totalWaitingData + d
    BY <1>2, <1>3, <1>5, ListsDispatched
  <1>7. dispatched \o e = dispatched
    BY <1>2, ConcatEmptySeq DEF Done
  <1>8. /\ commands' = res.left /\ dispatched' = dispatched \o res.moved
        /\ incomingUnreliable' = res.unreliable
    BY DEF DispatchUnreliable
  <1>9. totalWaitingData' \in Nat
    BY <1>2
  <1>10. /\ Done(dispatched \o res.moved)
         /\ Waits(res.left) + Waits(dispatched \o res.moved) <= totalWaitingData'
    BY <1>6, <1>7
  <1> QED
    BY <1>2, <1>6, <1>8, <1>9, <1>10, ListsKept

\* An unreliable packet arrives.
LEMMA ListsUnreliable ==
    ASSUME PacketsInv, ListsInv, NEW p \in DOMAIN packets, ReceiveUnreliable(p)
    PROVE  ListsInv'
  <1> PICK reliable : reliable = Number(packets[p].reliable)
    OBVIOUS
  <1> PICK unreliable : unreliable = packets[p].unreliable
    OBVIOUS
  <1> PICK k : k = Position(reliable, unreliable) + 1
    OBVIOUS
  <1> PICK e : e = Entry(p, {1})
    OBVIOUS
  <1> PICK list : list = InsertAt(commands, k, e)
    OBVIOUS
  <1>1. packets \in Seq(OutgoingCommands) /\ Formed(packets[p])
    BY DEF PacketsInv
  <1>2. Waiting(commands)
    BY DEF ListsInv
  <1>3. packets[p].kind = "SEND_UNRELIABLE"
    BY DEF ReceiveUnreliable, Arrives
  <1>4. packets[p].length = 1 /\ packets[p].kind \in Unreliables
    BY <1>1, <1>3 DEF Formed, Unreliables
  <1>5. /\ e.packet = p /\ EntryOf(e, packets) /\ e \in IncomingCommands
    BY <1>1, <1>4, SingleIs
  <1>6. k \in 1 .. Len(commands) + 1
    BY <1>2, PositionIs
  <1>7. Dispatchable(list) /\ Waits(list) = Waits(commands) + 1
    BY <1>1, <1>2, <1>4, <1>5, <1>6, InsertedDispatchable
  <1>8. /\ DispatchUnreliable(list) /\ totalWaitingData' = totalWaitingData + 1
        /\ UNCHANGED packets /\ UNCHANGED reliables
    BY DEF ReceiveUnreliable
  <1>9. Waits(commands) \in Nat
    BY <1>1, <1>2, ListsAre, WaitsAre
  <1>10. Waits(list) <= Waits(commands) + 1
    BY <1>7, <1>9
  <1> QED
    BY <1>7, <1>8, <1>10, ListsQueued

\* The list with an unsequenced packet at its head.
WithHead(e) == <<e>> \o commands

\* It is one that can be dispatched.
LEMMA UnsequencedList ==
    ASSUME PacketsInv, ListsInv, NEW p \in DOMAIN packets,
           packets[p].kind = "SEND_UNSEQUENCED",
           NEW e, e = Entry(p, {1}), NEW list, list = WithHead(e)
    PROVE  /\ e.packet = p /\ EntryOf(e, packets) /\ e.fragmentsRemaining = 0
           /\ Dispatchable(list) /\ DOMAIN list = 1 .. Len(commands) + 1
           /\ list[1] = e /\ \A i \in 1 .. Len(commands) : list[i + 1] = commands[i]
           /\ Waits(commands) \in Nat /\ Waits(list) = 1 + Waits(commands)
  <1>1. packets \in Seq(OutgoingCommands) /\ Formed(packets[p])
    BY DEF PacketsInv
  <1>2. /\ Waiting(commands) /\ commands \in Seq(IncomingCommands)
        /\ \A i \in DOMAIN commands :
              /\ EntryOf(commands[i], packets)
              /\ packets[commands[i].packet].kind \in Unreliables
    BY DEF ListsInv, Waiting
  <1>4. packets[p].length = 1 /\ {1} = 1 .. packets[p].length
    BY <1>1 DEF Formed
  <1>5. /\ e.packet = p /\ EntryOf(e, packets) /\ e \in IncomingCommands
        /\ e.fragmentsRemaining = 0 /\ e \in EntriesOf(packets)
    BY <1>1, <1>4, SingleIs
  <1>6. /\ list \in Seq(IncomingCommands) /\ DOMAIN list = 1 .. Len(commands) + 1
        /\ list[1] = e /\ \A i \in 1 .. Len(commands) : list[i + 1] = commands[i]
    <2> PICK x : x = <<e>>
      OBVIOUS
    <2>1. x \in Seq(IncomingCommands) /\ Len(x) = 1 /\ x[1] = e
      BY <1>5
    <2>2. /\ x \o commands \in Seq(IncomingCommands)
          /\ Len(x \o commands) = Len(x) + Len(commands)
          /\ \A i \in 1 .. Len(x) + Len(commands) :
                (x \o commands)[i] = IF i <= Len(x) THEN x[i] ELSE commands[i - Len(x)]
      BY <1>2, <2>1, ConcatProperties
    <2>3. /\ list \in Seq(IncomingCommands) /\ Len(list) = 1 + Len(commands)
          /\ \A i \in 1 .. 1 + Len(commands) :
                list[i] = IF i <= 1 THEN x[i] ELSE commands[i - 1]
      BY <2>1, <2>2 DEF WithHead
    <2>4. Len(commands) \in Nat /\ DOMAIN commands = 1 .. Len(commands)
      BY <1>2, LenProperties
    <2>5. Len(list) = Len(commands) + 1 /\ DOMAIN list = 1 .. Len(commands) + 1
      BY <2>3, <2>4, LenProperties
    <2>6. list[1] = e
      BY <2>1, <2>3, <2>4
    <2>7. ASSUME NEW i \in 1 .. Len(commands) PROVE list[i + 1] = commands[i]
      <3>1. i + 1 \in 1 .. 1 + Len(commands) /\ ~(i + 1 <= 1) /\ (i + 1) - 1 = i
        BY <2>4
      <3> QED
        BY <2>3, <3>1
    <2> QED
      BY <2>3, <2>5, <2>6, <2>7
  <1>7. Dispatchable(list)
    <2>1. ASSUME NEW i \in DOMAIN list
          PROVE  /\ EntryOf(list[i], packets)
                 /\ \/ packets[list[i].packet].kind \in Unreliables
                    \/ i = 1 /\ IsUnsequenced(list[i]) /\ list[i].fragmentsRemaining = 0
      <3>1. Len(commands) \in Nat /\ DOMAIN commands = 1 .. Len(commands)
        BY <1>2, LenProperties
      <3>2. CASE i = 1
        BY <1>5, <1>6, <3>2 DEF IsUnsequenced
      <3>3. CASE i # 1
        <4>1. i - 1 \in 1 .. Len(commands) /\ (i - 1) + 1 = i
          BY <1>6, <3>1, <3>3
        <4>2. list[i] = commands[i - 1]
          BY <1>6, <4>1
        <4> QED
          BY <1>2, <3>1, <4>1, <4>2
      <3> QED
        BY <3>2, <3>3
    <2> QED
      BY <1>6, <2>1 DEF Dispatchable
  <1>8. Waits(commands) \in Nat /\ Waits(list) = 1 + Waits(commands)
    <2>1. commands \in Seq(EntriesOf(packets))
      BY <1>2, ListsAre
    <2>2. <<e>> \in Seq(EntriesOf(packets)) /\ Waits(<<e>>) = 1
      BY <1>1, <1>4, <1>5, WaitsAre
    <2>3. Waits(list) = Waits(<<e>>) + Waits(commands)
      BY <1>1, <2>1, <2>2, WaitsAre DEF WithHead
    <2> QED
      BY <1>1, <2>1, <2>2, <2>3, WaitsAre
  <1> QED
    BY <1>5, <1>6, <1>7, <1>8

\* An unsequenced packet arrives.
LEMMA ListsUnsequenced ==
    ASSUME PacketsInv, ListsInv, NEW p \in DOMAIN packets, ReceiveUnsequenced(p)
    PROVE  ListsInv'
  <1> PICK e : e = Entry(p, {1})
    OBVIOUS
  <1> PICK list : list = WithHead(e)
    OBVIOUS
  <1>1. packets[p].kind = "SEND_UNSEQUENCED"
    BY DEF ReceiveUnsequenced, Arrives
  <1>7. Dispatchable(list)
        /\ Waits(commands) \in Nat /\ Waits(list) = 1 + Waits(commands)
    BY <1>1, UnsequencedList
  <1>9. UNCHANGED packets /\ UNCHANGED reliables
    BY DEF ReceiveUnsequenced
  <1>10. CASE totalWaitingData' = totalWaitingData + 1 /\ DispatchUnreliable(list)
    <2>1. Waits(list) <= Waits(commands) + 1
      BY <1>7
    <2> QED
      BY <1>7, <1>9, <1>10, <2>1, ListsQueued
  <1>11. CASE UNCHANGED <<totalWaitingData, commands, dispatched, incomingUnreliable>>
    BY <1>9, <1>11 DEF ListsInv, Waiting, Done, Waits
  <1> QED
    BY <1>10, <1>11 DEF ReceiveUnsequenced, WithHead

\* A list of the same packets counts the same.
LEMMA WaitsKept ==
    ASSUME packets \in Seq(OutgoingCommands), NEW s, Waiting(s), NEW t, Waiting(t),
           DOMAIN s = DOMAIN t, \A i \in DOMAIN s : s[i].packet = t[i].packet
    PROVE  Waits(s) = Waits(t)
  <1>1. s \in Seq(EntriesOf(packets)) /\ t \in Seq(EntriesOf(packets))
    BY ListsAre
  <1>2. /\ DOMAIN s = 1 .. Len(s) /\ DOMAIN t = 1 .. Len(t)
        /\ Len(s) \in Nat /\ Len(t) \in Nat
    BY <1>1, LenProperties
  <1>3. Len(s) = Len(t)
    <2>1. \A a, b \in Nat : 1 .. a = 1 .. b => a <= b
      <3> SUFFICES ASSUME NEW a \in Nat, NEW b \in Nat, 1 .. a = 1 .. b, ~(a <= b)
                   PROVE  FALSE
        OBVIOUS
      <3>1. a \in 1 .. a /\ a \notin 1 .. b
        OBVIOUS
      <3> QED
        BY <3>1
    <2>2. 1 .. Len(s) = 1 .. Len(t)
      BY <1>2
    <2>3. Len(s) <= Len(t) /\ Len(t) <= Len(s)
      BY ONLY <1>2, <2>1, <2>2
    <2>4. Len(s) \in Nat /\ Len(t) \in Nat
      BY <1>2
    <2> QED
      BY ONLY <2>3, <2>4
  <1>4. \A i \in 1 .. Len(s) :
           packets[s[i].packet].length = packets[t[i].packet].length
    BY <1>2
  <1>5. WaitsOf(s, packets) = WaitsOf(t, packets)
    BY <1>1, <1>3, <1>4, WaitsSame
  <1> QED
    BY <1>5, WaitsIs

\* A fragment of a packet that has an entry arrives.
LEMMA ListsFurther ==
    ASSUME PacketsInv, ListsInv, NEW p \in DOMAIN packets,
           NEW fragment \in 1 .. packets[p].length, ReceiveFurtherFragment(p, fragment)
    PROVE  ListsInv'
  <1> PICK reliable : reliable = Number(packets[p].reliable)
    OBVIOUS
  <1> PICK unreliable : unreliable = packets[p].unreliable
    OBVIOUS
  <1> PICK i : i = Position(reliable, unreliable)
    OBVIOUS
  <1> PICK c : c = Copied(commands[i], fragment)
    OBVIOUS
  <1> PICK copied : copied = [commands EXCEPT ![i] = c]
    OBVIOUS
  <1>1. packets \in Seq(OutgoingCommands)
    BY DEF PacketsInv
  <1>2. /\ Waiting(commands) /\ commands \in Seq(IncomingCommands)
        /\ \A j \in DOMAIN commands :
              /\ EntryOf(commands[j], packets)
              /\ packets[commands[j].packet].kind \in Unreliables
    BY DEF ListsInv, Waiting
  <1>3. i \in DOMAIN commands
    <2>1. i # 0
      BY DEF ReceiveFurtherFragment, IsQueued
    <2> QED
      BY <1>2, <2>1, PositionIs
  <1>4. packets[commands[i].packet].length = packets[p].length
    BY DEF ReceiveFurtherFragment
  <1>5. /\ EntryOf(c, packets) /\ c.packet = commands[i].packet
        /\ c \in IncomingCommands
    BY <1>1, <1>2, <1>3, <1>4, CopiedIs
  <1>6. /\ copied \in Seq(IncomingCommands) /\ DOMAIN copied = DOMAIN commands
        /\ copied[i] = c /\ \A j \in DOMAIN commands : j # i => copied[j] = commands[j]
    <2>1. /\ [commands EXCEPT ![i] = c] \in Seq(IncomingCommands)
          /\ Len([commands EXCEPT ![i] = c]) = Len(commands)
      BY <1>2, <1>3, <1>5, ExceptSeq, LenProperties
    <2> QED
      BY <1>2, <1>3, <2>1, LenProperties
  <1>7. Waiting(copied)
    <2>1. \A j \in DOMAIN copied :
             EntryOf(copied[j], packets) /\ packets[copied[j].packet].kind \in Unreliables
      BY <1>2, <1>3, <1>5, <1>6
    <2> QED
      BY <1>6, <2>1 DEF Waiting
  <1>8. Waits(copied) = Waits(commands)
    <2>1. \A j \in DOMAIN copied : copied[j].packet = commands[j].packet
      BY <1>5, <1>6
    <2> QED
      BY <1>1, <1>2, <1>6, <1>7, <2>1, WaitsKept
  <1>9. /\ UNCHANGED packets /\ UNCHANGED reliables /\ UNCHANGED totalWaitingData
        /\ \/ DispatchUnreliable(copied)
           \/ commands' = copied /\ UNCHANGED <<dispatched, incomingUnreliable>>
    BY DEF ReceiveFurtherFragment
  <1>10. totalWaitingData \in Nat /\ Waits(commands) \in Nat
    BY <1>1, <1>2, ListsAre, WaitsAre DEF ListsInv
  <1>11. CASE DispatchUnreliable(copied)
    <2>1. /\ Waits(copied) <= Waits(commands) + 0 /\ Dispatchable(copied)
          /\ totalWaitingData' = totalWaitingData + 0
      BY <1>7, <1>8, <1>9, <1>10, ListsAre
    <2> QED
      BY <1>9, <1>11, <2>1, ListsQueued
  <1>12. CASE commands' = copied /\ UNCHANGED <<dispatched, incomingUnreliable>>
    <2>1. /\ reliables \in Nat /\ incomingUnreliable \in 0 .. MaximumUnreliable
          /\ Done(dispatched)
          /\ Waits(commands) + Waits(dispatched) <= totalWaitingData
      BY DEF ListsInv
    <2>2. Waits(copied) + Waits(dispatched) <= totalWaitingData
      BY <1>8, <2>1
    <2> QED
      BY <1>7, <1>9, <1>10, <1>12, <2>1, <2>2, ListsKept
  <1> QED
    BY <1>9, <1>11, <1>12

\* The first fragment of a packet arrives.
LEMMA ListsFirst ==
    ASSUME PacketsInv, ListsInv, NEW p \in DOMAIN packets,
           NEW fragment \in 1 .. packets[p].length, ReceiveFirstFragment(p, fragment)
    PROVE  ListsInv'
  <1> PICK reliable : reliable = Number(packets[p].reliable)
    OBVIOUS
  <1> PICK unreliable : unreliable = packets[p].unreliable
    OBVIOUS
  <1> PICK k : k = Position(reliable, unreliable) + 1
    OBVIOUS
  <1> PICK e : e = Entry(p, {})
    OBVIOUS
  <1> PICK list : list = InsertAt(commands, k, e)
    OBVIOUS
  <1> PICK r : r = Number(reliables)
    OBVIOUS
  <1> PICK res : res = DispatchedFrom(list, r, incomingUnreliable)
    OBVIOUS
  <1> PICK none : none = <<>>
    OBVIOUS
  <1> PICK d : d = packets[p].length
    OBVIOUS
  <1>1. packets \in Seq(OutgoingCommands)
    BY DEF PacketsInv
  <1>2. /\ Waiting(commands) /\ Done(dispatched) /\ totalWaitingData \in Nat
        /\ incomingUnreliable \in 0 .. MaximumUnreliable /\ reliables \in Nat
    BY DEF ListsInv
  <1>3. packets[p].kind \in Unreliables
    BY DEF ReceiveFirstFragment, Arrives, Unreliables
  <1>4. /\ e.packet = p /\ EntryOf(e, packets) /\ e \in IncomingCommands /\ d \in Nat
    <2>1. {} \in SUBSET (1 .. packets[p].length)
      OBVIOUS
    <2> QED
      BY <1>1, <2>1, EntryIs
  <1>5. k \in 1 .. Len(commands) + 1
    BY <1>2, PositionIs
  <1>6. Dispatchable(list) /\ Waits(list) = Waits(commands) + d
    BY <1>1, <1>2, <1>3, <1>4, <1>5, InsertedDispatchable
  <1>7. Waits(commands) \in Nat
    BY <1>1, <1>2, ListsAre, WaitsAre
  <1>8. Done(none) /\ Waits(none) = 0 /\ dispatched \o none = dispatched
    BY <1>1, <1>2, ListsAre, WaitsIs, WaitsSteps, ConcatEmptySeq DEF Done
  <1>9. Waits(list) + Waits(none) <= Waits(commands) + d
    BY <1>4, <1>6, <1>7, <1>8
  <1>10. /\ Waiting(res.left) /\ Done(dispatched \o none \o res.moved)
         /\ res.unreliable \in 0 .. MaximumUnreliable
         /\ Waits(res.left) + Waits(dispatched \o none \o res.moved)
                 <= totalWaitingData + d
    BY <1>2, <1>4, <1>6, <1>8, <1>9, ListsDispatched
  <1> PICK left : left = res.left
    OBVIOUS
  <1> PICK kept : kept = [i \in DOMAIN left |-> IF left[i].packet = p
                                                  THEN Copied(left[i], fragment)
                                                  ELSE left[i]]
    OBVIOUS
  <1>11. /\ commands' = kept /\ dispatched' = dispatched \o res.moved
         /\ incomingUnreliable' = res.unreliable /\ UNCHANGED packets
         /\ UNCHANGED reliables /\ totalWaitingData' = totalWaitingData + d
    BY DEF ReceiveFirstFragment, QueuedFor
  <1>12. /\ left \in Seq(IncomingCommands)
         /\ \A i \in DOMAIN left :
               /\ EntryOf(left[i], packets)
               /\ packets[left[i].packet].kind \in Unreliables
    BY <1>10 DEF Waiting
  <1>13. ASSUME NEW i \in DOMAIN left
         PROVE  /\ EntryOf(kept[i], packets) /\ kept[i].packet = left[i].packet
                /\ kept[i] \in IncomingCommands
    <2> PICK a : a = left[i]
      OBVIOUS
    <2>1. CASE a.packet = p
      <3> PICK c : c = Copied(a, fragment)
        OBVIOUS
      <3>1. EntryOf(c, packets) /\ c.packet = a.packet /\ c \in IncomingCommands
        BY <1>1, <1>12, <2>1, CopiedIs
      <3> QED
        BY <2>1, <3>1
    <2>2. CASE a.packet # p
      <3>1. kept[i] = a
        BY <2>2
      <3>2. EntryOf(a, packets)
        BY <1>12
      <3>3. a \in IncomingCommands
        BY <3>2 DEF EntryOf
      <3> QED
        BY <3>1, <3>2, <3>3
    <2> QED
      BY <2>1, <2>2
  <1>14. kept \in Seq(IncomingCommands) /\ DOMAIN kept = DOMAIN left
    <2> PICK E : E = IncomingCommands
      OBVIOUS
    <2>1. Len(left) \in Nat /\ DOMAIN left = 1 .. Len(left)
      BY <1>12, LenProperties
    <2>2. kept \in [1 .. Len(left) -> E]
      BY <1>13, <2>1
    <2>3. kept \in Seq(E)
      BY <2>1, <2>2, SeqDef
    <2> QED
      BY <2>3
  <1>a. \A i \in DOMAIN kept : kept[i].packet = left[i].packet
    BY <1>13, <1>14
  <1>15. Waiting(kept)
    <2>1. ASSUME NEW i \in DOMAIN kept
          PROVE  EntryOf(kept[i], packets) /\ packets[kept[i].packet].kind \in Unreliables
      <3>1. i \in DOMAIN left /\ kept[i].packet = left[i].packet
        BY <1>14, <1>a
      <3>2. packets[left[i].packet].kind \in Unreliables
        BY <1>12, <3>1
      <3>3. EntryOf(kept[i], packets)
        BY <1>13, <3>1
      <3> QED
        BY <3>1, <3>2, <3>3
    <2> QED
      BY <1>14, <2>1 DEF Waiting
  <1>16. Waits(kept) = Waits(left)
    <2>1. Waiting(left)
      BY <1>10
    <2> QED
      BY ONLY <1>1, <1>14, <1>15, <1>a, <2>1, WaitsKept
  <1> PICK moved : moved = dispatched \o res.moved
    OBVIOUS
  <1>17. Done(moved) /\ Waits(kept) + Waits(moved) <= totalWaitingData'
    BY <1>8, <1>10, <1>11, <1>16
  <1>18. totalWaitingData' \in Nat /\ reliables' \in Nat
    BY <1>2, <1>4, <1>11
  <1> QED
    BY <1>10, <1>11, <1>15, <1>17, <1>18, ListsKept

\* The application takes a packet.
LEMMA ListsTaken ==
    ASSUME PacketsInv, ListsInv, Receive
    PROVE  ListsInv' /\ Head(dispatched).packet \in DOMAIN packets
  <1> PICK e : e = Head(dispatched)
    OBVIOUS
  <1> PICK rest : rest = Tail(dispatched)
    OBVIOUS
  <1>1. packets \in Seq(OutgoingCommands) /\ dispatched # <<>>
    BY DEF PacketsInv, Receive
  <1>2. /\ Waiting(commands) /\ Done(dispatched) /\ totalWaitingData \in Nat
        /\ incomingUnreliable \in 0 .. MaximumUnreliable /\ reliables \in Nat
        /\ Waits(commands) + Waits(dispatched) <= totalWaitingData
    BY DEF ListsInv
  <1>3. /\ dispatched \in Seq(EntriesOf(packets)) /\ commands \in Seq(EntriesOf(packets))
        /\ dispatched \in Seq(IncomingCommands)
    BY <1>2, ListsAre DEF Done
  <1>4. /\ rest \in Seq(EntriesOf(packets)) /\ e \in EntriesOf(packets)
        /\ Waits(dispatched) = packets[e.packet].length + Waits(rest)
    BY <1>1, <1>3, WaitsTail, WaitsIs
  <1>5. packets[e.packet].length \in Nat /\ e.packet \in DOMAIN packets
    BY <1>1, <1>4, EntryWaits DEF EntriesOf
  <1>6. Waits(rest) \in Nat /\ Waits(commands) \in Nat
    BY <1>1, <1>3, <1>4, WaitsAre
  <1>7. Done(rest)
    <2>1. /\ rest \in Seq(IncomingCommands) /\ Len(rest) = Len(dispatched) - 1
          /\ \A i \in 1 .. Len(rest) : rest[i] = dispatched[i + 1]
      BY <1>1, <1>3, HeadTailProperties
    <2>2. Len(rest) \in Nat /\ DOMAIN rest = 1 .. Len(rest)
          /\ DOMAIN dispatched = 1 .. Len(dispatched) /\ Len(dispatched) \in Nat
      BY <1>3, <2>1, LenProperties
    <2>3. ASSUME NEW i \in DOMAIN rest
          PROVE  EntryOf(rest[i], packets) /\ rest[i].fragmentsRemaining = 0
      <3>1. i + 1 \in DOMAIN dispatched /\ rest[i] = dispatched[i + 1]
        BY <2>1, <2>2
      <3> QED
        BY <1>2, <3>1 DEF Done
    <2> QED
      BY <2>1, <2>3 DEF Done
  <1>8. /\ totalWaitingData' = totalWaitingData - packets[e.packet].length
        /\ dispatched' = rest
        /\ UNCHANGED <<packets, reliables, incomingUnreliable, commands>>
    BY DEF Receive
  <1>9. /\ totalWaitingData' \in Nat /\ reliables' \in Nat
        /\ Waits(commands) + Waits(rest) <= totalWaitingData'
    BY <1>2, <1>4, <1>5, <1>6, <1>8, SMTT(40)
  <1> QED
    BY <1>2, <1>5, <1>7, <1>8, <1>9, ListsKept

\* The lists hold what they should, and totalWaitingData counts no less.
LEMMA ListsNext ==
    ASSUME PacketsInv, ListsInv, [Next]_vars
    PROVE  ListsInv'
  <1>1. ASSUME Send PROVE ListsInv'
    <2>1. UNCHANGED <<reliables, incomingUnreliable, commands, dispatched,
                      totalWaitingData>>
      BY <1>1 DEF Send, receiver
    <2>2. /\ Waiting(commands)' /\ Waits(commands)' = Waits(commands)
          /\ Done(dispatched)' /\ Waits(dispatched)' = Waits(dispatched)
      <3> PICK c : c = commands
        OBVIOUS
      <3> PICK d : d = dispatched
        OBVIOUS
      <3>1. Waiting(c) /\ Done(d)
        BY DEF ListsInv
      <3>2. Waiting(c)' /\ Waits(c)' = Waits(c) /\ Done(d)' /\ Waits(d)' = Waits(d)
        BY <1>1, <3>1, ListsSent
      <3> QED
        BY <2>1, <3>2 DEF Waiting, Done, Waits
    <2> QED
      BY <2>1, <2>2 DEF ListsInv
  <1>2. ASSUME UNCHANGED vars PROVE ListsInv'
    BY <1>2 DEF vars, receiver, ListsInv, Waiting, Done, Waits
  <1> QED
    BY <1>1, <1>2, ListsTaken, ListsReliable, ListsUnreliable, ListsUnsequenced,
       ListsFirst, ListsFurther DEF Next

-----------------------------------------------------------------------------
(***************************************************************************)
(* Types, and packets that are whole.                                      *)
(***************************************************************************)

\* A multiple of the window's size, and what is less than it before it.
LEMMA GroupWindowIs ==
    ASSUME NEW a \in 0 .. Groups - 1
    PROVE  /\ GroupWindow(a) \in 0 .. Groups - 1
           /\ GroupWindow(a) % UnsequencedWindowSize = 0
           /\ GroupWindow(a) = UnsequencedWindowSize * (a \div UnsequencedWindowSize)
           /\ a % UnsequencedWindowSize \in 0 .. UnsequencedWindowSize - 1
  <1> PICK s : s = UnsequencedWindowSize
    OBVIOUS
  <1> PICK n : n = Groups
    OBVIOUS
  <1>1. s \in Nat \ {0}
    BY Constants
  <1>2. n \in Nat
    BY Constants DEF Groups
  <1>3. a \in Nat /\ a < n
    BY <1>2
  <1> PICK q : q = a \div s
    OBVIOUS
  <1> PICK r : r = a % s
    OBVIOUS
  <1>4. q \in Nat /\ r \in 0 .. s - 1 /\ a = s * q + r
    BY <1>1, <1>3, DivMod
  <1>5. s * q \in Nat
    BY <1>1, <1>4
  <1>6. a - r = s * q /\ s * q <= a
    BY <1>1, <1>4, <1>5
  <1>7. GroupWindow(a) = s * q
    BY <1>6 DEF GroupWindow
  <1>8. (s * q + 0) % s = 0
    <2> PICK z : z = 0
      OBVIOUS
    <2>1. z \in 0 .. s - 1
      BY <1>1
    <2>2. (s * q + z) % s = z
      BY ONLY <1>1, <1>4, <2>1, DivUnique
    <2> QED
      BY <2>2
  <1>9. s * q + 0 = s * q /\ s * q \in 0 .. n - 1
    BY <1>2, <1>3, <1>5, <1>6
  <1> QED
    BY <1>4, <1>7, <1>8, <1>9

\* There are some groups.
LEMMA GroupsIs ==
    /\ Groups \in Nat \ {0}
    /\ \A g \in Nat : g % Groups \in 0 .. Groups - 1
  <1>1. /\ UnsequencedWindows \in Nat /\ UnsequencedWindows >= 1
        /\ UnsequencedWindowSize \in Nat /\ UnsequencedWindowSize >= 1
    BY Constants
  <1>2. UnsequencedWindows * UnsequencedWindowSize >= 1
    BY <1>1
  <1>3. Groups \in Nat \ {0}
    BY <1>1, <1>2 DEF Groups
  <1> QED
    BY <1>3, DivMod

\* A step that is not about groups leaves them.
LEMMA GroupKept ==
    ASSUME GroupInv, UNCHANGED packets,
           UNCHANGED <<incomingGroup, unsequencedWindow, newest, taken>>
    PROVE  GroupInv'
  BY DEF GroupInv

\* The window of groups is one of the windows.
LEMMA GroupNext ==
    ASSUME PacketsInv, ListsInv, GroupInv, [Next]_vars
    PROVE  GroupInv'
  <1>0. packets \in Seq(OutgoingCommands) /\ DOMAIN packets = 1 .. Len(packets)
    BY LenProperties DEF PacketsInv
  <1>1. ASSUME Send PROVE GroupInv'
    <2>1. /\ Len(packets) \in Nat /\ DOMAIN packets = 1 .. Len(packets)
          /\ Len(packets') = Len(packets) + 1
          /\ DOMAIN packets' = 1 .. Len(packets) + 1
          /\ \A p \in DOMAIN packets : p \in DOMAIN packets' /\ packets'[p] = packets[p]
      BY <1>1, Sent
    <2>2. /\ UNCHANGED <<incomingGroup, unsequencedWindow, newest>>
          /\ taken' \subseteq taken
      BY <1>1 DEF Send, receiver
    <2>3. newest' \in 0 .. Len(packets') /\ taken' \subseteq DOMAIN packets'
      BY <2>1, <2>2 DEF GroupInv
    <2>4. \A p \in taken' : packets'[p].kind = "SEND_UNSEQUENCED"
      BY <2>1, <2>2 DEF GroupInv
    <2> QED
      BY <2>2, <2>3, <2>4 DEF GroupInv
  <1>2. ASSUME Receive PROVE GroupInv'
    <2> PICK p : p = Head(dispatched).packet
      OBVIOUS
    <2>1. p \in DOMAIN packets
      BY <1>2, ListsTaken
    <2>2. p \in 0 .. Len(packets)
      BY <1>0, <2>1
    <2>3. /\ UNCHANGED <<incomingGroup, unsequencedWindow, packets>>
          /\ \/ /\ packets[p].kind = "SEND_UNSEQUENCED"
                /\ taken' \subseteq taken \cup {p} /\ UNCHANGED newest
             \/ newest' = p /\ UNCHANGED taken
      BY <1>2 DEF Receive
    <2>4. newest' \in 0 .. Len(packets) /\ taken' \subseteq DOMAIN packets
      BY <2>1, <2>2, <2>3 DEF GroupInv
    <2>5. \A q \in taken' : packets[q].kind = "SEND_UNSEQUENCED"
      BY <2>3 DEF GroupInv
    <2> QED
      BY <2>3, <2>4, <2>5 DEF GroupInv
  <1>3. ASSUME NEW p \in DOMAIN packets, ReceiveUnsequenced(p) PROVE GroupInv'
    <2> PICK group : group = packets[p].group % Groups
      OBVIOUS
    <2>1. group \in 0 .. Groups - 1
      <3>1. packets[p] \in OutgoingCommands
        BY <1>0
      <3>2. packets[p].group \in Nat
        BY <3>1 DEF OutgoingCommands
      <3> QED
        BY <3>2, GroupsIs
    <2> PICK index : index = group % UnsequencedWindowSize
      OBVIOUS
    <2>2. /\ GroupWindow(group) \in 0 .. Groups - 1
          /\ GroupWindow(group) % UnsequencedWindowSize = 0
          /\ index \in 0 .. UnsequencedWindowSize - 1
      BY <2>1, GroupWindowIs
    <2>3. /\ incomingGroup' = GroupWindow(group)
          /\ unsequencedWindow' \subseteq unsequencedWindow \cup {index}
          /\ UNCHANGED <<packets, newest, taken>>
      BY <1>3 DEF ReceiveUnsequenced
    <2>4. unsequencedWindow' \subseteq 0 .. UnsequencedWindowSize - 1
      BY <2>2, <2>3 DEF GroupInv
    <2>5. /\ newest' \in 0 .. Len(packets)' /\ (taken \subseteq DOMAIN packets)'
          /\ \A q \in taken' : packets'[q].kind = "SEND_UNSEQUENCED"
      BY <2>3 DEF GroupInv
    <2> QED
      BY <2>2, <2>3, <2>4, <2>5 DEF GroupInv
  <1>4. ASSUME NEW p \in DOMAIN packets,
               \/ ReceiveReliable(p) \/ ReceiveUnreliable(p)
               \/ \E fragment \in 1 .. packets[p].length :
                     \/ ReceiveFirstFragment(p, fragment)
                     \/ ReceiveFurtherFragment(p, fragment)
        PROVE  GroupInv'
    <2>1. UNCHANGED packets
          /\ UNCHANGED <<incomingGroup, unsequencedWindow, newest, taken>>
      BY <1>4 DEF ReceiveReliable, ReceiveUnreliable, ReceiveFirstFragment,
         ReceiveFurtherFragment
    <2> QED
      BY <2>1, GroupKept
  <1>5. ASSUME UNCHANGED vars PROVE GroupInv'
    <2>1. UNCHANGED packets
          /\ UNCHANGED <<incomingGroup, unsequencedWindow, newest, taken>>
      BY <1>5 DEF vars, receiver
    <2> QED
      BY <2>1, GroupKept
  <1> QED
    BY <1>1, <1>2, <1>3, <1>4, <1>5 DEF Next

\* What holds at the start.
LEMMA StartInv ==
    ASSUME Init
    PROVE  PacketsInv /\ ListsInv /\ GroupInv /\ OnceInv
  <1>1. /\ workload \in Workloads /\ packets = <<>> /\ reliables = 0
        /\ incomingUnreliable = 0 /\ commands = <<>> /\ incomingGroup = 0
        /\ unsequencedWindow = {} /\ totalWaitingData = 0 /\ dispatched = <<>>
        /\ newest = 0 /\ taken = {}
    BY DEF Init
  <1> PICK none : none = <<>>
    OBVIOUS
  <1>2. none \in Seq(OutgoingCommands) /\ DOMAIN none = {} /\ Len(none) = 0
    OBVIOUS
  <1>3. PacketsInv
    <2>1. Len(workload) \in Nat
      <3>1. workload \in Seq([flags : Flags, length : Nat \ {0}])
        BY <1>1, BoundsAssumption
      <3> QED
        BY <3>1, LenProperties
    <2>2. packets = none /\ Len(packets) <= Len(workload)
      BY <1>1, <1>2, <2>1
    <2> QED
      BY <1>1, <1>2, <2>2 DEF PacketsInv
  <1>4. ListsInv
    <2>1. Waiting(commands) /\ Done(dispatched)
      BY <1>1, ListsAre
    <2>2. packets \in Seq(OutgoingCommands)
      BY <1>1, <1>2
    <2>3. Waits(<<>>) = 0
      BY <2>2, WaitsIs, WaitsSteps
    <2>4. Waits(commands) + Waits(dispatched) <= totalWaitingData
      BY <1>1, <2>3
    <2>5. /\ reliables \in Nat /\ incomingUnreliable \in 0 .. MaximumUnreliable
          /\ totalWaitingData \in Nat
      BY <1>1, Constants
    <2> QED
      BY <2>1, <2>4, <2>5 DEF ListsInv
  <1>5. GroupInv
    <2>1. 0 \in 0 .. Groups - 1
      BY GroupsIs
    <2>2. 0 % UnsequencedWindowSize = 0
      BY <2>1, GroupWindowIs, Constants DEF GroupWindow
    <2>3. newest \in 0 .. Len(packets)
      BY <1>1, <1>2
    <2> QED
      BY <1>1, <2>1, <2>2, <2>3 DEF GroupInv
  <1>6. OnceInv
    <2>1. DOMAIN packets = {} /\ DOMAIN dispatched = {}
      BY <1>1, <1>2
    <2>2. Unsequenced = {}
      BY <2>1 DEF Unsequenced
    <2> QED
      BY <2>1, <2>2 DEF OnceInv, UnsequencedOnce
  <1> QED
    BY <1>3, <1>4, <1>5, <1>6

\* What holds in every state, whatever the windows and the age of datagrams.
LEMMA ListsAlways == Spec => [](PacketsInv /\ ListsInv /\ GroupInv)
  <1>1. Init => PacketsInv /\ ListsInv /\ GroupInv
    BY StartInv
  <1>2. PacketsInv /\ ListsInv /\ GroupInv /\ [Next]_vars
           => (PacketsInv /\ ListsInv /\ GroupInv)'
    BY PacketsNext, ListsNext, GroupNext
  <1> QED
    BY <1>1, <1>2, PTL DEF Spec

\* Every variable keeps its type: the lists hold entries of packets that were sent,
\* and totalWaitingData, which is unsigned in the code, is never taken below zero.
THEOREM ChannelTypes == Spec => []TypeOK
  <1>1. PacketsInv /\ ListsInv /\ GroupInv => TypeOK
    <2> SUFFICES ASSUME PacketsInv, ListsInv, GroupInv PROVE TypeOK
      OBVIOUS
    <2>1. packets \in Seq(OutgoingCommands) /\ workload \in Workloads
      BY DEF PacketsInv
    <2>2. DOMAIN packets = 1 .. Len(packets)
      BY <2>1, LenProperties
    <2> QED
      BY <2>1, <2>2 DEF TypeOK, ListsInv, GroupInv, Waiting, Done
  <1> QED
    BY <1>1, ListsAlways, PTL

\* What the application is to get has all its fragments, however they came: late,
\* repeated, or in part before its entry was dropped.
THEOREM DispatchedWhole == Spec => []Whole
  <1>1. PacketsInv /\ ListsInv => Whole
    <2> SUFFICES ASSUME PacketsInv, ListsInv, NEW i \in DOMAIN dispatched
                 PROVE  dispatched[i].fragments
                           = 1 .. packets[dispatched[i].packet].length
      BY DEF Whole
    <2> PICK e : e = dispatched[i]
      OBVIOUS
    <2> PICK n : n = packets[e.packet].length
      OBVIOUS
    <2>1. EntryOf(e, packets) /\ e.fragmentsRemaining = 0
      BY DEF ListsInv, Done
    <2>2. /\ e.packet \in DOMAIN packets /\ e.fragments \subseteq 1 .. n
          /\ 0 = n - Cardinality(e.fragments)
      BY <2>1 DEF EntryOf
    <2>3. n \in Nat
      <3>1. packets[e.packet] \in OutgoingCommands
        BY <2>2, ElementOfSeq, LenProperties DEF PacketsInv
      <3> QED
        BY <3>1 DEF OutgoingCommands
    <2>4. IsFiniteSet(1 .. n) /\ Cardinality(1 .. n) = n
      <3>1. 1 \in Int /\ n \in Int
        BY <2>3
      <3>2. /\ IsFiniteSet(1 .. n)
            /\ Cardinality(1 .. n) = IF 1 > n THEN 0 ELSE n - 1 + 1
        BY <3>1, FS_Interval
      <3> QED
        BY <2>3, <3>2
    <2>5. Cardinality(e.fragments) \in Nat
      BY <2>2, <2>4, FS_Subset, FS_CardinalityType
    <2>6. Cardinality(e.fragments) = Cardinality(1 .. n)
      BY <2>2, <2>3, <2>4, <2>5
    <2>7. e.fragments = 1 .. n
      BY <2>2, <2>4, <2>6, FS_Subset
    <2> QED
      BY <2>7
  <1> QED
    BY <1>1, ListsAlways, PTL

-----------------------------------------------------------------------------
(***************************************************************************)
(* Numbers that go round w windows of s.                                   *)
(***************************************************************************)

\* Products.
LEMMA Products ==
    ASSUME NEW a \in Nat, NEW b \in Nat, NEW c \in Nat, NEW d \in Nat
    PROVE  /\ a * (b * c + d) = (b * a) * c + a * d
           /\ a * (b + d) = a * b + a * d /\ a * (b + 1 + d) = a * b + a + a * d
           /\ a * (b + 1) = a * b + a /\ a * (b + 2 + d) = a * b + a + a + a * d
           /\ a * b \in Nat /\ b * a \in Nat /\ a * b = b * a /\ a * d \in Nat
           /\ (b * a) * c \in Nat /\ a * (b * c + d) \in Nat
  OBVIOUS

\* Where c is: q rounds, k windows and r numbers from the start.
At(c, s, w, q, k, r) ==
    /\ q \in Nat /\ k \in 0 .. w - 1 /\ r \in 0 .. s - 1
    /\ c = (w * s) * q + (s * k + r) /\ c % (w * s) = s * k + r
    /\ c \div s = w * q + k /\ c % s = r
    /\ (c % (w * s)) \div s = k /\ (c % (w * s)) % s = r

\* Everything is somewhere.
LEMMA RoundOf ==
    ASSUME NEW s \in Nat \ {0}, NEW w \in Nat \ {0}, NEW c \in Nat
    PROVE  /\ \E q, k, r : At(c, s, w, q, k, r)
           /\ w * s \in Nat \ {0}
  <1> PICK m : m = w * s
    OBVIOUS
  <1> PICK n : n = c % m
    OBVIOUS
  <1> PICK k : k = n \div s
    OBVIOUS
  <1> PICK r : r = n % s
    OBVIOUS
  <1> PICK q : q = c \div m
    OBVIOUS
  <1>0. s \in Nat /\ w \in Nat /\ s >= 1 /\ w >= 1
    OBVIOUS
  <1>1. m \in Nat \ {0}
    <2>1. \A a, b \in Nat \ {0} : a * b \in Nat /\ a * b >= 1
      OBVIOUS
    <2> QED
      BY <2>1
  <1>2. q \in Nat /\ n \in 0 .. m - 1 /\ c = m * q + n
    BY ONLY <1>1, c \in Nat, q = c \div m, n = c % m, DivMod
  <1>3. n \in Nat
    BY ONLY <1>1, <1>2
  <1>4. k \in Nat /\ r \in 0 .. s - 1 /\ n = s * k + r
    BY ONLY <1>3, s \in Nat \ {0}, k = n \div s, r = n % s, DivMod
  <1>5. k < w
    <2>a. k \in Nat /\ w \in Nat
      BY <1>4
    <2>1. SUFFICES ASSUME k >= w PROVE FALSE
      BY <2>a
    <2>2. PICK d \in Nat : k = w + d
      <3>1. k - w \in Nat /\ k = w + (k - w)
        BY ONLY <1>0, <1>4, <2>1
      <3> QED
        BY ONLY <3>1
    <2>3. s * k = s * w + s * d /\ s * d \in Nat /\ s * w = m
      <3>1. s * (w + d) = s * w + s * d /\ s * d \in Nat /\ s * w = w * s
        BY ONLY <1>0, d \in Nat, Products
      <3> QED
        BY <2>2, <3>1
    <2>5. n >= m
      BY ONLY <1>0, <1>1, <1>3, <1>4, <2>3
    <2> QED
      BY ONLY <1>1, <1>2, <2>5
  <1>6. c = s * (w * q + k) + r
    <2>1. s * (w * q + k) = (w * s) * q + s * k
      BY ONLY <1>0, <1>2, <1>4, Products
    <2>2. s * (w * q + k) \in Nat /\ (w * s) * q \in Nat /\ s * k \in Nat
      BY ONLY <1>0, <1>2, <1>4, Products
    <2>3. s * (w * q + k) = m * q + s * k /\ m * q \in Nat
      BY <2>1, <2>2
    <2> QED
      BY ONLY <1>0, <1>2, <1>4, <2>2, <2>3
  <1>7. w * q + k \in Nat
    BY ONLY <1>0, <1>2, <1>4, Products
  <1>8. c \div s = w * q + k /\ c % s = r
    <2> PICK x : x = w * q + k
      OBVIOUS
    <2>1. (s * x + r) \div s = x /\ (s * x + r) % s = r
      BY ONLY <1>4, <1>7, x = w * q + k, s \in Nat \ {0}, DivUnique
    <2> QED
      BY <1>6, <2>1
  <1>9. k \in 0 .. w - 1
    BY ONLY <1>0, <1>4, <1>5
  <1>10. At(c, s, w, q, k, r)
    BY <1>2, <1>4, <1>8, <1>9 DEF At
  <1> QED
    BY <1>1, <1>10

\* Where c is from e, and their windows from each other.
Apart(s, w, m, e, c, x, y, u, v, sc, se) ==
    /\ x \in Nat /\ y \in Nat /\ u \in 0 .. w - 1 /\ v \in 0 .. w - 1
    /\ sc \in Nat /\ se \in Nat /\ se <= sc
    /\ \/ x = y + (c - e) /\ u + se = v + sc
       \/ x < y /\ x + m = y + (c - e) /\ u + w + se = v + sc /\ u < v

\* Less than a round from e to c, their numbers and windows are as far apart,
\* either directly or round the end.
LEMMA Rounds ==
    ASSUME NEW s \in Nat \ {0}, NEW w \in Nat \ {0},
           NEW e \in Nat, NEW c \in Nat, e <= c, NEW m, m = w * s,
           NEW x, x = c % m, NEW y, y = e % m,
           NEW u, u = x \div s, NEW v, v = y \div s,
           NEW sc, sc = c \div s, NEW se, se = e \div s, sc < se + w
    PROVE  Apart(s, w, m, e, c, x, y, u, v, sc, se)
  <1>0. /\ s \in Nat /\ w \in Nat /\ s >= 1 /\ w >= 1 /\ m \in Nat
        /\ e \in Nat /\ c \in Nat /\ e <= c /\ sc < se + w
    BY RoundOf
  <1>1. PICK p, k, r : At(c, s, w, p, k, r)
    BY RoundOf
  <1>2. PICK q, l, t : At(e, s, w, q, l, t)
    BY RoundOf
  <1>a. /\ p \in Nat /\ u = k /\ k \in 0 .. w - 1 /\ r \in 0 .. s - 1
        /\ c = m * p + x /\ x = s * u + r /\ sc = w * p + u
    BY <1>1 DEF At
  <1>b. /\ q \in Nat /\ v = l /\ l \in 0 .. w - 1 /\ t \in 0 .. s - 1
        /\ e = m * q + y /\ y = s * v + t /\ se = w * q + v
    BY <1>2 DEF At
  <1>c. /\ u \in Nat /\ v \in Nat /\ u < w /\ v < w /\ r \in Nat /\ t \in Nat
        /\ r < s /\ t < s
    BY ONLY <1>0, <1>a, <1>b
  <1>d. /\ s * u \in Nat /\ s * v \in Nat /\ w * p \in Nat /\ w * q \in Nat
        /\ m * p \in Nat /\ m * q \in Nat
    BY ONLY <1>0, <1>a, <1>b, <1>c, Products
  <1>e. x \in Nat /\ y \in Nat /\ sc \in Nat /\ se \in Nat
    BY ONLY <1>a, <1>b, <1>c, <1>d
  <1>f. se <= sc
    BY <1>0, <1>e, DivMonotone
  <1>3. p >= q
    <2>a. p \in Nat /\ q \in Nat
      BY <1>a, <1>b
    <2>1. SUFFICES ASSUME q > p PROVE FALSE
      BY <2>a
    <2>2. PICK d \in Nat : q = p + 1 + d
      <3>1. q - p - 1 \in Nat /\ q = p + 1 + (q - p - 1)
        BY ONLY <1>a, <1>b, <2>1
      <3> QED
        BY ONLY <3>1
    <2>3. w * q = w * p + w + w * d /\ w * d \in Nat
      <3>1. w * (p + 1 + d) = w * p + w + w * d /\ w * d \in Nat
        BY ONLY <1>0, <1>a, d \in Nat, Products
      <3> QED
        BY <2>2, <3>1
    <2> QED
      BY ONLY <1>0, <1>a, <1>b, <1>c, <1>d, <1>f, <2>3
  <1>4. p <= q + 1
    <2>a. p \in Nat /\ q \in Nat
      BY <1>a, <1>b
    <2>1. SUFFICES ASSUME p > q + 1 PROVE FALSE
      BY <2>a
    <2>2. PICK d \in Nat : p = q + 2 + d
      <3>1. p - q - 2 \in Nat /\ p = q + 2 + (p - q - 2)
        BY ONLY <1>a, <1>b, <2>1
      <3> QED
        BY ONLY <3>1
    <2>3. w * p = w * q + w + w + w * d /\ w * d \in Nat
      <3>1. w * (q + 2 + d) = w * q + w + w + w * d /\ w * d \in Nat
        BY ONLY <1>0, <1>b, d \in Nat, Products
      <3> QED
        BY <2>2, <3>1
    <2> QED
      BY ONLY <1>0, <1>a, <1>b, <1>c, <1>d, <2>3
  <1>5. CASE p = q
    <2>1. m * p = m * q /\ w * p = w * q
      BY <1>5
    <2>2. x = y + (c - e) /\ u + se = v + sc
      BY ONLY <1>0, <1>a, <1>b, <1>c, <1>d, <1>e, <2>1
    <2> QED
      BY <1>a, <1>b, <1>e, <1>f, <2>2 DEF Apart
  <1>6. CASE p = q + 1
    <2>1. w * p = w * q + w
      <3>1. w * (q + 1) = w * q + w
        BY ONLY <1>0, <1>b, Products
      <3> QED
        BY <1>6, <3>1
    <2>2. u + w + se = v + sc /\ u < v
      BY ONLY <1>0, <1>a, <1>b, <1>c, <1>d, <1>e, <2>1
    <2>a. x + m = y + (c - e)
      <3>1. m * (q + 1) = m * q + m
        BY ONLY <1>0, <1>b, Products
      <3>2. m * p = m * q + m
        BY <1>6, <3>1
      <3> QED
        BY ONLY <1>0, <1>a, <1>b, <1>d, <1>e, <3>2
    <2>3. x < y
      <3>1. PICK d \in Nat : v = u + 1 + d
        <4>1. v - u - 1 \in Nat /\ v = u + 1 + (v - u - 1)
          BY ONLY <1>c, <2>2
        <4> QED
          BY ONLY <4>1
      <3>2. s * v = s * u + s + s * d /\ s * d \in Nat
        <4>1. s * (u + 1 + d) = s * u + s + s * d /\ s * d \in Nat
          BY ONLY <1>0, <1>c, d \in Nat, Products
        <4> QED
          BY <3>1, <4>1
      <3> QED
        BY ONLY <1>a, <1>b, <1>c, <1>d, <3>2
    <2> QED
      BY <1>a, <1>b, <1>e, <1>f, <2>2, <2>3, <2>a DEF Apart
  <1>7. p = q \/ p = q + 1
    BY ONLY <1>a, <1>b, <1>3, <1>4
  <1> QED
    BY <1>5, <1>6, <1>7

\* k windows more.
LEMMA WindowsApart ==
    ASSUME NEW s \in Nat \ {0}, NEW k \in Nat, NEW a \in Nat, NEW c \in Nat,
           a <= c + k * s
    PROVE  a \div s <= (c \div s) + k
  <1> PICK q : q = c \div s
    OBVIOUS
  <1> PICK r : r = c % s
    OBVIOUS
  <1>1. q \in Nat /\ r \in 0 .. s - 1 /\ c = s * q + r
    BY DivMod
  <1> PICK x : x = q + k
    OBVIOUS
  <1>2. s * x = s * q + k * s /\ x \in Nat /\ s * q \in Nat /\ k * s \in Nat
    BY <1>1
  <1> PICK b : b = s * x + r
    OBVIOUS
  <1>3. a <= b /\ b \in Nat
    BY <1>1, <1>2
  <1>4. b \div s = x
    BY ONLY <1>1, <1>2, b = s * x + r, s \in Nat \ {0}, DivUnique
  <1>5. a \div s <= b \div s
    BY <1>3, DivMonotone
  <1> QED
    BY <1>4, <1>5

\* Products grow.
LEMMA ProductsGrow ==
    ASSUME NEW a \in Nat, NEW b \in Nat, NEW c \in Nat, b <= c
    PROVE  a * b <= a * c /\ a * b \in Nat /\ a * c \in Nat
  <1>1. PICK d \in Nat : c = b + d
    <2>1. c - b \in Nat /\ c = b + (c - b)
      OBVIOUS
    <2> QED
      BY <2>1
  <1>2. a * (b + d) = a * b + a * d /\ a * b \in Nat /\ a * d \in Nat
    BY ONLY <1>1, a \in Nat, b \in Nat, Products
  <1>3. a * c = a * b + a * d
    BY <1>1, <1>2
  <1> QED
    BY ONLY <1>2, <1>3

-----------------------------------------------------------------------------
(***************************************************************************)
(* Unsequenced packets.                                                    *)
(***************************************************************************)

\* Where a group is, and where its window begins.
LEMMA GroupIs ==
    ASSUME NEW g \in Nat
    PROVE  /\ g % Groups \in 0 .. Groups - 1
           /\ g \div UnsequencedWindowSize \in Nat
           /\ GroupWindow(g % Groups)
                 = UnsequencedWindowSize
                      * ((g \div UnsequencedWindowSize) % UnsequencedWindows)
           /\ GroupWindow(g % Groups)
                 = UnsequencedWindowSize * ((g % Groups) \div UnsequencedWindowSize)
           /\ (g % Groups) % UnsequencedWindowSize = g % UnsequencedWindowSize
           /\ g % UnsequencedWindowSize \in 0 .. UnsequencedWindowSize - 1
  <1> PICK s : s = UnsequencedWindowSize
    OBVIOUS
  <1> PICK w : w = UnsequencedWindows
    OBVIOUS
  <1>1. s \in Nat \ {0} /\ w \in Nat \ {0}
    BY Constants
  <1>2. Groups = w * s
    BY DEF Groups
  <1>3. PICK q, k, r : At(g, s, w, q, k, r)
    BY <1>1, RoundOf
  <1>4. /\ q \in Nat /\ k \in 0 .. w - 1 /\ r \in 0 .. s - 1
        /\ g \div s = w * q + k /\ g % s = r
        /\ (g % (w * s)) \div s = k /\ (g % (w * s)) % s = r
    BY <1>3 DEF At
  <1>5. g % Groups \in 0 .. Groups - 1
    BY GroupsIs
  <1>6. GroupWindow(g % Groups) = s * k
    BY <1>2, <1>4, <1>5, GroupWindowIs
  <1>7. (g \div s) % w = k /\ g \div s \in Nat
    <2>1. (w * q + k) % w = k
      BY ONLY <1>1, <1>4, DivUnique
    <2> QED
      BY <1>1, <1>4, <2>1, DivMod
  <1> QED
    BY <1>2, <1>4, <1>5, <1>6, <1>7

\* The group of a packet.
LEMMA PacketGroup ==
    ASSUME PacketsInv, NEW p \in DOMAIN packets
    PROVE  /\ packets[p].group \in Nat /\ GroupSpan(p) \in Nat
           /\ p \in Nat \ {0} /\ Len(packets) \in Nat /\ p <= Len(packets)
           /\ packets[p] \in OutgoingCommands
  <1>1. /\ packets[p] \in OutgoingCommands
        /\ p \in Nat \ {0} /\ Len(packets) \in Nat /\ p <= Len(packets)
    <2>1. packets \in Seq(OutgoingCommands)
      BY DEF PacketsInv
    <2>2. Len(packets) \in Nat /\ DOMAIN packets = 1 .. Len(packets)
      BY <2>1, LenProperties
    <2> QED
      BY <2>1, <2>2
  <1>2. packets[p].group \in Nat
    BY <1>1 DEF OutgoingCommands
  <1>3. GroupSpan(p) \in Nat
    BY <1>2, GroupIs DEF GroupSpan
  <1> QED
    BY <1>1, <1>2, <1>3

\* A group that is let in is not of an older window, unless it is older than any
\* datagram.
LEMMA OvertakenGroup ==
    ASSUME PacketsInv, GroupsLast, NEW p \in DOMAIN packets, NEW q \in DOMAIN packets,
           Alive(p), incomingGroup = GroupWindow(packets[q].group % Groups),
           InUnsequencedWindow(packets[p].group % Groups)
    PROVE  GroupSpan(q) <= GroupSpan(p)
  <1> PICK s : s = UnsequencedWindowSize
    OBVIOUS
  <1> PICK w : w = UnsequencedWindows
    OBVIOUS
  <1> PICK f : f = FreeUnsequencedWindows
    OBVIOUS
  <1> PICK e : e = packets[p].group
    OBVIOUS
  <1> PICK c : c = packets[q].group
    OBVIOUS
  <1> PICK m : m = w * s
    OBVIOUS
  <1> PICK x : x = c % m
    OBVIOUS
  <1> PICK y : y = e % m
    OBVIOUS
  <1> PICK u : u = x \div s
    OBVIOUS
  <1> PICK v : v = y \div s
    OBVIOUS
  <1> PICK sc : sc = c \div s
    OBVIOUS
  <1> PICK se : se = e \div s
    OBVIOUS
  <1>1. /\ s \in Nat \ {0} /\ w \in Nat \ {0} /\ f \in Nat /\ f >= 1 /\ w >= f + f
        /\ s \in Nat /\ w \in Nat /\ s >= 1
    BY Constants
  <1>2. e \in Nat /\ c \in Nat /\ sc \in Nat /\ se \in Nat
    BY PacketGroup, GroupIs
  <1>3. GroupSpan(q) = sc /\ GroupSpan(p) = se
    BY DEF GroupSpan
  <1>4. SUFFICES ASSUME sc > se PROVE FALSE
    BY <1>2, <1>3
  <1>5. q > p /\ e <= c /\ c <= e + (q - p) /\ q - p \in Nat
    <2>1. p \in Nat /\ q \in Nat
      BY PacketGroup
    <2>2. ASSUME q < p PROVE FALSE
      <3>1. Follows(packets[q], packets[p], p - q)
        BY <2>2 DEF PacketsInv
      <3>2. c <= e
        BY <3>1 DEF Follows
      <3> QED
        BY <1>1, <1>2, <1>4, <3>2, DivMonotone
    <2>3. q # p
      BY <1>2, <1>4
    <2>4. q > p
      BY <2>1, <2>2, <2>3
    <2>5. Follows(packets[p], packets[q], q - p)
      BY <2>4 DEF PacketsInv
    <2> QED
      BY <2>1, <2>4, <2>5 DEF Follows
  <1>6. q - p <= (w - f) * s
    <2>1. Len(packets) - p < Lifetime /\ q <= Len(packets) /\ Len(packets) \in Nat
          /\ q \in Nat /\ p \in Nat
      BY PacketGroup DEF Alive
    <2>2. Lifetime <= (w - f) * s + 1
      BY DEF GroupsLast
    <2>3. Lifetime \in Nat /\ w - f \in Nat
      BY <1>1, Constants
    <2>4. (w - f) * s \in Nat
      BY ONLY <1>1, <2>3, Products
    <2> QED
      BY ONLY <2>1, <2>2, <2>3, <2>4
  <1> PICK d : d = w - f
    OBVIOUS
  <1>7. d \in Nat /\ d + f = w
    BY ONLY <1>1, d = w - f
  <1>8. sc <= se + d
    <2>1. d * s \in Nat
      BY ONLY <1>1, <1>7, Products
    <2>2. q - p <= d * s
      BY <1>6
    <2>3. c <= e + d * s
      BY ONLY <1>2, <1>5, <2>1, <2>2
    <2> QED
      BY <1>1, <1>2, <1>7, <2>3, WindowsApart
  <1>9. sc < se + w
    BY ONLY <1>1, <1>2, <1>7, <1>8
  <1>a. Apart(s, w, m, e, c, x, y, u, v, sc, se)
    BY <1>1, <1>2, <1>5, <1>9, Rounds
  <1>10. /\ x \in Nat /\ y \in Nat /\ u \in 0 .. w - 1 /\ v \in 0 .. w - 1
         /\ \/ x = y + (c - e) /\ u + se = v + sc
            \/ x < y /\ u + w + se = v + sc /\ u < v
    BY <1>a DEF Apart
  <1>11. u \in Nat /\ v \in Nat
    BY ONLY <1>1, <1>10
  <1>12. /\ \/ u > v /\ u + f <= v + w
            \/ u < v /\ u + f <= v
    BY ONLY <1>1, <1>2, <1>4, <1>7, <1>8, <1>10, <1>11
  <1> PICK g : g = s * u
    OBVIOUS
  <1> PICK h : h = s * v
    OBVIOUS
  <1>13. Groups = w * s
    BY DEF Groups
  <1>14. incomingGroup = g
    BY <1>2, <1>13, GroupIs
  <1>15. y = h + (y % s) /\ y % s \in 0 .. s - 1
    BY <1>1, <1>10, DivMod
  <1>16. /\ g \in Nat /\ h \in Nat /\ f * s \in Nat /\ w * s \in Nat
         /\ s * (u + f) = g + f * s /\ s * (v + w) = h + w * s
    BY ONLY <1>1, <1>11, g = s * u, h = s * v, Products
  <1>17. y + (IF y < g THEN w * s ELSE 0) < g + f * s
    BY <1>13, <1>14 DEF InUnsequencedWindow
  <1>18. CASE u > v /\ u + f <= v + w
    <2>1. s * (u + f) <= s * (v + w)
      <3>1. u + f \in Nat /\ v + w \in Nat
        BY ONLY <1>1, <1>11
      <3> QED
        BY <1>1, <1>18, <3>1, ProductsGrow
    <2>2. h + s <= g
      <3>1. v + 1 \in Nat /\ v + 1 <= u
        BY ONLY <1>11, <1>18
      <3>2. s * (v + 1) <= s * u
        BY <1>1, <1>11, <3>1, ProductsGrow
      <3>3. s * (v + 1) = h + s
        BY <1>1, <1>11, Products
      <3> QED
        BY <3>2, <3>3
    <2>3. y < g
      BY ONLY <1>1, <1>10, <1>15, <1>16, <2>2
    <2> QED
      BY ONLY <1>10, <1>15, <1>16, <1>17, <2>1, <2>3
  <1>19. CASE u < v /\ u + f <= v
    <2>1. s * (u + f) <= h
      <3>1. u + f \in Nat
        BY ONLY <1>1, <1>11
      <3> QED
        BY <1>1, <1>11, <1>19, <3>1, ProductsGrow
    <2>2. g <= h
      BY <1>1, <1>11, <1>19, ProductsGrow
    <2>3. ~(y < g)
      BY ONLY <1>1, <1>10, <1>15, <1>16, <2>2
    <2> QED
      BY ONLY <1>1, <1>10, <1>15, <1>16, <1>17, <2>1, <2>3
  <1> QED
    BY <1>12, <1>18, <1>19

\* Windows that are the same are one.
LEMMA SameWindow ==
    ASSUME PacketsInv, NEW p \in DOMAIN packets, NEW q \in DOMAIN packets,
           GroupSpan(p) = GroupSpan(q)
    PROVE  GroupWindow(packets[p].group % Groups)
              = GroupWindow(packets[q].group % Groups)
  BY PacketGroup, GroupIs DEF GroupSpan

\* A copy of a packet that was received is not let in.
LEMMA BarredOut ==
    ASSUME PacketsInv, GroupsLast, NEW p \in DOMAIN packets, Alive(p), Barred(p),
           InUnsequencedWindow(packets[p].group % Groups)
    PROVE  /\ GroupWindow(packets[p].group % Groups) = incomingGroup
           /\ (packets[p].group % Groups) % UnsequencedWindowSize \in unsequencedWindow
  <1>1. PICK q \in DOMAIN packets :
           /\ incomingGroup = GroupWindow(packets[q].group % Groups)
           /\ GroupSpan(p) <= GroupSpan(q)
           /\ GroupSpan(p) = GroupSpan(q) =>
                 packets[p].group % UnsequencedWindowSize \in unsequencedWindow
    BY DEF Barred
  <1>2. GroupSpan(q) <= GroupSpan(p)
    BY <1>1, OvertakenGroup
  <1>3. GroupSpan(p) = GroupSpan(q)
    BY <1>1, <1>2, PacketGroup
  <1> QED
    BY <1>1, <1>3, SameWindow, PacketGroup, GroupIs

\* What was barred still is when an unsequenced packet arrives, and so is that.
LEMMA BarredStill ==
    ASSUME PacketsInv, ListsInv, GroupsLast, NEW p \in DOMAIN packets,
           ReceiveUnsequenced(p), NEW x \in DOMAIN packets,
           \/ Barred(x)
           \/ x = p /\ totalWaitingData < MaximumWaiting
    PROVE  Barred(x)'
  <1> PICK group : group = packets[p].group % Groups
    OBVIOUS
  <1> PICK index : index = group % UnsequencedWindowSize
    OBVIOUS
  <1>1. /\ Alive(p) /\ InUnsequencedWindow(group)
        /\ incomingGroup' = GroupWindow(group) /\ UNCHANGED packets
        /\ GroupWindow(group) = incomingGroup
              => unsequencedWindow \subseteq unsequencedWindow'
        /\ totalWaitingData < MaximumWaiting => index \in unsequencedWindow'
    <2> PICK window :
           window = IF GroupWindow(group) = incomingGroup THEN unsequencedWindow
                    ELSE {}
      OBVIOUS
    <2>1. totalWaitingData \in Nat /\ MaximumWaiting \in Nat
      BY Constants DEF ListsInv
    <2>2. /\ Arrives(p, "SEND_UNSEQUENCED") /\ InUnsequencedWindow(group)
          /\ incomingGroup' = GroupWindow(group) /\ UNCHANGED packets
          /\ \/ unsequencedWindow' = window \cup {index}
             \/ totalWaitingData >= MaximumWaiting /\ unsequencedWindow' = window
      BY DEF ReceiveUnsequenced
    <2>3. window \subseteq unsequencedWindow'
      BY <2>2
    <2>4. totalWaitingData < MaximumWaiting => index \in unsequencedWindow'
      BY <2>1, <2>2
    <2> QED
      BY <2>2, <2>3, <2>4 DEF Arrives
  <1>2. index = packets[p].group % UnsequencedWindowSize
    BY PacketGroup, GroupIs
  <1>3. GroupSpan(p) \in Nat /\ GroupSpan(x) \in Nat
    BY PacketGroup
  <1>4. ASSUME NEW q \in DOMAIN packets,
               incomingGroup' = GroupWindow(packets[q].group % Groups),
               GroupSpan(x) <= GroupSpan(q),
               GroupSpan(x) = GroupSpan(q) =>
                  packets[x].group % UnsequencedWindowSize \in unsequencedWindow'
        PROVE  Barred(x)'
    BY <1>1, <1>4 DEF Barred, GroupSpan
  <1>5. CASE x = p /\ totalWaitingData < MaximumWaiting
    BY <1>1, <1>2, <1>3, <1>4, <1>5
  <1>6. CASE Barred(x)
    <2>1. PICK q \in DOMAIN packets :
             /\ incomingGroup = GroupWindow(packets[q].group % Groups)
             /\ GroupSpan(x) <= GroupSpan(q)
             /\ GroupSpan(x) = GroupSpan(q) =>
                   packets[x].group % UnsequencedWindowSize \in unsequencedWindow
      BY <1>6 DEF Barred
    <2>2. CASE GroupWindow(group) = incomingGroup
      BY <1>1, <1>4, <2>1, <2>2
    <2>3. CASE GroupWindow(group) # incomingGroup
      <3>1. GroupSpan(q) <= GroupSpan(p)
        BY <1>1, <2>1, OvertakenGroup
      <3>2. GroupSpan(q) # GroupSpan(p)
        BY <2>1, <2>3, SameWindow
      <3>3. GroupSpan(q) \in Nat
        BY PacketGroup
      <3>4. GroupSpan(x) < GroupSpan(p)
        BY <1>3, <2>1, <3>1, <3>2, <3>3
      <3> QED
        BY <1>1, <1>3, <1>4, <3>4
    <2> QED
      BY <2>2, <2>3
  <1> QED
    BY <1>5, <1>6


-----------------------------------------------------------------------------
(***************************************************************************)
(* The lists that the handlers dispatch from.                              *)
(***************************************************************************)

\* A list is that of the channel with e at place k.
Inserted(list, k, e) ==
    /\ k \in 1 .. Len(commands) + 1
    /\ DOMAIN list = 1 .. Len(commands) + 1 /\ list[k] = e
    /\ \A j \in 1 .. k - 1 : list[j] = commands[j]
    /\ \A j \in k .. Len(commands) : list[j + 1] = commands[j]

\* Where the entries of such a list come from.
LEMMA InsertedFrom ==
    ASSUME Waiting(commands), NEW k, NEW e, NEW list, Inserted(list, k, e)
    PROVE  /\ k \in DOMAIN list /\ list[k] = e /\ k \in Nat \ {0}
           /\ Len(commands) \in Nat /\ DOMAIN commands = 1 .. Len(commands)
           /\ DOMAIN list = 1 .. Len(commands) + 1
           /\ \A i \in DOMAIN list :
                 i = k \/ \E j \in DOMAIN commands :
                    list[i] = commands[j] /\ ((i = j /\ i < k) \/ (i = j + 1 /\ i > k))
  <1>1. /\ k \in 1 .. Len(commands) + 1
        /\ DOMAIN list = 1 .. Len(commands) + 1 /\ list[k] = e
        /\ \A j \in 1 .. k - 1 : list[j] = commands[j]
        /\ \A j \in k .. Len(commands) : list[j + 1] = commands[j]
    BY DEF Inserted
  <1>2. DOMAIN commands = 1 .. Len(commands) /\ Len(commands) \in Nat
    BY LenProperties DEF Waiting
  <1>3. ASSUME NEW i \in DOMAIN list
        PROVE  i = k \/ \E j \in DOMAIN commands :
                    list[i] = commands[j] /\ ((i = j /\ i < k) \/ (i = j + 1 /\ i > k))
    <2>1. i \in Nat /\ i >= 1 /\ i <= Len(commands) + 1
      BY <1>1, <1>2
    <2>2. CASE i < k
      <3>1. i \in 1 .. k - 1 /\ i \in DOMAIN commands
        BY <1>1, <1>2, <2>1, <2>2
      <3> QED
        BY <1>1, <2>2, <3>1
    <2>3. CASE i > k
      <3>1. /\ i - 1 \in k .. Len(commands) /\ i - 1 \in DOMAIN commands
            /\ (i - 1) + 1 = i
        BY <1>1, <1>2, <2>1, <2>3
      <3>2. list[i] = commands[i - 1]
        BY <1>1, <3>1
      <3> QED
        BY <2>3, <3>1, <3>2
    <2> QED
      BY <1>1, <1>2, <2>1, <2>2, <2>3
  <1> QED
    BY <1>1, <1>2, <1>3

\* The list with an entry inserted.
LEMMA InsertedWaiting ==
    ASSUME Waiting(commands), NEW k \in 1 .. Len(commands) + 1,
           NEW e \in IncomingCommands, EntryOf(e, packets),
           packets[e.packet].kind \in Unreliables,
           NEW list, list = InsertAt(commands, k, e)
    PROVE  Waiting(list) /\ Inserted(list, k, e)
  <1>1. /\ commands \in Seq(IncomingCommands)
        /\ \A i \in DOMAIN commands :
              /\ EntryOf(commands[i], packets)
              /\ packets[commands[i].packet].kind \in Unreliables
    BY DEF Waiting
  <1>2. /\ list \in Seq(IncomingCommands)
        /\ DOMAIN list = 1 .. Len(commands) + 1
        /\ \A j \in 1 .. k - 1 : list[j] = commands[j]
        /\ list[k] = e
        /\ \A j \in k .. Len(commands) : list[j + 1] = commands[j]
    BY <1>1, InsertedAt
  <1>3. Inserted(list, k, e)
    BY <1>2 DEF Inserted
  <1>4. ASSUME NEW i \in DOMAIN list
        PROVE  EntryOf(list[i], packets) /\ packets[list[i].packet].kind \in Unreliables
    <2>1. i = k \/ \E j \in DOMAIN commands : list[i] = commands[j]
      BY <1>3, InsertedFrom
    <2>2. CASE i = k
      BY <1>2, <2>2
    <2>3. CASE i # k
      <3>1. PICK j \in DOMAIN commands : list[i] = commands[j]
        BY <2>1, <2>3
      <3> QED
        BY <1>1, <3>1
    <2> QED
      BY <2>2, <2>3
  <1> QED
    BY <1>2, <1>3, <1>4 DEF Waiting

\* That of enet_protocol_handle_send_unreliable.
UnreliableList(p) ==
    InsertAt(commands, Position(Number(packets[p].reliable), packets[p].unreliable) + 1,
             Entry(p, {1}))

\* The new entry of it is whole.
LEMMA UnreliableQueued ==
    ASSUME PacketsInv, ListsInv, NEW p \in DOMAIN packets,
           packets[p].kind = "SEND_UNRELIABLE",
           NEW k, k = Position(Number(packets[p].reliable), packets[p].unreliable) + 1,
           NEW list, list = UnreliableList(p)
    PROVE  \E e : /\ e.packet = p /\ e.fragmentsRemaining = 0
                  /\ Waiting(list) /\ Inserted(list, k, e)
  <1> PICK e : e = Entry(p, {1})
    OBVIOUS
  <1>1. /\ packets \in Seq(OutgoingCommands) /\ Formed(packets[p])
        /\ Waiting(commands)
    BY DEF PacketsInv, ListsInv
  <1>2. packets[p].length = 1 /\ packets[p].kind \in Unreliables
    BY <1>1 DEF Formed, Unreliables
  <1>3. /\ e.packet = p /\ EntryOf(e, packets) /\ e \in IncomingCommands
        /\ e.fragmentsRemaining = 0
    BY <1>1, <1>2, SingleIs
  <1>4. k \in 1 .. Len(commands) + 1
    BY <1>1, PositionIs
  <1>5. Waiting(list) /\ Inserted(list, k, e)
    BY <1>1, <1>2, <1>3, <1>4, InsertedWaiting DEF UnreliableList
  <1> QED
    BY <1>3, <1>5

\* That of the first fragment of a packet.
FragmentList(p) ==
    InsertAt(commands, Position(Number(packets[p].reliable), packets[p].unreliable) + 1,
             Entry(p, {}))

\* The new entry of it lacks everything.
LEMMA FragmentQueued ==
    ASSUME PacketsInv, ListsInv, NEW p \in DOMAIN packets,
           packets[p].kind = "SEND_UNRELIABLE_FRAGMENT",
           NEW k, k = Position(Number(packets[p].reliable), packets[p].unreliable) + 1,
           NEW list, list = FragmentList(p)
    PROVE  \E e : /\ e.packet = p /\ e.fragmentsRemaining = packets[p].length
                  /\ e.fragmentsRemaining \in Nat \ {0}
                  /\ Waiting(list) /\ Inserted(list, k, e)
  <1> PICK e : e = Entry(p, {})
    OBVIOUS
  <1>1. packets \in Seq(OutgoingCommands) /\ Waiting(commands)
    BY DEF PacketsInv, ListsInv
  <1>2. packets[p].kind \in Unreliables
    BY DEF Unreliables
  <1>3. /\ e.packet = p /\ EntryOf(e, packets) /\ e \in IncomingCommands
        /\ e.fragmentsRemaining = packets[p].length
        /\ packets[p].length \in Nat \ {0}
    <2>1. {} \in SUBSET (1 .. packets[p].length)
      OBVIOUS
    <2> QED
      BY <1>1, <2>1, EntryIs
  <1>4. k \in 1 .. Len(commands) + 1
    BY <1>1, PositionIs
  <1>5. Waiting(list) /\ Inserted(list, k, e)
    BY <1>1, <1>2, <1>3, <1>4, InsertedWaiting DEF FragmentList
  <1> QED
    BY <1>3, <1>5

\* The list with one more fragment of a packet.
FurtherList(i, fragment) ==
    [commands EXCEPT ![i] = Copied(commands[i], fragment)]

\* It differs in that entry, which lacks one less.
LEMMA FurtherCopied ==
    ASSUME PacketsInv, ListsInv, NEW p \in DOMAIN packets,
           NEW fragment \in 1 .. packets[p].length, ReceiveFurtherFragment(p, fragment),
           NEW i, i = Position(Number(packets[p].reliable), packets[p].unreliable),
           NEW list, list = FurtherList(i, fragment)
    PROVE  /\ Waiting(list) /\ DOMAIN list = DOMAIN commands /\ i \in DOMAIN commands
           /\ \A j \in DOMAIN commands : j # i => list[j] = commands[j]
           /\ \A j \in DOMAIN commands : list[j].packet = commands[j].packet
           /\ list[i].fragmentsRemaining < commands[i].fragmentsRemaining
           /\ list[i].fragmentsRemaining \in Nat
           /\ UNCHANGED <<packets, reliables, incomingGroup, unsequencedWindow,
                          newest, taken>>
           /\ \/ list[i].fragmentsRemaining = 0 /\ DispatchUnreliable(list)
              \/ /\ list[i].fragmentsRemaining # 0 /\ commands' = list
                 /\ UNCHANGED <<dispatched, incomingUnreliable>>
  <1> PICK reliable : reliable = Number(packets[p].reliable)
    OBVIOUS
  <1> PICK unreliable : unreliable = packets[p].unreliable
    OBVIOUS
  <1> PICK c : c = Copied(commands[i], fragment)
    OBVIOUS
  <1>0. list = [commands EXCEPT ![i] = c]
    BY DEF FurtherList
  <1>1. packets \in Seq(OutgoingCommands)
    BY DEF PacketsInv
  <1>2. /\ Waiting(commands) /\ commands \in Seq(IncomingCommands)
        /\ \A j \in DOMAIN commands :
              /\ EntryOf(commands[j], packets)
              /\ packets[commands[j].packet].kind \in Unreliables
    BY DEF ListsInv, Waiting
  <1>3. i \in DOMAIN commands
    <2>1. i # 0
      BY DEF ReceiveFurtherFragment, IsQueued
    <2> QED
      BY <1>2, <2>1, PositionIs
  <1>4. packets[commands[i].packet].length = packets[p].length /\ list # commands
    BY <1>0 DEF ReceiveFurtherFragment
  <1>5. /\ EntryOf(c, packets) /\ c.packet = commands[i].packet /\ c \in IncomingCommands
        /\ c = commands[i]
              \/ commands[i].fragmentsRemaining = c.fragmentsRemaining + 1
    BY <1>1, <1>2, <1>3, <1>4, CopiedIs
  <1>6. /\ list \in Seq(IncomingCommands) /\ DOMAIN list = DOMAIN commands
        /\ list[i] = c /\ \A j \in DOMAIN commands : j # i => list[j] = commands[j]
    <2>1. /\ [commands EXCEPT ![i] = c] \in Seq(IncomingCommands)
          /\ Len([commands EXCEPT ![i] = c]) = Len(commands)
      BY <1>2, <1>3, <1>5, ExceptSeq, LenProperties
    <2> QED
      BY <1>0, <1>2, <1>3, <2>1, LenProperties
  <1>7. Waiting(list)
    <2>1. \A j \in DOMAIN list :
             EntryOf(list[j], packets) /\ packets[list[j].packet].kind \in Unreliables
      BY <1>2, <1>3, <1>5, <1>6
    <2> QED
      BY <1>6, <2>1 DEF Waiting
  <1>8. c # commands[i]
    <2>1. SUFFICES ASSUME c = commands[i] PROVE list = commands
      BY <1>4
    <2> QED
      BY <1>0, <1>2, <2>1, LenProperties
  <1>9. c.fragmentsRemaining \in Nat /\ commands[i].fragmentsRemaining \in Nat
    BY <1>2, <1>3, <1>5 DEF IncomingCommands, EntryOf
  <1>10. /\ UNCHANGED <<packets, reliables, incomingGroup, unsequencedWindow, newest,
                        taken>>
         /\ \/ list[i].fragmentsRemaining = 0 /\ DispatchUnreliable(list)
            \/ /\ list[i].fragmentsRemaining # 0 /\ commands' = list
               /\ UNCHANGED <<dispatched, incomingUnreliable>>
    BY <1>0 DEF ReceiveFurtherFragment
  <1>11. list[i].fragmentsRemaining < commands[i].fragmentsRemaining
         /\ list[i].fragmentsRemaining \in Nat
    BY <1>5, <1>6, <1>8, <1>9
  <1>12. \A j \in DOMAIN commands : list[j].packet = commands[j].packet
    BY <1>5, <1>6
  <1> QED
    BY <1>3, <1>6, <1>7, <1>10, <1>11, <1>12

\* Of what is moved, only the head of the list may be unsequenced.
OnlyHead(list, moved) ==
    /\ \A k \in DOMAIN moved :
          IsUnsequenced(moved[k]) => 1 \in DOMAIN list /\ moved[k] = list[1]
    /\ \A k, l \in DOMAIN moved :
          IsUnsequenced(moved[k]) /\ IsUnsequenced(moved[l]) => k = l

\* So it is for what a list gives the application.
LEMMA MovedIs ==
    ASSUME packets \in Seq(OutgoingCommands), NEW list, Dispatchable(list),
           NEW r, NEW u \in 0 .. MaximumUnreliable,
           NEW moved, moved = DispatchedFrom(list, r, u).moved
    PROVE  OnlyHead(list, moved)
  <1> PICK res : res = DispatchedFrom(list, r, u)
    OBVIOUS
  <1> PICK E : E = EntriesOf(packets)
    OBVIOUS
  <1>1. list \in Seq(E)
    BY ListsAre
  <1>2. PICK end, from, M :
           /\ Dispatches(list, r, u, end, from, M, res.unreliable)
           /\ res.moved = Picked(list, M)
           /\ res.left = Picked(list, Left(list, from, M))
           /\ res.unreliable \in 0 .. MaximumUnreliable
    BY <1>1, DispatchedIs
  <1>3. moved = Picked(list, M)
    BY <1>2
  <1>4. /\ moved \in Seq(E)
        /\ \A k \in DOMAIN moved : \E i \in DOMAIN list : moved[k] = list[i]
        /\ \A k, l \in DOMAIN moved : k < l =>
              \E i, j \in DOMAIN list : i < j /\ moved[k] = list[i] /\ moved[l] = list[j]
    <2>1. /\ moved \in Seq(E)
          /\ \A k \in DOMAIN moved : \E i \in DOMAIN list : i \in M /\ moved[k] = list[i]
          /\ \A k, l \in DOMAIN moved : k < l =>
                \E i, j \in DOMAIN list :
                   i \in M /\ j \in M /\ i < j /\ moved[k] = list[i] /\ moved[l] = list[j]
      BY ONLY <1>1, <1>3, PickedEntries
    <2> QED
      BY ONLY <2>1
  <1>5. DOMAIN moved \subseteq Nat /\ DOMAIN list \subseteq Nat \ {0}
    BY <1>1, <1>4, LenProperties
  <1>6. ASSUME NEW i \in DOMAIN list, IsUnsequenced(list[i]) PROVE i = 1
    BY <1>6 DEF Dispatchable, IsUnsequenced, Unreliables
  <1>7. ASSUME NEW k \in DOMAIN moved, NEW l \in DOMAIN moved, k < l
        PROVE  ~IsUnsequenced(moved[l])
    <2>1. PICK i, j \in DOMAIN list : i < j /\ moved[k] = list[i] /\ moved[l] = list[j]
      BY <1>4, <1>7
    <2>2. j # 1
      BY <1>5, <2>1
    <2> QED
      BY <1>6, <2>1, <2>2
  <1>8. \A k, l \in DOMAIN moved : k < l \/ l < k \/ k = l
    BY <1>5
  <1>9. \A k, l \in DOMAIN moved :
           IsUnsequenced(moved[k]) /\ IsUnsequenced(moved[l]) => k = l
    BY <1>7, <1>8
  <1>10. ASSUME NEW k \in DOMAIN moved, IsUnsequenced(moved[k])
         PROVE  1 \in DOMAIN list /\ moved[k] = list[1]
    <2>1. PICK i \in DOMAIN list : moved[k] = list[i]
      BY <1>4
    <2> QED
      BY <1>6, <1>10, <2>1
  <1> QED
    BY <1>9, <1>10 DEF OnlyHead

\* Of what a list of the channel gives the application, nothing is unsequenced.
LEMMA MovedSequenced ==
    ASSUME packets \in Seq(OutgoingCommands), NEW list, Waiting(list),
           NEW r, NEW u \in 0 .. MaximumUnreliable,
           NEW moved, moved = DispatchedFrom(list, r, u).moved
    PROVE  \A k \in DOMAIN moved : ~IsUnsequenced(moved[k])
  <1>1. Dispatchable(list)
    BY ListsAre
  <1>2. \A k \in DOMAIN moved :
           IsUnsequenced(moved[k]) => 1 \in DOMAIN list /\ moved[k] = list[1]
    BY <1>1, MovedIs DEF OnlyHead
  <1>3. 1 \in DOMAIN list => ~IsUnsequenced(list[1])
    BY DEF Waiting, IsUnsequenced, Unreliables
  <1> QED
    BY <1>2, <1>3

\* What follows what is dispatched.
LEMMA FollowedBy ==
    ASSUME NEW s, NEW x, Done(s), Done(x), NEW t, t = s \o x
    PROVE  /\ Len(s) \in Nat /\ DOMAIN s = 1 .. Len(s)
           /\ DOMAIN x = 1 .. Len(x) /\ Len(x) \in Nat
           /\ DOMAIN t = 1 .. Len(s) + Len(x)
           /\ \A i \in DOMAIN t :
                 \/ i \in DOMAIN s /\ t[i] = s[i]
                 \/ i \notin DOMAIN s /\ i - Len(s) \in DOMAIN x /\ t[i] = x[i - Len(s)]
  <1>1. s \in Seq(IncomingCommands) /\ x \in Seq(IncomingCommands)
    BY DEF Done
  <1>2. /\ t \in Seq(IncomingCommands) /\ Len(t) = Len(s) + Len(x)
        /\ \A i \in 1 .. Len(s) + Len(x) :
              t[i] = IF i <= Len(s) THEN s[i] ELSE x[i - Len(s)]
    BY <1>1, ConcatProperties
  <1>3. /\ Len(s) \in Nat /\ DOMAIN s = 1 .. Len(s)
        /\ Len(x) \in Nat /\ DOMAIN x = 1 .. Len(x)
        /\ DOMAIN t = 1 .. Len(s) + Len(x)
    BY <1>1, <1>2, LenProperties
  <1>4. ASSUME NEW i \in DOMAIN t
        PROVE  \/ i \in DOMAIN s /\ t[i] = s[i]
               \/ i \notin DOMAIN s /\ i - Len(s) \in DOMAIN x /\ t[i] = x[i - Len(s)]
    <2>1. CASE i <= Len(s)
      BY <1>2, <1>3, <2>1
    <2>2. CASE ~(i <= Len(s))
      <3>1. i - Len(s) \in 1 .. Len(x) /\ i \notin 1 .. Len(s)
        BY <1>3, <2>2
      <3>2. t[i] = x[i - Len(s)]
        BY <1>2, <1>3, <2>2
      <3> QED
        BY <1>3, <3>1, <3>2
    <2> QED
      BY <2>1, <2>2
  <1> QED
    BY <1>3, <1>4

\* No unsequenced packet is dispatched twice, if at most one is added, and that was
\* not received.
LEMMA OnceKept ==
    ASSUME UnsequencedOnce, UNCHANGED <<packets, taken>>, Done(dispatched),
           NEW x, Done(x), dispatched' = dispatched \o x, NEW A,
           \A k \in DOMAIN x : IsUnsequenced(x[k]) =>
              x[k].packet \in A /\ ~Received(x[k].packet),
           \A k, l \in DOMAIN x : IsUnsequenced(x[k]) /\ IsUnsequenced(x[l]) => k = l
    PROVE  UnsequencedOnce' /\ \A y : Received(y)' => Received(y) \/ y \in A
  <1> PICK s : s = dispatched
    OBVIOUS
  <1> PICK t : t = s \o x
    OBVIOUS
  <1> PICK n : n = Len(s)
    OBVIOUS
  <1>1. /\ n \in Nat /\ DOMAIN s = 1 .. n /\ DOMAIN t = 1 .. n + Len(x) /\ Len(x) \in Nat
        /\ \A i \in DOMAIN t :
              \/ i \in DOMAIN s /\ t[i] = s[i]
              \/ i \notin DOMAIN s /\ i - n \in DOMAIN x /\ t[i] = x[i - n]
    BY FollowedBy
  <1>2. dispatched' = t /\ \A e : IsUnsequenced(e)' <=> IsUnsequenced(e)
    BY DEF IsUnsequenced
  <1>3. \A i : i \in Unsequenced' <=> i \in DOMAIN t /\ IsUnsequenced(t[i])
    BY <1>2 DEF Unsequenced
  <1>4. \A i : i \in Unsequenced <=> i \in DOMAIN s /\ IsUnsequenced(s[i])
    BY DEF Unsequenced
  <1>5. \A i \in Unsequenced' :
           \/ i \in Unsequenced /\ t[i] = s[i]
           \/ /\ i \notin DOMAIN s /\ i - n \in DOMAIN x /\ IsUnsequenced(x[i - n])
              /\ t[i] = x[i - n] /\ t[i].packet \in A /\ ~Received(t[i].packet)
    BY <1>1, <1>3, <1>4
  <1>6. ASSUME NEW i \in Unsequenced' PROVE t[i].packet \notin taken
    BY <1>5 DEF UnsequencedOnce, Received
  <1>7. ASSUME NEW i \in Unsequenced', NEW j \in Unsequenced', i # j
        PROVE  t[i].packet # t[j].packet
    <2>1. CASE i \in Unsequenced /\ j \in Unsequenced
      <3>1. t[i] = s[i] /\ t[j] = s[j]
        BY <1>4, <1>5, <2>1
      <3>2. s[i].packet # s[j].packet
        BY <1>7, <2>1 DEF UnsequencedOnce
      <3> QED
        BY <3>1, <3>2
    <2>2. CASE i \in Unsequenced /\ j \notin Unsequenced
      <3>1. t[i] = s[i] /\ ~Received(t[j].packet)
        BY <1>4, <1>5, <2>2
      <3>2. Received(s[i].packet)
        BY <2>2 DEF Received
      <3> QED
        BY <3>1, <3>2
    <2>3. CASE i \notin Unsequenced /\ j \in Unsequenced
      <3>1. t[j] = s[j] /\ ~Received(t[i].packet)
        BY <1>4, <1>5, <2>3
      <3>2. Received(s[j].packet)
        BY <2>3 DEF Received
      <3> QED
        BY <3>1, <3>2
    <2>4. CASE i \notin Unsequenced /\ j \notin Unsequenced
      <3>1. /\ i - n \in DOMAIN x /\ IsUnsequenced(x[i - n])
            /\ j - n \in DOMAIN x /\ IsUnsequenced(x[j - n])
        BY <1>5, <2>4
      <3>2. i - n = j - n
        BY <3>1
      <3>3. i \in Nat /\ j \in Nat
        BY <1>1, <1>3
      <3> QED
        BY <1>1, <1>7, <3>2, <3>3
    <2> QED
      BY <2>1, <2>2, <2>3, <2>4
  <1>8. UnsequencedOnce'
    BY <1>2, <1>6, <1>7 DEF UnsequencedOnce
  <1>9. ASSUME NEW y, Received(y)' PROVE Received(y) \/ y \in A
    <2>1. CASE y \in taken'
      BY <2>1 DEF Received
    <2>2. CASE \E i \in Unsequenced' : t[i].packet = y
      <3>1. PICK i \in Unsequenced' : t[i].packet = y
        BY <2>2
      <3>2. CASE i \in Unsequenced /\ t[i] = s[i]
        BY <3>1, <3>2 DEF Received
      <3>3. CASE t[i].packet \in A
        BY <3>1, <3>3
      <3> QED
        BY <1>5, <3>2, <3>3
    <2> QED
      BY <1>2, <1>9, <2>1, <2>2 DEF Received
  <1> QED
    BY <1>8, <1>9

\* What is barred and alive does not change with the lists.
LEMMA OnceSame ==
    ASSUME OnceInv, UNCHANGED <<packets, taken, incomingGroup, unsequencedWindow>>,
           Done(dispatched), NEW x, Done(x), dispatched' = dispatched \o x,
           \A k \in DOMAIN x : ~IsUnsequenced(x[k])
    PROVE  OnceInv'
  <1>1. UnsequencedOnce /\ \A p \in DOMAIN packets : Alive(p) /\ Received(p) => Barred(p)
    BY DEF OnceInv
  <1> PICK A : A = {}
    OBVIOUS
  <1>2. UnsequencedOnce' /\ \A y : Received(y)' => Received(y) \/ y \in A
    <2>1. \A k \in DOMAIN x : IsUnsequenced(x[k]) =>
             x[k].packet \in A /\ ~Received(x[k].packet)
      OBVIOUS
    <2>2. \A k, l \in DOMAIN x : IsUnsequenced(x[k]) /\ IsUnsequenced(x[l]) => k = l
      OBVIOUS
    <2> QED
      BY <1>1, <2>1, <2>2, OnceKept
  <1>3. \A p \in DOMAIN packets : (Alive(p)' <=> Alive(p)) /\ (Barred(p) => Barred(p)')
    BY DEF Alive, Barred, GroupSpan
  <1>4. \A p \in DOMAIN packets' : Alive(p)' /\ Received(p)' => Barred(p)'
    BY <1>1, <1>2, <1>3
  <1> QED
    BY <1>2, <1>4 DEF OnceInv

\* So it is when packets that are not unsequenced are dispatched.
LEMMA OnceQueued ==
    ASSUME PacketsInv, ListsInv, OnceInv, NEW list, Waiting(list),
           UNCHANGED <<packets, taken, incomingGroup, unsequencedWindow>>,
           DispatchUnreliable(list)
    PROVE  OnceInv'
  <1> PICK r : r = Number(reliables)
    OBVIOUS
  <1> PICK res : res = DispatchedFrom(list, r, incomingUnreliable)
    OBVIOUS
  <1> PICK moved : moved = res.moved
    OBVIOUS
  <1>1. /\ packets \in Seq(OutgoingCommands) /\ incomingUnreliable \in 0 .. MaximumUnreliable
        /\ Done(dispatched)
    BY DEF PacketsInv, ListsInv
  <1>2. Done(moved)
    BY <1>1, ListsAre, DispatchKeeps
  <1>3. \A k \in DOMAIN moved : ~IsUnsequenced(moved[k])
    BY <1>1, MovedSequenced
  <1>4. dispatched' = dispatched \o moved
    BY DEF DispatchUnreliable
  <1> QED
    BY <1>1, <1>2, <1>3, <1>4, OnceSame

\* The reliable packets that are ready with p, and their entries.
ReadyReliables(p) ==
    {q \in DOMAIN packets :
        /\ packets[q].kind = "SEND_RELIABLE"
        /\ reliables < packets[q].reliable
        /\ packets[q].reliable <= packets[p].reliable}

ReliableNext(p) ==
    Picked([q \in DOMAIN packets |-> Entry(q, 1 .. packets[q].length)],
           ReadyReliables(p))

\* What ReceiveReliable adds to dispatchedCommands.
LEMMA ReliableAdds ==
    ASSUME PacketsInv, ListsInv, NEW p \in DOMAIN packets, ReceiveReliable(p),
           NEW next, next = ReliableNext(p),
           NEW r, r = Number(packets[p].reliable),
           NEW res, res = DispatchedFrom(commands, r, 0),
           NEW moved, moved = res.moved, NEW x, x = next \o moved
    PROVE  /\ Done(next) /\ Done(moved) /\ Done(x) /\ Waiting(res.left)
           /\ dispatched' = dispatched \o x
           /\ \A k \in DOMAIN next : next[k].packet \in ReadyReliables(p)
           /\ \A k, l \in DOMAIN next : k < l => next[k].packet < next[l].packet
  <1> PICK A : A = ReadyReliables(p)
    OBVIOUS
  <1> PICK whole : whole = [q \in DOMAIN packets |-> Entry(q, 1 .. packets[q].length)]
    OBVIOUS
  <1>1. packets \in Seq(OutgoingCommands) /\ Waiting(commands) /\ Done(dispatched)
    BY DEF PacketsInv, ListsInv
  <1>2. /\ Done(next) /\ \A k \in DOMAIN next : next[k].packet \in A
        /\ \A k, l \in DOMAIN next : k < l => next[k].packet < next[l].packet
    <2>1. next = Picked(whole, A)
      BY DEF ReliableNext
    <2> QED
      BY <2>1, NextIs
  <1>3. Done(moved) /\ Waiting(res.left)
    <2>1. 0 \in 0 .. MaximumUnreliable
      BY Constants
    <2> QED
      BY <1>1, <2>1, ListsAre, DispatchKeeps
  <1>4. Done(x)
    BY <1>2, <1>3, DoneBoth
  <1>5. dispatched' = (dispatched \o next) \o moved
    BY DEF ReceiveReliable, ReliableNext, ReadyReliables
  <1>6. (dispatched \o next) \o moved = dispatched \o x
    <2>1. /\ dispatched \in Seq(IncomingCommands) /\ next \in Seq(IncomingCommands)
          /\ moved \in Seq(IncomingCommands)
      BY <1>1, <1>2, <1>3 DEF Done
    <2> QED
      BY ONLY <2>1, x = next \o moved, ConcatAssociative
  <1> QED
    BY <1>2, <1>3, <1>4, <1>5, <1>6

\* So it is when a reliable packet arrives.
LEMMA OnceReliable ==
    ASSUME PacketsInv, ListsInv, OnceInv, NEW p \in DOMAIN packets, ReceiveReliable(p)
    PROVE  OnceInv'
  <1> PICK next : next = ReliableNext(p)
    OBVIOUS
  <1> PICK r : r = Number(packets[p].reliable)
    OBVIOUS
  <1> PICK res : res = DispatchedFrom(commands, r, 0)
    OBVIOUS
  <1> PICK moved : moved = res.moved
    OBVIOUS
  <1> PICK x : x = next \o moved
    OBVIOUS
  <1>1. packets \in Seq(OutgoingCommands) /\ Waiting(commands) /\ Done(dispatched)
    BY DEF PacketsInv, ListsInv
  <1>2. /\ Done(next) /\ Done(moved) /\ Done(x) /\ dispatched' = dispatched \o x
        /\ \A k \in DOMAIN next : next[k].packet \in ReadyReliables(p)
    BY ReliableAdds
  <1>3. \A k \in DOMAIN next : ~IsUnsequenced(next[k])
    BY <1>2 DEF IsUnsequenced, ReadyReliables
  <1>4. \A k \in DOMAIN moved : ~IsUnsequenced(moved[k])
    <2>1. 0 \in 0 .. MaximumUnreliable
      BY Constants
    <2> QED
      BY <1>1, <2>1, MovedSequenced
  <1>5. \A k \in DOMAIN x : ~IsUnsequenced(x[k])
    <2>1. \A i \in DOMAIN x :
             \/ i \in DOMAIN next /\ x[i] = next[i]
             \/ i - Len(next) \in DOMAIN moved /\ x[i] = moved[i - Len(next)]
      BY <1>2, FollowedBy
    <2> QED
      BY <1>3, <1>4, <2>1
  <1>6. UNCHANGED <<packets, taken, incomingGroup, unsequencedWindow>>
    BY DEF ReceiveReliable
  <1> QED
    BY <1>1, <1>2, <1>5, <1>6, OnceSame

\* Nor when nothing is dispatched.
LEMMA OnceStays ==
    ASSUME OnceInv, UNCHANGED <<packets, taken, incomingGroup, unsequencedWindow>>,
           UNCHANGED dispatched
    PROVE  OnceInv'
  <1>1. UnsequencedOnce' /\ \A y : Received(y)' => Received(y)
    BY DEF OnceInv, UnsequencedOnce, Received, Unsequenced, IsUnsequenced
  <1>2. \A p \in DOMAIN packets : (Alive(p)' <=> Alive(p)) /\ (Barred(p) => Barred(p)')
    BY DEF Alive, Barred, GroupSpan
  <1>3. \A p \in DOMAIN packets' : Alive(p)' /\ Received(p)' => Barred(p)'
    BY <1>1, <1>2 DEF OnceInv
  <1> QED
    BY <1>1, <1>3 DEF OnceInv

\* So it is when an unsequenced packet arrives.
LEMMA OnceUnsequenced ==
    ASSUME PacketsInv, ListsInv, OnceInv, GroupsLast, NEW p \in DOMAIN packets,
           ReceiveUnsequenced(p)
    PROVE  OnceInv'
  <1> PICK group : group = packets[p].group % Groups
    OBVIOUS
  <1> PICK index : index = group % UnsequencedWindowSize
    OBVIOUS
  <1> PICK window :
         window = IF GroupWindow(group) = incomingGroup THEN unsequencedWindow ELSE {}
    OBVIOUS
  <1> PICK e : e = Entry(p, {1})
    OBVIOUS
  <1> PICK list : list = WithHead(e)
    OBVIOUS
  <1> PICK r : r = Number(reliables)
    OBVIOUS
  <1> PICK u : u = incomingUnreliable
    OBVIOUS
  <1> PICK moved : moved = DispatchedFrom(list, r, u).moved
    OBVIOUS
  <1>1. /\ packets \in Seq(OutgoingCommands) /\ Done(dispatched)
        /\ u \in 0 .. MaximumUnreliable
    BY DEF PacketsInv, ListsInv
  <1>2. UnsequencedOnce /\ \A y \in DOMAIN packets : Alive(y) /\ Received(y) => Barred(y)
    BY DEF OnceInv
  <1>3. /\ Arrives(p, "SEND_UNSEQUENCED") /\ InUnsequencedWindow(group)
        /\ index \notin window /\ UNCHANGED <<packets, taken>>
        /\ \/ totalWaitingData < MaximumWaiting /\ DispatchUnreliable(list)
           \/ UNCHANGED dispatched
    BY DEF ReceiveUnsequenced, WithHead
  <1>4. Alive(p) /\ packets[p].kind = "SEND_UNSEQUENCED"
    BY <1>3 DEF Arrives
  <1>5. ~Received(p)
    <2>1. SUFFICES ASSUME Received(p) PROVE FALSE
      OBVIOUS
    <2>2. Barred(p)
      BY <1>2, <1>4, <2>1
    <2>3. GroupWindow(group) = incomingGroup /\ index \in unsequencedWindow
      BY <1>3, <1>4, <2>2, BarredOut
    <2> QED
      BY <1>3, <2>3
  <1>6. \A y \in DOMAIN packets : Alive(y)' <=> Alive(y)
    BY <1>3 DEF Alive
  <1>7. CASE totalWaitingData < MaximumWaiting /\ DispatchUnreliable(list)
    <2>1. Dispatchable(list) /\ list[1] = e /\ e.packet = p
      BY <1>4, UnsequencedList
    <2>2. dispatched' = dispatched \o moved
      BY <1>7 DEF DispatchUnreliable
    <2>3. Done(moved)
      BY <1>1, <2>1, DispatchKeeps
    <2>b. OnlyHead(list, moved)
      BY <1>1, <2>1, MovedIs
    <2>4. /\ \A k \in DOMAIN moved : IsUnsequenced(moved[k]) => moved[k] = list[1]
          /\ \A k, l \in DOMAIN moved :
                IsUnsequenced(moved[k]) /\ IsUnsequenced(moved[l]) => k = l
      BY <2>b DEF OnlyHead
    <2> PICK A : A = {p}
      OBVIOUS
    <2>5. \A k \in DOMAIN moved : IsUnsequenced(moved[k]) =>
             moved[k].packet \in A /\ ~Received(moved[k].packet)
      BY <1>5, <2>1, <2>4
    <2>6. UnsequencedOnce' /\ \A y : Received(y)' => Received(y) \/ y \in A
      BY ONLY <1>1, <1>2, <1>3, <2>2, <2>3, <2>4, <2>5, OnceKept
    <2>7. ASSUME NEW y \in DOMAIN packets', Alive(y)', Received(y)' PROVE Barred(y)'
      <3>1. y \in DOMAIN packets /\ Alive(y) /\ (Received(y) \/ y = p)
        BY <1>3, <1>6, <2>6, <2>7
      <3>2. Barred(y) \/ y = p
        BY <1>2, <3>1
      <3> QED
        BY <1>7, <3>1, <3>2, BarredStill
    <2> QED
      BY <2>6, <2>7 DEF OnceInv
  <1>8. CASE UNCHANGED dispatched
    <2>1. UnsequencedOnce' /\ \A y : Received(y)' => Received(y)
      BY <1>2, <1>3, <1>8 DEF UnsequencedOnce, Received, Unsequenced, IsUnsequenced
    <2>2. ASSUME NEW y \in DOMAIN packets', Alive(y)', Received(y)' PROVE Barred(y)'
      <3>1. y \in DOMAIN packets /\ Alive(y) /\ Received(y)
        BY <1>3, <1>6, <2>1, <2>2
      <3>2. Barred(y)
        BY <1>2, <3>1
      <3> QED
        BY <3>1, <3>2, BarredStill
    <2> QED
      BY <2>1, <2>2 DEF OnceInv
  <1> QED
    BY <1>3, <1>7, <1>8

\* So it is when a packet is sent, which nobody has received yet.
LEMMA OnceSend ==
    ASSUME PacketsInv, ListsInv, GroupInv, OnceInv, Send
    PROVE  OnceInv'
  <1> PICK n : n = Len(packets)
    OBVIOUS
  <1>1. /\ n \in Nat /\ DOMAIN packets = 1 .. n
        /\ Len(packets') = n + 1 /\ DOMAIN packets' = 1 .. n + 1
        /\ \A p \in DOMAIN packets : p \in DOMAIN packets' /\ packets'[p] = packets[p]
    BY Sent
  <1>2. /\ UNCHANGED <<dispatched, incomingGroup, unsequencedWindow>>
        /\ taken' \subseteq taken
    BY DEF Send, receiver
  <1>3. \A i \in DOMAIN dispatched : dispatched[i].packet \in DOMAIN packets
    BY DEF ListsInv, Done, EntryOf
  <1>4. Unsequenced' = Unsequenced
    <2>1. \A i \in DOMAIN dispatched :
             IsUnsequenced(dispatched[i])' <=> IsUnsequenced(dispatched[i])
      BY <1>1, <1>2, <1>3 DEF IsUnsequenced
    <2> QED
      BY <1>2, <2>1 DEF Unsequenced
  <1>5. UnsequencedOnce' /\ \A y : Received(y)' => Received(y)
    BY <1>2, <1>4 DEF OnceInv, UnsequencedOnce, Received
  <1>6. \A y : Received(y) => y \in DOMAIN packets
    BY <1>3 DEF Received, Unsequenced, GroupInv
  <1>7. ASSUME NEW y \in DOMAIN packets, Alive(y)' PROVE Alive(y)
    <2>1. Len(packets') - y < Lifetime /\ Lifetime \in Nat /\ y \in Nat
      BY <1>1, <1>7, Constants DEF Alive
    <2> QED
      BY <1>1, <2>1 DEF Alive
  <1>8. ASSUME NEW y \in DOMAIN packets, Barred(y) PROVE Barred(y)'
    <2>1. PICK q \in DOMAIN packets :
             /\ incomingGroup = GroupWindow(packets[q].group % Groups)
             /\ GroupSpan(y) <= GroupSpan(q)
             /\ GroupSpan(y) = GroupSpan(q) =>
                   packets[y].group % UnsequencedWindowSize \in unsequencedWindow
      BY <1>8 DEF Barred
    <2>2. /\ q \in DOMAIN packets' /\ packets'[q] = packets[q] /\ packets'[y] = packets[y]
          /\ GroupSpan(q)' = GroupSpan(q) /\ GroupSpan(y)' = GroupSpan(y)
      BY <1>1 DEF GroupSpan
    <2> QED
      BY <1>2, <2>1, <2>2 DEF Barred
  <1>9. ASSUME NEW y \in DOMAIN packets', Alive(y)', Received(y)' PROVE Barred(y)'
    <2>1. Received(y) /\ y \in DOMAIN packets
      BY <1>5, <1>6, <1>9
    <2> QED
      BY <1>7, <1>8, <1>9, <2>1 DEF OnceInv
  <1> QED
    BY <1>5, <1>9 DEF OnceInv

\* So it is when the application takes a packet.
LEMMA OnceTaken ==
    ASSUME PacketsInv, ListsInv, OnceInv, Receive
    PROVE  OnceInv'
  <1> PICK p : p = Head(dispatched).packet
    OBVIOUS
  <1> PICK rest : rest = Tail(dispatched)
    OBVIOUS
  <1>1. /\ dispatched # <<>> /\ dispatched' = rest
        /\ UNCHANGED <<packets, incomingGroup, unsequencedWindow>>
        /\ \/ packets[p].kind = "SEND_UNSEQUENCED" /\ taken' \subseteq taken \cup {p}
           \/ UNCHANGED taken
    BY DEF Receive
  <1>2. dispatched \in Seq(IncomingCommands)
    BY DEF ListsInv, Done
  <1>3. /\ dispatched[1].packet = p /\ 1 \in DOMAIN dispatched
        /\ \A i \in DOMAIN rest :
              i \in Nat \ {0} /\ i + 1 \in DOMAIN dispatched /\ rest[i] = dispatched[i + 1]
    <2>1. /\ rest \in Seq(IncomingCommands) /\ Len(rest) = Len(dispatched) - 1
          /\ \A i \in 1 .. Len(rest) : rest[i] = dispatched[i + 1]
          /\ Head(dispatched) = dispatched[1]
      BY <1>1, <1>2, HeadTailProperties
    <2>2. Len(rest) \in Nat /\ DOMAIN rest = 1 .. Len(rest)
          /\ DOMAIN dispatched = 1 .. Len(dispatched) /\ Len(dispatched) \in Nat
      BY <1>2, <2>1, LenProperties
    <2> QED
      BY <2>1, <2>2
  <1>4. \A i \in Unsequenced' :
           /\ i \in Nat \ {0} /\ i + 1 \in Unsequenced
           /\ dispatched'[i] = dispatched[i + 1]
    BY <1>1, <1>3 DEF Unsequenced, IsUnsequenced
  <1>5. packets[p].kind = "SEND_UNSEQUENCED" => 1 \in Unsequenced
    BY <1>3 DEF Unsequenced, IsUnsequenced
  <1>6. UnsequencedOnce
    BY DEF OnceInv
  <1>7. ASSUME NEW i \in Unsequenced' PROVE dispatched'[i].packet \notin taken'
    <2>1. i + 1 \in Unsequenced /\ dispatched'[i] = dispatched[i + 1] /\ i + 1 # 1
      BY <1>4
    <2>2. dispatched'[i].packet \notin taken
      BY <1>6, <2>1 DEF UnsequencedOnce
    <2>3. packets[p].kind = "SEND_UNSEQUENCED" => dispatched'[i].packet # p
      BY <1>3, <1>5, <1>6, <2>1 DEF UnsequencedOnce
    <2> QED
      BY <1>1, <2>2, <2>3
  <1>8. ASSUME NEW i \in Unsequenced', NEW j \in Unsequenced', i # j
        PROVE  dispatched'[i].packet # dispatched'[j].packet
    <2>1. i + 1 # j + 1
      BY <1>4, <1>8
    <2> QED
      BY <1>4, <1>6, <2>1 DEF UnsequencedOnce
  <1>9. UnsequencedOnce'
    BY <1>7, <1>8 DEF UnsequencedOnce
  <1>10. ASSUME NEW y, Received(y)' PROVE Received(y)
    <2>1. CASE y \in taken'
      BY <1>1, <1>3, <1>5, <2>1 DEF Received
    <2>2. CASE \E i \in Unsequenced' : dispatched'[i].packet = y
      BY <1>4, <2>2 DEF Received
    <2> QED
      BY <1>10, <2>1, <2>2 DEF Received
  <1>11. \A y \in DOMAIN packets : (Alive(y)' <=> Alive(y)) /\ (Barred(y) => Barred(y)')
    BY <1>1 DEF Alive, Barred, GroupSpan
  <1>12. \A y \in DOMAIN packets' : Alive(y)' /\ Received(y)' => Barred(y)'
    BY <1>1, <1>10, <1>11 DEF OnceInv
  <1> QED
    BY <1>9, <1>12 DEF OnceInv

\* An unsequenced packet that may come again is barred, whatever is done.
LEMMA OnceNext ==
    ASSUME PacketsInv, ListsInv, GroupInv, OnceInv, GroupsLast, [Next]_vars
    PROVE  OnceInv'
  <1>0. packets \in Seq(OutgoingCommands) /\ Waiting(commands) /\ Done(dispatched)
    BY DEF PacketsInv, ListsInv
  <1>1. ASSUME NEW p \in DOMAIN packets, ReceiveUnreliable(p) PROVE OnceInv'
    <2> PICK list : list = UnreliableList(p)
      OBVIOUS
    <2>1. packets[p].kind = "SEND_UNRELIABLE"
      BY <1>1 DEF ReceiveUnreliable, Arrives
    <2>2. Waiting(list)
      BY <2>1, UnreliableQueued
    <2>3. DispatchUnreliable(list)
          /\ UNCHANGED <<packets, taken, incomingGroup, unsequencedWindow>>
      BY <1>1 DEF ReceiveUnreliable, UnreliableList
    <2> QED
      BY <2>2, <2>3, OnceQueued
  <1>2. ASSUME NEW p \in DOMAIN packets, NEW fragment \in 1 .. packets[p].length,
               ReceiveFirstFragment(p, fragment)
        PROVE  OnceInv'
    <2> PICK list : list = FragmentList(p)
      OBVIOUS
    <2> PICK r : r = Number(reliables)
      OBVIOUS
    <2> PICK u : u = incomingUnreliable
      OBVIOUS
    <2> PICK moved : moved = DispatchedFrom(list, r, u).moved
      OBVIOUS
    <2>1. packets[p].kind = "SEND_UNRELIABLE_FRAGMENT"
      BY <1>2 DEF ReceiveFirstFragment, Arrives
    <2>2. Waiting(list)
      BY <2>1, FragmentQueued
    <2>3. dispatched' = dispatched \o moved
          /\ UNCHANGED <<packets, taken, incomingGroup, unsequencedWindow>>
      BY <1>2 DEF ReceiveFirstFragment, QueuedFor, FragmentList
    <2>4. u \in 0 .. MaximumUnreliable
      BY DEF ListsInv
    <2>5. Done(moved)
      BY <1>0, <2>2, <2>4, ListsAre, DispatchKeeps
    <2>6. \A i \in DOMAIN moved : ~IsUnsequenced(moved[i])
      BY <1>0, <2>2, <2>4, MovedSequenced
    <2> QED
      BY <1>0, <2>3, <2>5, <2>6, OnceSame
  <1>3. ASSUME NEW p \in DOMAIN packets, NEW fragment \in 1 .. packets[p].length,
               ReceiveFurtherFragment(p, fragment)
        PROVE  OnceInv'
    <2> PICK i : i = Position(Number(packets[p].reliable), packets[p].unreliable)
      OBVIOUS
    <2> PICK list : list = FurtherList(i, fragment)
      OBVIOUS
    <2>1. /\ Waiting(list)
          /\ UNCHANGED <<packets, taken, incomingGroup, unsequencedWindow>>
          /\ DispatchUnreliable(list) \/ UNCHANGED dispatched
      BY <1>3, FurtherCopied
    <2> QED
      BY <2>1, OnceQueued, OnceStays
  <1>4. ASSUME UNCHANGED vars PROVE OnceInv'
    BY <1>4, OnceStays DEF vars, receiver
  <1> QED
    BY <1>1, <1>2, <1>3, <1>4, OnceReliable, OnceUnsequenced, OnceSend, OnceTaken
       DEF Next

\* No unsequenced packet is given to the application twice, as long as no datagram
\* outlives the windows of its group that are not free: late or repeated, across the
\* moves of the window and the wrap of the groups.
THEOREM DeliveredOnce == ASSUME GroupsLast PROVE Spec => []UnsequencedOnce
  <1> DEFINE Inv == PacketsInv /\ ListsInv /\ GroupInv /\ OnceInv
  <1>1. Init => Inv
    BY StartInv
  <1>2. Inv /\ [Next]_vars => Inv'
    BY PacketsNext, ListsNext, GroupNext, OnceNext
  <1>3. Inv => UnsequencedOnce
    BY DEF OnceInv
  <1> QED
    BY <1>1, <1>2, <1>3, PTL DEF Spec

-----------------------------------------------------------------------------
(***************************************************************************)
(* Reliable numbers that wrap.                                             *)
(***************************************************************************)

\* The numbers of a round, and where r has come to from c.
Round == ReliableWindows * ReliableWindowSize

Wraps(r, c) ==
    /\ Number(r) \in 0 .. Round - 1 /\ Number(c) \in 0 .. Round - 1 /\ Round \in Nat
    /\ Window(Number(r)) \in Nat /\ Window(Number(c)) \in Nat
    /\ Span(r) \in Nat /\ Span(c) \in Nat /\ Span(c) <= Span(r)
    /\ \/ /\ Number(r) = Number(c) + (r - c)
          /\ Window(Number(r)) + Span(c) = Window(Number(c)) + Span(r)
       \/ /\ Number(r) < Number(c) /\ Number(r) + Round = Number(c) + (r - c)
          /\ Window(Number(r)) + ReliableWindows + Span(c)
                = Window(Number(c)) + Span(r)

\* Less than a round on, a number is as far on, or round the end.
LEMMA NumberIs ==
    ASSUME NEW c \in Nat, NEW r \in Nat, c <= r, Span(r) < Span(c) + ReliableWindows
    PROVE  Wraps(r, c)
  <1> PICK s : s = ReliableWindowSize
    OBVIOUS
  <1> PICK w : w = ReliableWindows
    OBVIOUS
  <1> PICK m : m = w * s
    OBVIOUS
  <1> PICK x : x = r % m
    OBVIOUS
  <1> PICK y : y = c % m
    OBVIOUS
  <1> PICK u : u = x \div s
    OBVIOUS
  <1> PICK v : v = y \div s
    OBVIOUS
  <1> PICK sr : sr = r \div s
    OBVIOUS
  <1> PICK sc : sc = c \div s
    OBVIOUS
  <1>1. /\ s \in Nat \ {0} /\ w \in Nat \ {0}
    BY Constants
  <1>2. /\ Round = m /\ Number(r) = x /\ Number(c) = y /\ Window(x) = u /\ Window(y) = v
        /\ Span(r) = sr /\ Span(c) = sc
    BY DEF Round, Number, Window, Span
  <1>3. sr < sc + w
    BY <1>2
  <1>5. Apart(s, w, m, c, r, x, y, u, v, sr, sc)
    BY <1>1, <1>3, Rounds
  <1>6. m \in Nat \ {0}
    BY <1>1, RoundOf
  <1>7. x \in 0 .. m - 1 /\ y \in 0 .. m - 1
    BY <1>6, DivMod
  <1>8. /\ u \in Nat /\ v \in Nat /\ sr \in Nat /\ sc \in Nat /\ sc <= sr
        /\ \/ x = y + (r - c) /\ u + sc = v + sr
           \/ x < y /\ x + m = y + (r - c) /\ u + w + sc = v + sr
    BY <1>1, <1>5 DEF Apart
  <1> QED
    BY <1>2, <1>6, <1>7, <1>8 DEF Wraps

\* A window is a number.
LEMMA SpanIs == \A n \in Nat : Span(n) \in Nat
  <1>1. ReliableWindowSize \in Nat \ {0}
    BY Constants
  <1> QED
    BY <1>1, DivMod DEF Span

\* Neither is further from the other than that.
Close(r, c) == r <= c + Room /\ c <= r + Room

\* A number that close is in the windows that are still to come if it comes, and
\* is not too far ahead.
LEMMA WindowTells ==
    ASSUME NEW c \in Nat, NEW r \in Nat, Close(r, c)
    PROVE  /\ InWindow(Number(r), Number(c))
                 <=> c <= r /\ Span(r) + 1 < Span(c) + FreeReliableWindows
           /\ Number(r) = Number(c) <=> r = c
           /\ Number(r) \in Nat /\ Span(r) \in Nat
  <1> PICK w : w = ReliableWindows
    OBVIOUS
  <1> PICK f : f = FreeReliableWindows
    OBVIOUS
  <1> PICK x : x = Number(r)
    OBVIOUS
  <1> PICK y : y = Number(c)
    OBVIOUS
  <1> PICK u : u = Window(x)
    OBVIOUS
  <1> PICK v : v = Window(y)
    OBVIOUS
  <1> PICK sr : sr = Span(r)
    OBVIOUS
  <1> PICK sc : sc = Span(c)
    OBVIOUS
  <1> PICK m : m = Round
    OBVIOUS
  <1>1. w \in Nat /\ f \in Nat /\ f >= 2 /\ w >= f + f
    BY Constants
  <1> PICK d : d = w - f + 1
    OBVIOUS
  <1>2. d \in Nat /\ d + f = w + 1
    BY ONLY <1>1, d = w - f + 1
  <1>3. sr <= sc + d /\ sc <= sr + d
    <2>1. ReliableWindowSize \in Nat \ {0}
      BY Constants
    <2>2. r <= c + d * ReliableWindowSize /\ c <= r + d * ReliableWindowSize
      BY DEF Close, Room
    <2> QED
      BY <1>2, <2>1, <2>2, WindowsApart DEF Span
  <1>4. InWindow(x, y) <=> u + (IF x < y THEN w ELSE 0) < v + f - 1
    BY DEF InWindow
  <1>5. CASE c <= r
    <2>0. sr \in Nat /\ sc \in Nat
      BY SpanIs
    <2>1. sr < sc + w
      BY ONLY <1>1, <1>2, <1>3, <2>0
    <2>2. Wraps(r, c)
      BY <1>5, <2>1, NumberIs
    <2>3. /\ x \in Nat /\ y \in Nat /\ u \in Nat /\ v \in Nat /\ x < m /\ y < m /\ m \in Nat
          /\ \/ x = y + (r - c) /\ u + sc = v + sr
             \/ x < y /\ x + m = y + (r - c) /\ u + w + sc = v + sr
      BY <2>2 DEF Wraps
    <2>4. CASE x = y + (r - c) /\ u + sc = v + sr
      <3>1. ~(x < y) /\ (x = y <=> r = c)
        BY <1>5, <2>3, <2>4
      <3>2. u + 0 < v + f - 1 <=> sr + 1 < sc + f
        BY ONLY <1>1, <2>0, <2>3, <2>4
      <3> QED
        BY <1>4, <1>5, <2>0, <2>3, <3>1, <3>2
    <2>5. CASE x < y /\ x + m = y + (r - c) /\ u + w + sc = v + sr
      <3>1. x # y /\ r # c
        BY <2>3, <2>5
      <3>2. u + w < v + f - 1 <=> sr + 1 < sc + f
        BY ONLY <1>1, <2>0, <2>3, <2>5
      <3> QED
        BY <1>4, <1>5, <2>0, <2>3, <2>5, <3>1, <3>2
    <2> QED
      BY <2>3, <2>4, <2>5
  <1>6. CASE ~(c <= r)
    <2>0. sr \in Nat /\ sc \in Nat /\ r <= c /\ r # c
      BY <1>6, SpanIs
    <2>1. sc < sr + w
      BY ONLY <1>1, <1>2, <1>3, <2>0
    <2>2. Wraps(c, r)
      BY <2>0, <2>1, NumberIs
    <2>3. /\ x \in Nat /\ y \in Nat /\ u \in Nat /\ v \in Nat /\ x < m /\ y < m /\ m \in Nat
          /\ \/ y = x + (c - r) /\ v + sr = u + sc
             \/ y < x /\ v + w + sr = u + sc
      BY <2>2 DEF Wraps
    <2>4. CASE y = x + (c - r) /\ v + sr = u + sc
      <3>1. x < y /\ x # y
        BY <1>6, <2>0, <2>3, <2>4
      <3>2. ~(u + w < v + f - 1)
        BY ONLY <1>1, <1>2, <1>3, <2>0, <2>3, <2>4
      <3> QED
        BY <1>4, <1>6, <2>0, <2>3, <3>1, <3>2
    <2>5. CASE y < x /\ v + w + sr = u + sc
      <3>1. ~(x < y) /\ x # y
        BY <2>3, <2>5
      <3>2. ~(u + 0 < v + f - 1)
        BY ONLY <1>1, <1>2, <1>3, <2>0, <2>3, <2>5
      <3> QED
        BY <1>4, <1>6, <2>0, <2>3, <3>1, <3>2
    <2> QED
      BY <2>3, <2>4, <2>5
  <1> QED
    BY <1>5, <1>6

\* Numbers of those windows are in the order of the search from the end of the list.
LEMMA OrderTells ==
    ASSUME NEW c \in Nat, NEW r \in Nat, NEW e \in Nat, c <= r, c <= e,
           Span(r) < Span(c) + ReliableWindows, Span(e) < Span(c) + ReliableWindows,
           NEW x, x = Number(e), NEW y, y = Number(r), NEW z, z = Number(c)
    PROVE  /\ x \in Nat /\ y \in Nat /\ z \in Nat
           /\ x = y <=> e = r
           /\ y >= z => (x < z \/ x > y <=> e > r)
           /\ y < z => (x < z /\ x > y <=> e > r) /\ (x = y => x < z)
  <1> PICK m : m = Round
    OBVIOUS
  <1>1. Wraps(r, c) /\ Wraps(e, c)
    BY NumberIs
  <1>2. /\ x \in Nat /\ x < m /\ z \in Nat /\ z < m /\ m \in Nat
        /\ x = z + (e - c) \/ (x < z /\ x + m = z + (e - c))
    BY <1>1 DEF Wraps
  <1>3. /\ y \in Nat /\ y < m
        /\ y = z + (r - c) \/ (y < z /\ y + m = z + (r - c))
    BY <1>1 DEF Wraps
  <1> QED
    BY ONLY <1>2, <1>3, c \in Nat, r \in Nat, e \in Nat, c <= r, c <= e

-----------------------------------------------------------------------------
(***************************************************************************)
(* The order of what is dispatched.                                        *)
(***************************************************************************)

\* The numbers of a packet.
LEMMA PacketNumbers ==
    ASSUME PacketsInv, NEW p \in DOMAIN packets
    PROVE  /\ packets[p].reliable \in Nat /\ packets[p].unreliable \in Nat
           /\ packets[p].unreliable \in 0 .. MaximumUnreliable
           /\ packets[p].kind \in Kinds /\ packets[p].length \in Nat \ {0}
           /\ Formed(packets[p]) /\ p \in Nat \ {0}
  <1>1. packets[p] \in OutgoingCommands /\ p \in Nat \ {0}
    BY PacketGroup
  <1> QED
    BY <1>1, Constants DEF OutgoingCommands, PacketsInv

\* Packets are in the order of their numbers.
LEMMA PacketOrder ==
    ASSUME PacketsInv, NEW p \in DOMAIN packets, NEW q \in DOMAIN packets,
           packets[p].kind \in Unreliables, packets[q].kind \in Unreliables
    PROVE  /\ q > p <=>
                 \/ packets[q].reliable > packets[p].reliable
                 \/ /\ packets[q].reliable = packets[p].reliable
                    /\ packets[q].unreliable > packets[p].unreliable
           /\ q = p <=>
                 /\ packets[q].reliable = packets[p].reliable
                 /\ packets[q].unreliable = packets[p].unreliable
  <1>1. /\ packets[p].reliable \in Nat /\ packets[p].unreliable \in Nat /\ p \in Nat
        /\ packets[q].reliable \in Nat /\ packets[q].unreliable \in Nat /\ q \in Nat
    BY PacketNumbers
  <1>2. CASE p < q
    <2>1. Follows(packets[p], packets[q], q - p)
      BY <1>2 DEF PacketsInv
    <2> QED
      BY <1>1, <1>2, <2>1 DEF Follows
  <1>3. CASE q < p
    <2>1. Follows(packets[q], packets[p], p - q)
      BY <1>3 DEF PacketsInv
    <2> QED
      BY <1>1, <1>3, <2>1 DEF Follows
  <1>4. CASE p = q
    BY <1>1, <1>4
  <1> QED
    BY <1>1, <1>2, <1>3, <1>4

\* What the receiver is past was sent before what it is not past.
LEMMA BehindBefore ==
    ASSUME PacketsInv, NEW p \in DOMAIN packets, NEW q \in DOMAIN packets,
           NEW c \in Nat, NEW u \in Nat, Behind(p, c, u), ~Behind(q, c, u)
    PROVE  p < q
  <1>1. /\ packets[p].reliable \in Nat /\ packets[p].unreliable \in Nat /\ p \in Nat
        /\ packets[q].reliable \in Nat /\ packets[q].unreliable \in Nat /\ q \in Nat
    BY PacketNumbers
  <1>2. CASE q < p
    <2>1. Follows(packets[q], packets[p], p - q)
      BY <1>2 DEF PacketsInv
    <2> QED
      BY <1>1, <2>1 DEF Follows, Behind
  <1>3. q # p
    OBVIOUS
  <1> QED
    BY <1>1, <1>2, <1>3

\* An entry that is neither too old nor too far ahead of these numbers, whatever
\* it has.
Fit(e, incoming, unreliable) ==
    /\ packets[e.packet].kind \in Unreliables
    /\ Close(packets[e.packet].reliable, incoming)
    /\ Span(packets[e.packet].reliable) + 1 < Span(incoming) + FreeReliableWindows
    /\ packets[e.packet].reliable = incoming =>
          packets[e.packet].unreliable > unreliable

\* What dispatching from c and u on gives: moved, left and v.
Advanced(moved, left, c, u, v) ==
    /\ v \in Nat /\ u <= v
    /\ \A i \in DOMAIN left : Awaits(left[i], c, v)
    /\ Ordered(left)
    /\ \A i \in DOMAIN moved :
          \/ IsUnsequenced(moved[i])
          \/ /\ packets[moved[i].packet].kind \in Unreliables
             /\ packets[moved[i].packet].reliable = c
             /\ packets[moved[i].packet].unreliable > u
             /\ packets[moved[i].packet].unreliable <= v
    /\ Ordered(moved)

\* What a fitting entry is to the loop.
LEMMA FitIs ==
    ASSUME PacketsInv, NEW e, EntryOf(e, packets), NEW c \in Nat, NEW u \in Nat,
           Fit(e, c, u), NEW r, r = Number(c)
    PROVE  /\ ~IsUnsequenced(e) /\ e.packet \in DOMAIN packets
           /\ packets[e.packet].reliable \in Nat
           /\ packets[e.packet].unreliable \in Nat
           /\ Reliable(e) = Number(packets[e.packet].reliable)
           /\ Unreliable(e) = packets[e.packet].unreliable
           /\ Current(e, r) <=> packets[e.packet].reliable = c
           /\ Ahead(e, r) <=> packets[e.packet].reliable > c
           /\ e.fragmentsRemaining \in Nat
  <1>1. e.packet \in DOMAIN packets /\ e.fragmentsRemaining \in Nat
    BY DEF EntryOf, IncomingCommands
  <1> PICK n : n = packets[e.packet].reliable
    OBVIOUS
  <1>2. n \in Nat /\ packets[e.packet].unreliable \in Nat
    BY <1>1, PacketNumbers
  <1>3. /\ ~IsUnsequenced(e)
        /\ Reliable(e) = Number(n) /\ Unreliable(e) = packets[e.packet].unreliable
    BY DEF Fit, IsUnsequenced, Unreliables, Reliable, Unreliable
  <1>4. Close(n, c) /\ Span(n) + 1 < Span(c) + FreeReliableWindows
    BY DEF Fit
  <1>5. /\ InWindow(Number(n), r) <=> c <= n /\ Span(n) + 1 < Span(c) + FreeReliableWindows
        /\ Number(n) = r <=> n = c
    BY <1>2, <1>4, WindowTells
  <1>6. Current(e, r) <=> n = c
    BY <1>3, <1>5 DEF Current
  <1>7. Ahead(e, r) <=> n > c
    BY <1>2, <1>3, <1>4, <1>5 DEF Ahead
  <1> QED
    BY <1>1, <1>2, <1>3, <1>6, <1>7

\* What is picked stays in order.
LEMMA PickedOrder ==
    ASSUME NEW S, NEW s \in Seq(S), NEW A, NEW r, r = Picked(s, A), Ordered(s)
    PROVE  Ordered(r)
  <1> SUFFICES ASSUME NEW k \in DOMAIN r, NEW l \in DOMAIN r, k < l,
                      ~IsUnsequenced(r[k]), ~IsUnsequenced(r[l])
               PROVE  r[k].packet < r[l].packet
    BY DEF Ordered
  <1>1. \E i, j \in DOMAIN s : i < j /\ r[k] = s[i] /\ r[l] = s[j]
    BY PickedEntries
  <1> QED
    BY <1>1 DEF Ordered

\* A list that dispatching from c and u on finds in order.
Fitting(list, c, u) ==
    /\ Dispatchable(list) /\ Ordered(list)
    /\ \A i \in DOMAIN list : IsUnsequenced(list[i]) \/ Fit(list[i], c, u)

\* An entry of such a list that is not unsequenced.
Fitted(e, c, u, r) ==
    /\ e.packet \in DOMAIN packets /\ packets[e.packet].kind \in Unreliables
    /\ packets[e.packet].reliable \in Nat /\ packets[e.packet].unreliable \in Nat
    /\ Unreliable(e) = packets[e.packet].unreliable /\ e.fragmentsRemaining \in Nat
    /\ Current(e, r) <=> packets[e.packet].reliable = c
    /\ Ahead(e, r) <=> packets[e.packet].reliable > c
    /\ packets[e.packet].reliable = c => packets[e.packet].unreliable > u
    /\ Span(packets[e.packet].reliable) + 1 < Span(c) + FreeReliableWindows

\* Entries are so.
LEMMA FittingAt ==
    ASSUME PacketsInv, NEW c \in Nat, NEW u \in Nat, NEW list, Fitting(list, c, u),
           NEW i \in DOMAIN list, ~IsUnsequenced(list[i]), NEW r, r = Number(c)
    PROVE  Fitted(list[i], c, u, r)
  <1> PICK n : n = packets[list[i].packet].reliable
    OBVIOUS
  <1> PICK x : x = packets[list[i].packet].unreliable
    OBVIOUS
  <1>1. Fit(list[i], c, u) /\ EntryOf(list[i], packets)
    BY DEF Fitting, Dispatchable
  <1>2. n = c => x > u
    BY <1>1 DEF Fit
  <1>3. /\ Span(n) + 1 < Span(c) + FreeReliableWindows
        /\ packets[list[i].packet].kind \in Unreliables
    BY <1>1 DEF Fit
  <1> QED
    BY <1>1, <1>2, <1>3, FitIs DEF Fitted

\* Of two of its entries the later one has the later numbers.
LEMMA FittingOrder ==
    ASSUME PacketsInv, NEW c \in Nat, NEW u \in Nat, NEW list, Fitting(list, c, u),
           NEW i \in DOMAIN list, NEW j \in DOMAIN list, i < j,
           ~IsUnsequenced(list[i]), ~IsUnsequenced(list[j])
    PROVE  \/ packets[list[j].packet].reliable > packets[list[i].packet].reliable
           \/ /\ packets[list[j].packet].reliable = packets[list[i].packet].reliable
              /\ packets[list[j].packet].unreliable > packets[list[i].packet].unreliable
  <1> PICK p : p = list[i].packet
    OBVIOUS
  <1> PICK q : q = list[j].packet
    OBVIOUS
  <1>1. p < q
    BY DEF Fitting, Ordered
  <1>2. /\ p \in DOMAIN packets /\ q \in DOMAIN packets
        /\ packets[p].kind \in Unreliables /\ packets[q].kind \in Unreliables
    BY FittingAt DEF Fitted
  <1>3. p \in Nat /\ q \in Nat
    BY <1>2, PacketNumbers
  <1>4. q > p
    BY <1>1, <1>3
  <1> QED
    BY <1>2, <1>4, PacketOrder

\* v is between what the loop moved of a list up to b, and what it did not.
Between(list, r, u, v, b) ==
    /\ u <= v
    /\ \A k \in 1 .. b : Complete(list[k], r) =>
          packets[list[k].packet].unreliable <= v
    /\ \A k \in DOMAIN list :
          (Current(list[k], r) /\ \A i \in k .. b : ~Complete(list[i], r))
          => packets[list[k].packet].unreliable > v

\* What the loop makes of incomingUnreliable: the number of the last it moved.
LEMMA LastIs ==
    ASSUME PacketsInv, NEW c \in Nat, NEW u \in Nat, NEW list, Fitting(list, c, u),
           NEW r, r = Number(c), NEW b \in Nat, b <= Len(list), NEW v \in Nat,
           LastNumber(list, r, u, v, b)
    PROVE  Between(list, r, u, v, b)
  <1>0. DOMAIN list = 1 .. Len(list) /\ Len(list) \in Nat
    BY DEF Fitting, Dispatchable
  <1>1. \A k \in DOMAIN list : Current(list[k], r) =>
           /\ packets[list[k].packet].reliable = c
           /\ packets[list[k].packet].unreliable > u
           /\ packets[list[k].packet].unreliable \in Nat
           /\ Unreliable(list[k]) = packets[list[k].packet].unreliable
    <2> SUFFICES ASSUME NEW k \in DOMAIN list, Current(list[k], r)
                 PROVE  /\ packets[list[k].packet].reliable = c
                        /\ packets[list[k].packet].unreliable > u
                        /\ packets[list[k].packet].unreliable \in Nat
                        /\ Unreliable(list[k]) = packets[list[k].packet].unreliable
      OBVIOUS
    <2>1. ~IsUnsequenced(list[k])
      BY DEF Current
    <2> QED
      BY <2>1, FittingAt DEF Fitted
  <1>2. \A k, l \in DOMAIN list : k < l /\ Current(list[k], r) /\ Current(list[l], r) =>
           packets[list[k].packet].unreliable < packets[list[l].packet].unreliable
    <2> SUFFICES ASSUME NEW k \in DOMAIN list, NEW l \in DOMAIN list, k < l,
                        Current(list[k], r), Current(list[l], r)
                 PROVE  packets[list[k].packet].unreliable
                           < packets[list[l].packet].unreliable
      OBVIOUS
    <2>1. ~IsUnsequenced(list[k]) /\ ~IsUnsequenced(list[l])
      BY DEF Current
    <2>2. \/ packets[list[l].packet].reliable > packets[list[k].packet].reliable
          \/ packets[list[l].packet].unreliable > packets[list[k].packet].unreliable
      BY <2>1, FittingOrder
    <2> QED
      BY <1>1, <2>2
  <1>3. CASE v = u /\ \A k \in 1 .. b : ~Complete(list[k], r)
    BY <1>0, <1>1, <1>3 DEF Between
  <1>4. CASE ~(v = u /\ \A k \in 1 .. b : ~Complete(list[k], r))
    <2> PICK a \in 1 .. b : /\ Complete(list[a], r) /\ v = Unreliable(list[a])
                            /\ \A k \in a + 1 .. b : ~Complete(list[k], r)
      BY <1>4 DEF LastNumber
    <2>1. a \in DOMAIN list /\ Current(list[a], r)
      BY <1>0 DEF Complete
    <2>2. v = packets[list[a].packet].unreliable /\ v > u
      BY <1>1, <2>1
    <2>3. ASSUME NEW k \in 1 .. b, Complete(list[k], r)
          PROVE  packets[list[k].packet].unreliable <= v
      <3>1. k \in DOMAIN list /\ Current(list[k], r)
        BY <1>0, <2>3 DEF Complete
      <3>2. k = a \/ k < a
        BY <2>3
      <3>3. packets[list[k].packet].unreliable \in Nat
        BY <1>1, <3>1
      <3> QED
        BY <1>2, <2>1, <2>2, <3>1, <3>2, <3>3
    <2>4. ASSUME NEW k \in DOMAIN list, Current(list[k], r),
                 \A i \in k .. b : ~Complete(list[i], r)
          PROVE  packets[list[k].packet].unreliable > v
      <3>1. a < k
        BY <1>0, <2>4
      <3>2. packets[list[k].packet].unreliable \in Nat
        BY <1>1, <2>4
      <3>3. packets[list[a].packet].unreliable < packets[list[k].packet].unreliable
        BY <1>2, <2>1, <2>4, <3>1
      <3> QED
        BY <2>2, <3>2, <3>3
    <2> QED
      BY <2>2, <2>3, <2>4 DEF Between
  <1> QED
    BY <1>3, <1>4

\* Dispatching moves what the receiver now is at, and leaves what it waits for.
LEMMA DispatchOrder ==
    ASSUME PacketsInv, NEW c \in Nat, NEW u \in 0 .. MaximumUnreliable,
           NEW list, Fitting(list, c, u),
           NEW r, r = Number(c), NEW res, res = DispatchedFrom(list, r, u)
    PROVE  Advanced(res.moved, res.left, c, u, res.unreliable)
  <1> PICK v : v = res.unreliable
    OBVIOUS
  <1>0. /\ packets \in Seq(OutgoingCommands) /\ list \in Seq(EntriesOf(packets))
        /\ DOMAIN list = 1 .. Len(list) /\ Len(list) \in Nat /\ u \in Nat
    <2>1. list \in Seq(EntriesOf(packets)) /\ packets \in Seq(OutgoingCommands)
      BY ListsAre DEF Fitting, PacketsInv
    <2>2. MaximumUnreliable \in Nat
      BY Constants
    <2> QED
      BY <2>1, <2>2
  <1> PICK end, from, M :
         /\ Dispatches(list, r, u, end, from, M, v)
         /\ res.moved = Picked(list, M)
         /\ res.left = Picked(list, Left(list, from, M))
         /\ v \in 0 .. MaximumUnreliable
    <2>1. \E end, from, M :
              /\ Dispatches(list, r, u, end, from, M, res.unreliable)
              /\ res.moved = Picked(list, M)
              /\ res.left = Picked(list, Left(list, from, M))
              /\ res.unreliable \in 0 .. MaximumUnreliable
      BY <1>0, DispatchedIs
    <2> QED
      BY <2>1
  <1> PICK moved : moved = res.moved
    OBVIOUS
  <1> PICK left : left = res.left
    OBVIOUS
  <1> PICK L : L = Left(list, from, M)
    OBVIOUS
  <1> PICK S : S = EntriesOf(packets)
    OBVIOUS
  <1>11. /\ list \in Seq(S) /\ left = Picked(list, L) /\ moved = Picked(list, M)
    BY <1>0
  <1>1. /\ end \in 1 .. Len(list) + 1 /\ (end <= Len(list) => Ahead(list[end], r))
        /\ M = {k \in 1 .. end - 1 : Passes(list[k], r)}
        /\ from \in 1 .. end /\ \A k \in from .. end - 1 : Lacks(list[k], r)
        /\ LastNumber(list, r, u, v, end - 1)
    BY DEF Dispatches
  <1>2. v \in Nat
    BY Constants
  <1>3. end - 1 \in Nat /\ end - 1 <= Len(list)
    BY <1>0, <1>1
  <1>4. /\ u <= v
        /\ \A k \in 1 .. end - 1 : Complete(list[k], r) =>
              packets[list[k].packet].unreliable <= v
        /\ \A k \in DOMAIN list :
              (Current(list[k], r) /\ \A i \in k .. end - 1 : ~Complete(list[i], r))
              => packets[list[k].packet].unreliable > v
    <2>1. Between(list, r, u, v, end - 1)
      BY <1>0, <1>1, <1>2, <1>3, LastIs
    <2> QED
      BY <2>1 DEF Between
  <1>5. ASSUME NEW k \in DOMAIN list, k \in M
        PROVE  \/ IsUnsequenced(list[k])
               \/ /\ packets[list[k].packet].kind \in Unreliables
                  /\ packets[list[k].packet].reliable = c
                  /\ packets[list[k].packet].unreliable > u
                  /\ packets[list[k].packet].unreliable <= v
    <2>1. k \in 1 .. end - 1 /\ Passes(list[k], r)
      BY <1>1, <1>5
    <2>2. CASE Complete(list[k], r)
      <3>1. ~IsUnsequenced(list[k]) /\ Current(list[k], r)
        BY <2>2 DEF Complete, Current
      <3>2. packets[list[k].packet].unreliable <= v
        BY <1>4, <2>1, <2>2
      <3> QED
        BY <1>0, <3>1, <3>2, FittingAt DEF Fitted
    <2> QED
      BY <2>1, <2>2 DEF Passes
  <1>6. ASSUME NEW k \in DOMAIN list, k >= from, k \notin M
        PROVE  Awaits(list[k], c, v)
    <2>1. CASE k < end
      <3>1. Lacks(list[k], r) /\ \A i \in k .. end - 1 : ~Complete(list[i], r)
        <4>1. k \in from .. end - 1 /\ \A i \in k .. end - 1 : i \in from .. end - 1
          BY <1>0, <1>1, <1>6, <2>1
        <4> QED
          BY <1>1, <4>1 DEF Lacks, Complete
      <3>2. /\ Current(list[k], r) /\ ~IsUnsequenced(list[k])
            /\ list[k].fragmentsRemaining # 0
        BY <3>1 DEF Lacks, Current
      <3>3. packets[list[k].packet].unreliable > v
        BY <1>4, <3>1, <3>2
      <3>4. /\ packets[list[k].packet].reliable = c
            /\ Span(packets[list[k].packet].reliable) + 1 < Span(c) + FreeReliableWindows
            /\ list[k].fragmentsRemaining \in Nat
        BY <1>0, <3>2, FittingAt DEF Fitted
      <3> QED
        BY <3>2, <3>3, <3>4 DEF Awaits
    <2>2. CASE ~(k < end)
      <3>1. end \in DOMAIN list /\ Ahead(list[end], r) /\ (k = end \/ end < k)
        BY <1>0, <1>1, <2>2
      <3>2. ~IsUnsequenced(list[end])
        BY <3>1 DEF Ahead
      <3>3. ~IsUnsequenced(list[k])
        <4>1. CASE k = end
          BY <3>2, <4>1
        <4>2. CASE end < k
          <5>1. k # 1
            BY <1>0, <1>1, <4>2
          <5>2. packets[list[k].packet].kind \in Unreliables
            BY <5>1 DEF Fitting, Dispatchable
          <5> QED
            BY <5>2 DEF IsUnsequenced, Unreliables
        <4> QED
          BY <3>1, <4>1, <4>2
      <3>4. /\ packets[list[end].packet].reliable > c
            /\ packets[list[end].packet].reliable \in Nat
        BY <1>0, <3>1, <3>2, FittingAt DEF Fitted
      <3>5. /\ packets[list[k].packet].reliable \in Nat
            /\ Span(packets[list[k].packet].reliable) + 1 < Span(c) + FreeReliableWindows
        BY <1>0, <3>3, FittingAt DEF Fitted
      <3>6. \/ k = end
            \/ packets[list[k].packet].reliable > packets[list[end].packet].reliable
            \/ packets[list[k].packet].reliable = packets[list[end].packet].reliable
        BY <1>0, <3>1, <3>2, <3>3, FittingOrder, SMTT(40)
      <3>7. packets[list[k].packet].reliable > c
        BY <3>4, <3>5, <3>6
      <3> QED
        BY <3>5, <3>7 DEF Awaits
    <2> QED
      BY <2>1, <2>2
  <1>7. \A i \in DOMAIN left : Awaits(left[i], c, v)
    <2> SUFFICES ASSUME NEW i \in DOMAIN left
                 PROVE  Awaits(left[i], c, v)
      OBVIOUS
    <2>1. \E k \in DOMAIN list : k \in L /\ left[i] = list[k]
      BY <1>11, PickedEntries
    <2> QED
      BY <1>1, <1>6, <2>1 DEF Left
  <1>8. \A i \in DOMAIN moved : \E k \in DOMAIN list : k \in M /\ moved[i] = list[k]
    BY <1>11, PickedEntries
  <1>9. Ordered(moved) /\ Ordered(left)
    <2>1. Ordered(list)
      BY DEF Fitting
    <2> QED
      BY <1>11, <2>1, PickedOrder
  <1>10. ASSUME NEW i \in DOMAIN moved
         PROVE  \/ IsUnsequenced(moved[i])
                \/ /\ packets[moved[i].packet].kind \in Unreliables
                   /\ packets[moved[i].packet].reliable = c
                   /\ packets[moved[i].packet].unreliable > u
                   /\ packets[moved[i].packet].unreliable <= v
    BY <1>5, <1>8
  <1> QED
    BY <1>2, <1>4, <1>7, <1>9, <1>10 DEF Advanced

-----------------------------------------------------------------------------
(***************************************************************************)
(* How far apart the peers are.                                            *)
(***************************************************************************)

\* No packet has a number beyond the last.
LEMMA OutgoingLast ==
    ASSUME PacketsInv, NEW p \in DOMAIN packets
    PROVE  /\ packets # <<>> /\ Outgoing = packets[Len(packets)]
           /\ Len(packets) \in DOMAIN packets /\ Len(packets) \in Nat
           /\ Outgoing.reliable \in Nat
           /\ packets[p].reliable <= Outgoing.reliable
  <1>1. packets \in Seq(OutgoingCommands) /\ packets # <<>>
    BY DEF PacketsInv
  <1>2. /\ Outgoing = packets[Len(packets)] /\ Outgoing.reliable \in Nat
        /\ Len(packets) \in DOMAIN packets
    BY <1>1, OutgoingIs
  <1>3. p \in Nat /\ p <= Len(packets) /\ Len(packets) \in Nat
        /\ packets[p].reliable \in Nat
    BY PacketGroup, PacketNumbers
  <1>4. p < Len(packets) => packets[p].reliable <= packets[Len(packets)].reliable
    BY <1>2 DEF PacketsInv, Follows
  <1>5. p < Len(packets) \/ p = Len(packets)
    BY <1>3
  <1> QED
    BY <1>1, <1>2, <1>3, <1>4, <1>5

\* One more time m is m more.
LEMMA OneMore ==
    ASSUME NEW k \in Nat, NEW m \in Nat
    PROVE  (k + 1) * m = k * m + m /\ k * m \in Nat
  OBVIOUS

\* What is sent stays near what the receiver has.
LEMMA NearSend ==
    ASSUME PacketsInv, ListsInv, NEW m \in Nat, Fits(m), Near(m), Send
    PROVE  Near(m)'
  <1> PICK new \in OutgoingCommands :
         /\ packets' = Append(packets, new)
         /\ Formed(new) /\ new.length = workload[Len(packets) + 1].length
         /\ Len(packets) + 1 \in DOMAIN workload
         /\ new.reliable <= Outgoing.reliable + new.length
         /\ packets # <<>> => Follows(Outgoing, new, 1)
    BY SendIs
  <1> PICK n : n = Len(packets)
    OBVIOUS
  <1> PICK o : o = Outgoing.reliable
    OBVIOUS
  <1> PICK x : x = new.reliable
    OBVIOUS
  <1>1. /\ n \in Nat /\ DOMAIN packets = 1 .. n /\ DOMAIN packets' = 1 .. n + 1
        /\ packets' \in Seq(OutgoingCommands) /\ Len(packets') = n + 1
        /\ \A p \in 1 .. n : packets'[p] = packets[p]
        /\ packets'[n + 1] = new
    <2>1. packets \in Seq(OutgoingCommands)
      BY DEF PacketsInv
    <2> QED
      BY <2>1, Sent
  <1>2. new.length <= m /\ new.length \in Nat /\ new.reliable \in Nat
    <2>1. workload \in Workloads
      BY DEF PacketsInv
    <2> QED
      BY <2>1 DEF Fits, OutgoingCommands
  <1>3. /\ packets # <<>> => Outgoing = packets[n] /\ n \in DOMAIN packets
        /\ Outgoing.reliable \in Nat
        /\ packets = <<>> => Outgoing.reliable = 0
    <2>1. packets \in Seq(OutgoingCommands)
      BY DEF PacketsInv
    <2> QED
      BY <2>1, OutgoingIs
  <1>4. Outgoing' = new
    BY <1>1 DEF Outgoing
  <1>5. \A p \in DOMAIN packets' : packets'[p].length <= m
    <2>1. \A p \in 1 .. n : packets[p].length <= m
      BY <1>1 DEF Near
    <2> QED
      BY <1>1, <1>2, <2>1
  <1>6. ASSUME NEW p \in DOMAIN packets', NEW q \in DOMAIN packets', p < q
        PROVE  packets'[q].reliable <= packets'[p].reliable + (q - p) * m
    <2>1. p \in 1 .. n /\ packets'[p] = packets[p] /\ p \in DOMAIN packets
      BY <1>1, <1>6
    <2>2. CASE q \in 1 .. n
      BY <1>1, <1>6, <2>1, <2>2 DEF Near
    <2>3. CASE q = n + 1
      <3> PICK k : k = n - p
        OBVIOUS
      <3>1. /\ k \in Nat /\ q - p = k + 1 /\ n \in DOMAIN packets
            /\ Outgoing = packets[n]
        BY <1>1, <1>3, <2>1, <2>3
      <3>2. packets[p].reliable \in Nat /\ packets[n].reliable \in Nat
        BY <2>1, <3>1, PacketNumbers
      <3>3. packets[n].reliable <= packets[p].reliable + k * m
        <4>1. CASE p < n
          <5>1. packets[n].reliable <= packets[p].reliable + (n - p) * m
            BY <2>1, <3>1, <4>1 DEF Near
          <5> QED
            BY <5>1
        <4>2. CASE p = n
          <5>1. k * m \in Nat
            BY <3>1, OneMore
          <5> QED
            BY <3>2, <4>2, <5>1
        <4> QED
          BY <1>1, <2>1, <4>1, <4>2
      <3>4. (k + 1) * m = k * m + m /\ k * m \in Nat
        BY <3>1, OneMore
      <3>5. new.reliable <= packets[p].reliable + (k + 1) * m
        <4> PICK a : a = packets[p].reliable
          OBVIOUS
        <4> PICK y : y = k * m
          OBVIOUS
        <4> PICK z : z = (k + 1) * m
          OBVIOUS
        <4>1. /\ o \in Nat /\ x \in Nat /\ a \in Nat /\ y \in Nat /\ z = y + m
              /\ o <= a + y /\ x <= o + new.length /\ new.length <= m
              /\ new.length \in Nat
          BY <1>2, <3>1, <3>2, <3>3, <3>4
        <4>2. x <= a + z
          BY ONLY <4>1, m \in Nat
        <4> QED
          BY <4>2
      <3>6. packets'[q] = new
        BY <1>1, <2>3
      <3> QED
        BY <2>1, <3>1, <3>5, <3>6
    <2> QED
      BY <1>1, <2>2, <2>3
  <1>7. reliables \in Nat /\ reliables' = reliables
    BY DEF ListsInv, Send, receiver
  <1>8. reliables <= new.reliable /\ new.reliable < reliables + InTransit + m
    <2>1. Outgoing.reliable - reliables < InTransit /\ reliables <= Outgoing.reliable
      BY DEF Send, Near
    <2>2. Outgoing.reliable <= new.reliable
      <3>1. CASE packets = <<>>
        BY <1>2, <1>3, <3>1
      <3>2. CASE packets # <<>>
        <4>1. Follows(Outgoing, new, 1)
          BY <3>2
        <4> QED
          BY <4>1 DEF Follows
      <3> QED
        BY <3>1, <3>2
    <2>3. InTransit \in Nat
      BY Constants
    <2>4. o \in Nat /\ x \in Nat /\ o <= x /\ x <= o + m
      BY <1>2, <1>3, <2>2
    <2>5. o - reliables < InTransit /\ reliables <= o
      BY <2>1
    <2>6. reliables <= x /\ x < reliables + InTransit + m
      BY ONLY <1>7, <2>3, <2>4, <2>5, m \in Nat
    <2> QED
      BY <2>6
  <1> QED
    BY <1>4, <1>5, <1>6, <1>7, <1>8 DEF Near

\* The peers stay near each other.
LEMMA NearNext ==
    ASSUME PacketsInv, ListsInv, NEW m \in Nat, Fits(m), Near(m), [Next]_vars
    PROVE  Near(m)'
  <1>1. CASE Send
    BY <1>1, NearSend
  <1>2. ASSUME NEW p \in DOMAIN packets, ReceiveReliable(p)
        PROVE  Near(m)'
    <2>1. /\ UNCHANGED packets /\ reliables' = packets[p].reliable
          /\ reliables < packets[p].reliable
      BY <1>2 DEF ReceiveReliable
    <2>2. /\ packets[p].reliable \in Nat /\ packets[p].reliable <= Outgoing.reliable
          /\ Outgoing.reliable \in Nat
      BY OutgoingLast, PacketNumbers
    <2>3. reliables \in Nat /\ InTransit \in Nat
      BY Constants DEF ListsInv
    <2>4. Outgoing' = Outgoing
      BY <2>1 DEF Outgoing
    <2>5. Outgoing.reliable < packets[p].reliable + InTransit + m
      BY <2>1, <2>2, <2>3 DEF Near
    <2> QED
      BY <2>1, <2>2, <2>4, <2>5 DEF Near
  <1>3. CASE UNCHANGED <<packets, reliables>>
    <2>1. Outgoing' = Outgoing
      BY <1>3 DEF Outgoing
    <2> QED
      BY <1>3, <2>1 DEF Near
  <1>4. CASE Receive
    BY <1>3, <1>4 DEF Receive
  <1>5. ASSUME NEW p \in DOMAIN packets,
               ReceiveUnreliable(p) \/ ReceiveUnsequenced(p)
        PROVE  Near(m)'
    BY <1>3, <1>5 DEF ReceiveUnreliable, ReceiveUnsequenced
  <1>6. ASSUME NEW p \in DOMAIN packets, NEW fragment,
               \/ ReceiveFirstFragment(p, fragment)
               \/ ReceiveFurtherFragment(p, fragment)
        PROVE  Near(m)'
    BY <1>3, <1>6 DEF ReceiveFirstFragment, ReceiveFurtherFragment
  <1>7. CASE UNCHANGED vars
    BY <1>3, <1>7 DEF vars, receiver
  <1> QED
    BY <1>1, <1>2, <1>4, <1>5, <1>6, <1>7 DEF Next

\* What is in a datagram that still lives is close to what the receiver has.
LEMMA AliveClose ==
    ASSUME PacketsInv, ListsInv, NEW m \in Nat, Fits(m), Near(m),
           NEW p \in DOMAIN packets, Alive(p)
    PROVE  Close(packets[p].reliable, reliables)
  <1> PICK n : n = Len(packets)
    OBVIOUS
  <1> PICK a : a = packets[p].reliable
    OBVIOUS
  <1> PICK b : b = Outgoing.reliable
    OBVIOUS
  <1> PICK k : k = n - p
    OBVIOUS
  <1>1. /\ n \in DOMAIN packets /\ n \in Nat /\ b \in Nat /\ a <= b /\ a \in Nat
        /\ b = packets[n].reliable /\ p \in Nat /\ p <= n
    BY OutgoingLast, PacketGroup, PacketNumbers
  <1>2. reliables \in Nat /\ InTransit \in Nat /\ Lifetime \in Nat
    BY Constants DEF ListsInv
  <1>3. Room \in Nat
    <2>1. /\ ReliableWindows - FreeReliableWindows + 1 \in Nat
          /\ ReliableWindowSize \in Nat
      BY Constants
    <2>2. \A x, y \in Nat : x * y \in Nat
      OBVIOUS
    <2> QED
      BY <2>1, <2>2 DEF Room
  <1>4. reliables <= b /\ b < reliables + InTransit + m /\ InTransit + m <= Room
    BY DEF Near, Fits
  <1>5. k \in Nat /\ k + 1 <= Lifetime
    BY <1>1, <1>2 DEF Alive
  <1>6. b <= a + k * m /\ k * m \in Nat
    <2>1. k * m \in Nat
      BY <1>5, OneMore
    <2>2. CASE p < n
      <3>1. packets[n].reliable <= packets[p].reliable + (n - p) * m
        BY <1>1, <2>2 DEF Near
      <3> QED
        BY <1>1, <2>1, <3>1
    <2>3. CASE p = n
      BY <1>1, <2>1, <2>3
    <2> QED
      BY <1>1, <2>1, <2>2, <2>3
  <1>7. k * m + m <= Lifetime * m
    <2>0. k + 1 \in Nat
      BY <1>5
    <2>1. m * (k + 1) <= m * Lifetime
      BY <1>2, <1>5, <2>0, ProductsGrow
    <2>2. m * (k + 1) = k * m + m /\ m * Lifetime = Lifetime * m
      BY <1>2, <1>5
    <2> QED
      BY <2>1, <2>2
  <1>8. Lifetime * m <= Room + m /\ Lifetime * m \in Nat
    BY <1>2 DEF Fits
  <1>9. k * m <= Room
    BY <1>3, <1>6, <1>7, <1>8
  <1>10. reliables <= a + Room
    <2> PICK y : y = k * m
      OBVIOUS
    <2> PICK x : x = Room
      OBVIOUS
    <2>1. /\ y \in Nat /\ x \in Nat /\ y <= x /\ b <= a + y /\ reliables <= b
          /\ reliables \in Nat /\ a \in Nat /\ b \in Nat
      BY <1>1, <1>2, <1>3, <1>4, <1>6, <1>9
    <2>2. reliables <= a + x
      BY ONLY <2>1
    <2> QED
      BY <2>2
  <1>11. a <= reliables + Room
    BY <1>1, <1>2, <1>3, <1>4
  <1> QED
    BY <1>10, <1>11 DEF Close

\* And so is what waits to what was sent since.
LEMMA AheadClose ==
    ASSUME PacketsInv, ListsInv, NEW m \in Nat, Fits(m), Near(m),
           NEW p \in DOMAIN packets, reliables <= packets[p].reliable,
           NEW c \in Nat, reliables <= c, c <= Outgoing.reliable
    PROVE  Close(packets[p].reliable, c)
  <1>1. /\ packets[p].reliable <= Outgoing.reliable /\ Outgoing.reliable \in Nat
        /\ packets[p].reliable \in Nat
    BY OutgoingLast, PacketNumbers
  <1>2. reliables \in Nat /\ InTransit \in Nat
    BY Constants DEF ListsInv
  <1>3. Room \in Nat
    <2>1. /\ ReliableWindows - FreeReliableWindows + 1 \in Nat
          /\ ReliableWindowSize \in Nat
      BY Constants
    <2>2. \A x, y \in Nat : x * y \in Nat
      OBVIOUS
    <2> QED
      BY <2>1, <2>2 DEF Room
  <1>4. Outgoing.reliable < reliables + InTransit + m /\ InTransit + m <= Room
    BY DEF Near, Fits
  <1> QED
    BY <1>1, <1>2, <1>3, <1>4 DEF Close

-----------------------------------------------------------------------------
(***************************************************************************)
(* The list the receiver waits with.                                       *)
(***************************************************************************)

\* What holds of the channel when it takes a step.
Steady(m) ==
    PacketsInv /\ ListsInv /\ GroupInv /\ OrderInv /\ Fits(m) /\ Near(m)

\* Where the receiver is.
LEMMA ReceiverIs ==
    ASSUME NEW m \in Nat, Steady(m)
    PROVE  /\ reliables \in Nat /\ incomingUnreliable \in Nat
           /\ incomingUnreliable \in 0 .. MaximumUnreliable
           /\ reliables <= Outgoing.reliable /\ Outgoing.reliable \in Nat
           /\ packets \in Seq(OutgoingCommands)
           /\ Waiting(commands) /\ Done(dispatched)
  <1>1. MaximumUnreliable \in Nat
    BY Constants
  <1>2. packets \in Seq(OutgoingCommands)
    BY DEF Steady, PacketsInv
  <1>3. Outgoing.reliable \in Nat
    BY <1>2, OutgoingIs
  <1>4. reliables \in Nat /\ incomingUnreliable \in 0 .. MaximumUnreliable
        /\ Waiting(commands) /\ Done(dispatched) /\ reliables <= Outgoing.reliable
    BY DEF Steady, ListsInv, Near
  <1> QED
    BY <1>1, <1>2, <1>3, <1>4

\* What is not late is still to come.
LEMMA NotLate ==
    ASSUME NEW m \in Nat, Steady(m), NEW p \in DOMAIN packets, Alive(p),
           packets[p].kind \in Unreliables,
           ~Late(Number(packets[p].reliable), packets[p].unreliable),
           NEW e, e.packet = p
    PROVE  /\ Fit(e, reliables, incomingUnreliable)
           /\ reliables <= packets[p].reliable
  <1> PICK r : r = packets[p].reliable
    OBVIOUS
  <1>1. PacketsInv /\ ListsInv /\ Fits(m) /\ Near(m)
    BY DEF Steady
  <1>2. reliables \in Nat /\ incomingUnreliable \in Nat
    BY ReceiverIs
  <1>3. r \in Nat /\ packets[p].unreliable \in Nat
    BY <1>1, PacketNumbers
  <1>4. Close(r, reliables)
    BY <1>1, AliveClose
  <1>5. /\ InWindow(Number(r), Number(reliables))
              <=> reliables <= r /\ Span(r) + 1 < Span(reliables) + FreeReliableWindows
        /\ Number(r) = Number(reliables) <=> r = reliables
    BY <1>2, <1>3, <1>4, WindowTells
  <1>6. /\ InWindow(Number(r), Number(reliables))
        /\ Number(r) = Number(reliables) => ~(packets[p].unreliable <= incomingUnreliable)
    BY DEF Late
  <1>7. r = reliables => packets[p].unreliable > incomingUnreliable
    BY <1>2, <1>3, <1>5, <1>6
  <1> QED
    BY <1>4, <1>5, <1>6, <1>7 DEF Fit

\* An entry that waits.
Awaited(e) ==
    /\ EntryOf(e, packets) /\ packets[e.packet].kind \in Unreliables
    /\ e.packet \in DOMAIN packets
    /\ Fit(e, reliables, incomingUnreliable)
    /\ Awaits(e, reliables, incomingUnreliable)

\* All entries of the list do.
LEMMA CommandsWait ==
    ASSUME NEW m \in Nat, Steady(m), NEW i \in DOMAIN commands
    PROVE  Awaited(commands[i])
  <1> PICK e : e = commands[i]
    OBVIOUS
  <1>1. PacketsInv /\ ListsInv /\ Fits(m) /\ Near(m)
    BY DEF Steady
  <1>2. EntryOf(e, packets) /\ packets[e.packet].kind \in Unreliables
    BY ReceiverIs DEF Waiting
  <1>3. Awaits(e, reliables, incomingUnreliable)
    BY DEF Steady, OrderInv
  <1>4. e.packet \in DOMAIN packets /\ reliables <= packets[e.packet].reliable
    BY <1>2, <1>3 DEF EntryOf, Awaits
  <1>5. reliables \in Nat /\ reliables <= Outgoing.reliable
    BY ReceiverIs
  <1>6. reliables <= reliables
    BY <1>5
  <1>7. Close(packets[e.packet].reliable, reliables)
    BY <1>1, <1>4, <1>5, <1>6, AheadClose
  <1> QED
    BY <1>2, <1>3, <1>4, <1>7 DEF Awaited, Fit, Awaits

\* So the list is in order for the next dispatch.
LEMMA CommandsFit ==
    ASSUME NEW m \in Nat, Steady(m)
    PROVE  Fitting(commands, reliables, incomingUnreliable)
  <1>1. Dispatchable(commands)
    BY ReceiverIs, ListsAre
  <1>2. Ordered(commands)
    BY DEF Steady, OrderInv
  <1>3. \A i \in DOMAIN commands : Fit(commands[i], reliables, incomingUnreliable)
    BY CommandsWait DEF Awaited
  <1> QED
    BY <1>1, <1>2, <1>3 DEF Fitting

\* The search from the end of the list goes past what was sent later.
LEMMA PastIs ==
    ASSUME NEW m \in Nat, Steady(m), NEW p \in DOMAIN packets,
           packets[p].kind \in Unreliables, reliables <= packets[p].reliable,
           Span(packets[p].reliable) + 1 < Span(reliables) + FreeReliableWindows,
           NEW e, Awaited(e), NEW y, y = Number(packets[p].reliable)
    PROVE  /\ Past(e, y, packets[p].unreliable) <=> e.packet > p
           /\ (Reliable(e) = y /\ Unreliable(e) = packets[p].unreliable) <=> e.packet = p
  <1> PICK q : q = e.packet
    OBVIOUS
  <1> PICK c : c = reliables
    OBVIOUS
  <1> PICK r : r = packets[p].reliable
    OBVIOUS
  <1> PICK n : n = packets[q].reliable
    OBVIOUS
  <1> PICK x : x = Number(n)
    OBVIOUS
  <1> PICK z : z = Number(c)
    OBVIOUS
  <1> PICK s : s = packets[p].unreliable
    OBVIOUS
  <1> PICK t : t = packets[q].unreliable
    OBVIOUS
  <1>1. PacketsInv
    BY DEF Steady
  <1>2. /\ q \in DOMAIN packets /\ packets[q].kind \in Unreliables
        /\ Span(n) + 1 < Span(c) + FreeReliableWindows /\ c <= n
    BY DEF Awaited, Awaits
  <1>3. c \in Nat
    BY ReceiverIs
  <1>4. r \in Nat /\ n \in Nat /\ s \in Nat /\ t \in Nat
    BY <1>1, <1>2, PacketNumbers
  <1>5. Span(n) < Span(c) + ReliableWindows /\ Span(r) < Span(c) + ReliableWindows
    <2>1. /\ FreeReliableWindows \in Nat /\ ReliableWindows \in Nat
          /\ ReliableWindows >= FreeReliableWindows + FreeReliableWindows
      BY Constants
    <2>2. Span(n) \in Nat /\ Span(c) \in Nat /\ Span(r) \in Nat
      BY <1>3, <1>4, SpanIs
    <2> QED
      BY <1>2, <2>1, <2>2
  <1>6. /\ x \in Nat /\ y \in Nat /\ z \in Nat
        /\ x = y <=> n = r
        /\ y >= z => (x < z \/ x > y <=> n > r)
        /\ y < z => (x < z /\ x > y <=> n > r) /\ (x = y => x < z)
    BY <1>2, <1>3, <1>4, <1>5, OrderTells
  <1>7. Reliable(e) = x /\ Unreliable(e) = t
    BY <1>2 DEF Reliable, Unreliable, IsUnsequenced, Unreliables
  <1>8. /\ q > p <=> n > r \/ (n = r /\ t > s)
        /\ q = p <=> n = r /\ t = s
    BY <1>1, <1>2, PacketOrder
  <1>9. Past(e, y, s) <=>
           IF y >= z THEN x < z \/ x > y \/ (x = y /\ t > s)
           ELSE x < z /\ (x > y \/ (x = y /\ t > s))
    BY <1>7 DEF Past
  <1>10. Past(e, y, s) <=> n > r \/ (n = r /\ t > s)
    BY <1>4, <1>6, <1>9
  <1> QED
    BY <1>6, <1>7, <1>8, <1>10

\* A new packet is put where it belongs.
LEMMA InsertedFits ==
    ASSUME NEW m \in Nat, Steady(m), NEW p \in DOMAIN packets, Alive(p),
           packets[p].kind \in Unreliables,
           NEW y, y = Number(packets[p].reliable),
           NEW x, x = packets[p].unreliable, ~Late(y, x), ~IsQueued(y, x),
           NEW k, k = Position(y, x) + 1, NEW e, e.packet = p,
           NEW list, Waiting(list), Inserted(list, k, e)
    PROVE  /\ Fitting(list, reliables, incomingUnreliable)
           /\ \A i \in DOMAIN commands : commands[i].packet # p
           /\ reliables <= packets[p].reliable
  <1> PICK l : l = Position(y, x)
    OBVIOUS
  <1>1. Fit(e, reliables, incomingUnreliable) /\ reliables <= packets[p].reliable
    BY NotLate
  <1>2. Waiting(commands) /\ PacketsInv
    BY ReceiverIs DEF Steady
  <1>3. /\ l \in 0 .. Len(commands)
        /\ l # 0 => l \in DOMAIN commands /\ ~Past(commands[l], y, x)
        /\ \A i \in DOMAIN commands : i > l => Past(commands[i], y, x)
    BY <1>2, PositionIs
  <1>4. /\ Len(commands) \in Nat /\ DOMAIN commands = 1 .. Len(commands)
        /\ DOMAIN list = 1 .. Len(commands) + 1
        /\ list[l + 1] = e /\ l + 1 \in DOMAIN list
        /\ \A i \in DOMAIN list :
                 i = l + 1 \/ \E j \in DOMAIN commands :
                    list[i] = commands[j]
                    /\ ((i = j /\ i < l + 1) \/ (i = j + 1 /\ i > l + 1))
    BY <1>2, InsertedFrom
  <1>5. ASSUME NEW i \in DOMAIN commands
        PROVE  /\ Past(commands[i], y, x) <=> commands[i].packet > p
               /\ (Reliable(commands[i]) = y /\ Unreliable(commands[i]) = x)
                     <=> commands[i].packet = p
               /\ commands[i].packet \in Nat /\ ~IsUnsequenced(commands[i])
    <2>1. Awaited(commands[i])
      BY CommandsWait
    <2>2. Span(packets[p].reliable) + 1 < Span(reliables) + FreeReliableWindows
      BY <1>1 DEF Fit
    <2>3. commands[i].packet \in Nat
      BY <1>2, <2>1, PacketNumbers DEF Awaited
    <2>4. ~IsUnsequenced(commands[i])
      BY <2>1 DEF Awaited, IsUnsequenced, Unreliables
    <2> QED
      BY <1>1, <2>1, <2>2, <2>3, <2>4, PastIs
  <1>6. p \in Nat
    BY <1>2, PacketNumbers
  <1>7. Ordered(commands)
    BY DEF Steady, OrderInv
  <1>8. \A i \in DOMAIN commands : i > l => commands[i].packet > p
    BY <1>3, <1>5
  <1>9. l # 0 => commands[l].packet < p
    <2> HAVE l # 0
    <2>1. l \in DOMAIN commands /\ ~Past(commands[l], y, x)
      BY <1>3
    <2>2. ~(Reliable(commands[l]) = y /\ Unreliable(commands[l]) = x)
      BY DEF IsQueued
    <2>3. /\ ~(commands[l].packet > p) /\ commands[l].packet # p
          /\ commands[l].packet \in Nat
      BY <1>5, <2>1, <2>2
    <2> QED
      BY <1>6, <2>3
  <1>10. ASSUME NEW i \in DOMAIN commands, i <= l
         PROVE  commands[i].packet < p
    <2>1. l # 0 /\ l \in DOMAIN commands /\ i \in Nat /\ l \in Nat
      BY <1>3, <1>4, <1>10
    <2>2. commands[i].packet \in Nat /\ commands[l].packet \in Nat
          /\ ~IsUnsequenced(commands[i]) /\ ~IsUnsequenced(commands[l])
      BY <1>5, <2>1
    <2>3. i = l \/ commands[i].packet < commands[l].packet
      BY <1>7, <1>10, <2>1, <2>2 DEF Ordered
    <2> QED
      BY <1>6, <1>9, <2>1, <2>2, <2>3
  <1>11. \A i \in DOMAIN commands : commands[i].packet # p
    <2> TAKE i \in DOMAIN commands
    <2>1. i <= l \/ i > l
      BY <1>3, <1>4
    <2>2. commands[i].packet \in Nat
      BY <1>5
    <2> QED
      BY <1>6, <1>8, <1>10, <2>1, <2>2
  <1>12. Ordered(list)
    <2> SUFFICES ASSUME NEW i \in DOMAIN list, NEW j \in DOMAIN list, i < j
                 PROVE  list[i].packet < list[j].packet
      BY DEF Ordered
    <2>1. CASE i = l + 1
      <3>1. PICK b \in DOMAIN commands : list[j] = commands[b] /\ j = b + 1 /\ j > l + 1
        BY <1>3, <1>4, <2>1
      <3>2. b > l
        BY <1>3, <1>4, <3>1
      <3>3. commands[b].packet > p
        BY <1>8, <3>2
      <3> QED
        BY <1>4, <1>5, <1>6, <2>1, <3>1, <3>3
    <2>2. CASE j = l + 1
      <3>1. PICK a \in DOMAIN commands : list[i] = commands[a] /\ i = a /\ i < l + 1
        BY <1>3, <1>4, <2>2
      <3>2. a <= l
        BY <1>3, <1>4, <3>1
      <3> QED
        BY <1>4, <1>10, <2>2, <3>1, <3>2
    <2>3. CASE i # l + 1 /\ j # l + 1
      <3>1. PICK a \in DOMAIN commands :
               list[i] = commands[a]
               /\ ((i = a /\ i < l + 1) \/ (i = a + 1 /\ i > l + 1))
        BY <1>4, <2>3
      <3>2. PICK b \in DOMAIN commands :
               list[j] = commands[b]
               /\ ((j = b /\ j < l + 1) \/ (j = b + 1 /\ j > l + 1))
        BY <1>4, <2>3
      <3>3. a < b
        BY <1>3, <1>4, <3>1, <3>2
      <3>4. ~IsUnsequenced(commands[a]) /\ ~IsUnsequenced(commands[b])
        BY <1>5
      <3> QED
        BY <1>7, <3>1, <3>2, <3>3, <3>4 DEF Ordered
    <2> QED
      BY <2>1, <2>2, <2>3
  <1>13. \A i \in DOMAIN list : Fit(list[i], reliables, incomingUnreliable)
    <2> TAKE i \in DOMAIN list
    <2>1. \A j \in DOMAIN commands : Fit(commands[j], reliables, incomingUnreliable)
      BY CommandsWait DEF Awaited
    <2> QED
      BY <1>1, <1>4, <2>1
  <1>14. Dispatchable(list)
    BY ListsAre
  <1> QED
    BY <1>1, <1>11, <1>12, <1>13, <1>14 DEF Fitting

-----------------------------------------------------------------------------
(***************************************************************************)
(* Deliveries never go back.                                               *)
(***************************************************************************)

\* What is added to dispatchedCommands when the receiver goes from a and x to c
\* and v: in order, and between the two.
Added(moved, a, x, c, v) ==
    /\ Done(moved) /\ Ordered(moved)
    /\ a \in Nat /\ x \in Nat /\ c \in Nat /\ v \in Nat
    /\ a < c \/ (a = c /\ x <= v)
    /\ \A i \in DOMAIN moved : ~IsUnsequenced(moved[i]) =>
          Behind(moved[i].packet, c, v) /\ ~Behind(moved[i].packet, a, x)

\* What the receiver was past it still is.
LEMMA BehindStill ==
    ASSUME PacketsInv, NEW p \in DOMAIN packets, NEW a \in Nat, NEW x \in Nat,
           NEW c \in Nat, NEW v \in Nat, a < c \/ (a = c /\ x <= v), Behind(p, a, x)
    PROVE  Behind(p, c, v)
  <1>1. packets[p].reliable \in Nat /\ packets[p].unreliable \in Nat
    BY PacketNumbers
  <1> QED
    BY <1>1 DEF Behind

\* The order of what is dispatched, by places.
LEMMA InOrderIs ==
    SequencedInOrder <=>
       /\ \A i \in DOMAIN dispatched :
             ~IsUnsequenced(dispatched[i]) => newest < dispatched[i].packet
       /\ Ordered(dispatched)
  <1>1. \A i : i \in Sequenced <=>
           i \in DOMAIN dispatched /\ ~IsUnsequenced(dispatched[i])
    BY DEF Sequenced, Unsequenced
  <1> QED
    BY <1>1 DEF SequencedInOrder, Ordered

\* What is added comes after all there was.
LEMMA AddedFollows ==
    ASSUME NEW m \in Nat, Steady(m), NEW moved, NEW c, NEW v,
           Added(moved, reliables, incomingUnreliable, c, v),
           NEW i \in DOMAIN moved, ~IsUnsequenced(moved[i])
    PROVE  /\ newest < moved[i].packet
           /\ \A j \in DOMAIN dispatched : ~IsUnsequenced(dispatched[j]) =>
                 dispatched[j].packet < moved[i].packet
  <1> PICK p : p = moved[i].packet
    OBVIOUS
  <1>1. PacketsInv /\ GroupInv /\ OrderInv
    BY DEF Steady
  <1>2. p \in DOMAIN packets
    BY DEF Added, Done, EntryOf
  <1>3. ~Behind(p, reliables, incomingUnreliable)
    BY DEF Added
  <1>4. reliables \in Nat /\ incomingUnreliable \in Nat /\ Done(dispatched)
        /\ packets \in Seq(OutgoingCommands)
    BY ReceiverIs
  <1>5. newest < p
    <2>1. newest \in 0 .. Len(packets) /\ Len(packets) \in Nat /\ p \in Nat \ {0}
          /\ DOMAIN packets = 1 .. Len(packets)
      BY <1>1, <1>2, <1>4, PacketNumbers DEF GroupInv
    <2>2. CASE newest = 0
      BY <2>1, <2>2
    <2>3. CASE newest # 0
      <3>1. newest \in DOMAIN packets
        BY <2>1, <2>3
      <3>2. Behind(newest, reliables, incomingUnreliable)
        BY <1>1, <2>3 DEF OrderInv
      <3> QED
        BY <1>1, <1>2, <1>3, <1>4, <3>1, <3>2, BehindBefore
    <2> QED
      BY <2>2, <2>3
  <1>6. ASSUME NEW j \in DOMAIN dispatched, ~IsUnsequenced(dispatched[j])
        PROVE  dispatched[j].packet < p
    <2>1. j \in Sequenced
      BY <1>6 DEF Sequenced, Unsequenced
    <2>2. Behind(dispatched[j].packet, reliables, incomingUnreliable)
      BY <1>1, <2>1 DEF OrderInv
    <2>3. dispatched[j].packet \in DOMAIN packets
      BY <1>4 DEF Done, EntryOf
    <2> QED
      BY <1>1, <1>2, <1>3, <1>4, <2>2, <2>3, BehindBefore
  <1> QED
    BY <1>5, <1>6

\* In order are then both together.
LEMMA OrderedBoth ==
    ASSUME NEW s, NEW x, Done(s), Done(x), Ordered(s), Ordered(x),
           \A i \in DOMAIN s, j \in DOMAIN x :
              ~IsUnsequenced(s[i]) /\ ~IsUnsequenced(x[j]) => s[i].packet < x[j].packet,
           NEW t, t = s \o x
    PROVE  Ordered(t)
  <1>1. /\ Len(s) \in Nat /\ DOMAIN s = 1 .. Len(s)
        /\ DOMAIN x = 1 .. Len(x) /\ Len(x) \in Nat
        /\ DOMAIN t = 1 .. Len(s) + Len(x)
        /\ \A i \in DOMAIN t :
                 \/ i \in DOMAIN s /\ t[i] = s[i]
                 \/ i \notin DOMAIN s /\ i - Len(s) \in DOMAIN x /\ t[i] = x[i - Len(s)]
    BY FollowedBy
  <1> SUFFICES ASSUME NEW i \in DOMAIN t, NEW j \in DOMAIN t, i < j,
                      ~IsUnsequenced(t[i]), ~IsUnsequenced(t[j])
               PROVE  t[i].packet < t[j].packet
    BY DEF Ordered
  <1>2. CASE i \in DOMAIN s /\ j \in DOMAIN s
    <2>1. t[i] = s[i] /\ t[j] = s[j]
      BY <1>1, <1>2
    <2> QED
      BY <1>2, <2>1 DEF Ordered
  <1>3. CASE i \in DOMAIN s /\ j \notin DOMAIN s
    <2>1. t[i] = s[i] /\ j - Len(s) \in DOMAIN x /\ t[j] = x[j - Len(s)]
      BY <1>1, <1>3
    <2> QED
      BY <1>3, <2>1
  <1>4. CASE i \notin DOMAIN s
    <2>1. j \notin DOMAIN s
      BY <1>1, <1>4
    <2> PICK a : a = i - Len(s)
      OBVIOUS
    <2> PICK b : b = j - Len(s)
      OBVIOUS
    <2>2. a \in DOMAIN x /\ t[i] = x[a] /\ b \in DOMAIN x /\ t[j] = x[b]
      BY <1>1, <1>4, <2>1
    <2>3. a < b
      BY <1>1
    <2> QED
      BY <2>2, <2>3 DEF Ordered
  <1> QED
    BY <1>2, <1>3, <1>4

\* A step that adds to what is dispatched keeps the order.
LEMMA OrderAdded ==
    ASSUME NEW m \in Nat, Steady(m), UNCHANGED <<packets, newest>>,
           NEW c, c = reliables', NEW v, v = incomingUnreliable',
           NEW moved, Added(moved, reliables, incomingUnreliable, c, v),
           dispatched' = dispatched \o moved,
           NEW left, left = commands', Ordered(left),
           \A i \in DOMAIN left : Awaits(left[i], c, v)
    PROVE  OrderInv'
  <1> PICK t : t = dispatched \o moved
    OBVIOUS
  <1> PICK a : a = reliables
    OBVIOUS
  <1> PICK x : x = incomingUnreliable
    OBVIOUS
  <1> PICK n : n = newest
    OBVIOUS
  <1>1. PacketsInv /\ GroupInv /\ OrderInv /\ SequencedInOrder
    BY DEF Steady, OrderInv
  <1>2. Done(dispatched) /\ Done(moved) /\ packets \in Seq(OutgoingCommands)
    BY ReceiverIs DEF Added
  <1>3. /\ a \in Nat /\ x \in Nat /\ c \in Nat /\ v \in Nat
        /\ a < c \/ (a = c /\ x <= v)
        /\ Ordered(moved)
        /\ \A i \in DOMAIN moved : ~IsUnsequenced(moved[i]) =>
              Behind(moved[i].packet, c, v)
    BY DEF Added
  <1>4. /\ Len(dispatched) \in Nat /\ DOMAIN dispatched = 1 .. Len(dispatched)
        /\ \A i \in DOMAIN t :
              \/ i \in DOMAIN dispatched /\ t[i] = dispatched[i]
              \/ /\ i \notin DOMAIN dispatched /\ i - Len(dispatched) \in DOMAIN moved
                 /\ t[i] = moved[i - Len(dispatched)]
    BY <1>2, FollowedBy
  <1>5. Ordered(dispatched) /\ \A i \in DOMAIN dispatched :
           ~IsUnsequenced(dispatched[i]) => n < dispatched[i].packet
    BY <1>1, InOrderIs
  <1>6. \A j \in DOMAIN moved : ~IsUnsequenced(moved[j]) =>
           /\ n < moved[j].packet
           /\ \A i \in DOMAIN dispatched : ~IsUnsequenced(dispatched[i]) =>
                 dispatched[i].packet < moved[j].packet
    BY AddedFollows
  <1>7. Ordered(t)
    BY <1>2, <1>3, <1>5, <1>6, OrderedBoth
  <1>8. ASSUME NEW i \in DOMAIN t, ~IsUnsequenced(t[i])
        PROVE  n < t[i].packet /\ Behind(t[i].packet, c, v)
    <2>1. CASE i \in DOMAIN dispatched
      <3>1. t[i] = dispatched[i] /\ ~IsUnsequenced(dispatched[i])
        BY <1>4, <1>8, <2>1
      <3>2. i \in Sequenced
        BY <2>1, <3>1 DEF Sequenced, Unsequenced
      <3>3. Behind(dispatched[i].packet, a, x)
        BY <1>1, <3>2 DEF OrderInv
      <3>4. dispatched[i].packet \in DOMAIN packets
        BY <1>2, <2>1 DEF Done, EntryOf
      <3>5. Behind(dispatched[i].packet, c, v)
        BY <1>1, <1>3, <3>3, <3>4, BehindStill
      <3> QED
        BY <1>5, <2>1, <3>1, <3>5
    <2>2. CASE i \notin DOMAIN dispatched
      <3> PICK j : j = i - Len(dispatched)
        OBVIOUS
      <3>1. j \in DOMAIN moved /\ t[i] = moved[j]
        BY <1>4, <2>2
      <3> QED
        BY <1>3, <1>6, <1>8, <3>1
    <2> QED
      BY <2>1, <2>2
  <1>9. n # 0 => Behind(n, c, v)
    <2> HAVE n # 0
    <2>1. n \in DOMAIN packets
      <3>1. n \in 0 .. Len(packets) /\ DOMAIN packets = 1 .. Len(packets)
            /\ Len(packets) \in Nat
        BY <1>1, <1>2 DEF GroupInv
      <3> QED
        BY <3>1
    <2>2. Behind(n, a, x)
      BY <1>1 DEF OrderInv
    <2> QED
      BY <1>1, <1>3, <2>1, <2>2, BehindStill
  <1>10. /\ dispatched' = t /\ newest' = n /\ packets' = packets
         /\ reliables' = c /\ incomingUnreliable' = v /\ commands' = left
    OBVIOUS
  <1>11. (\A i \in Sequenced : Behind(dispatched[i].packet, reliables,
                                      incomingUnreliable))'
    BY <1>8, <1>10 DEF Sequenced, Unsequenced, IsUnsequenced, Behind
  <1>12. SequencedInOrder'
    <2>1. \A i \in DOMAIN t, j \in DOMAIN t :
             i < j /\ ~IsUnsequenced(t[i]) /\ ~IsUnsequenced(t[j])
             => t[i].packet < t[j].packet
      BY <1>7 DEF Ordered
    <2> QED
      BY <1>8, <1>10, <2>1 DEF SequencedInOrder, Sequenced, Unsequenced,
         IsUnsequenced
  <1>13. (\A i \in DOMAIN commands :
             Awaits(commands[i], reliables, incomingUnreliable))'
    BY <1>10 DEF Awaits
  <1>14. Ordered(commands)' /\ (newest # 0 => Behind(newest, reliables,
                                                      incomingUnreliable))'
    BY <1>9, <1>10 DEF Ordered, IsUnsequenced, Behind
  <1> QED
    BY <1>11, <1>12, <1>13, <1>14 DEF OrderInv

\* What dispatching at the numbers it is at adds.
LEMMA AdvancedAdds ==
    ASSUME PacketsInv, NEW c \in Nat, NEW u \in Nat, NEW v, NEW moved, NEW left,
           Advanced(moved, left, c, u, v), Done(moved)
    PROVE  Added(moved, c, u, c, v)
  <1>1. v \in Nat /\ u <= v /\ Ordered(moved)
    BY DEF Advanced
  <1>2. ASSUME NEW i \in DOMAIN moved, ~IsUnsequenced(moved[i])
        PROVE  Behind(moved[i].packet, c, v) /\ ~Behind(moved[i].packet, c, u)
    <2>1. moved[i].packet \in DOMAIN packets
      BY DEF Done, EntryOf
    <2>2. packets[moved[i].packet].unreliable \in Nat
      BY <2>1, PacketNumbers
    <2>3. /\ packets[moved[i].packet].reliable = c
          /\ packets[moved[i].packet].unreliable > u
          /\ packets[moved[i].packet].unreliable <= v
      BY <1>2 DEF Advanced
    <2> QED
      BY <1>1, <2>2, <2>3 DEF Behind
  <1> QED
    BY <1>1, <1>2 DEF Added

\* What is left is of the list.
OfList(left, list) == \A k \in DOMAIN left : \E i \in DOMAIN list : left[k] = list[i]

\* What a dispatch leaves was in the list.
LEMMA LeftEntries ==
    ASSUME packets \in Seq(OutgoingCommands), NEW list, Dispatchable(list),
           NEW r, NEW u \in 0 .. MaximumUnreliable,
           NEW left, left = DispatchedFrom(list, r, u).left
    PROVE  OfList(left, list)
  <1> PICK S : S = EntriesOf(packets)
    OBVIOUS
  <1> PICK res : res = DispatchedFrom(list, r, u)
    OBVIOUS
  <1>1. list \in Seq(S)
    BY ListsAre
  <1>2. \E end, from, M :
              /\ Dispatches(list, r, u, end, from, M, res.unreliable)
              /\ res.moved = Picked(list, M)
              /\ res.left = Picked(list, Left(list, from, M))
              /\ res.unreliable \in 0 .. MaximumUnreliable
    BY <1>1, DispatchedIs
  <1> PICK L : left = Picked(list, L)
    BY <1>2
  <1> QED
    BY <1>1, PickedEntries DEF OfList

\* A list that is put in order and dispatched keeps the order.
LEMMA OrderQueued ==
    ASSUME NEW m \in Nat, Steady(m), UNCHANGED <<packets, reliables, newest>>,
           NEW list, Fitting(list, reliables, incomingUnreliable),
           DispatchUnreliable(list)
    PROVE  OrderInv'
  <1> PICK r : r = Number(reliables)
    OBVIOUS
  <1> PICK u : u = incomingUnreliable
    OBVIOUS
  <1> PICK res : res = DispatchedFrom(list, r, u)
    OBVIOUS
  <1> PICK moved : moved = res.moved
    OBVIOUS
  <1> PICK left : left = res.left
    OBVIOUS
  <1> PICK v : v = res.unreliable
    OBVIOUS
  <1>1. /\ commands' = left /\ dispatched' = dispatched \o moved
        /\ incomingUnreliable' = v /\ reliables' = reliables
    BY DEF DispatchUnreliable
  <1>2. /\ PacketsInv /\ packets \in Seq(OutgoingCommands)
        /\ u \in 0 .. MaximumUnreliable /\ reliables \in Nat /\ u \in Nat
        /\ Dispatchable(list)
    BY ReceiverIs DEF Steady, Fitting
  <1>3. Advanced(moved, left, reliables, u, v)
    BY <1>2, DispatchOrder
  <1>4. Done(moved)
    BY <1>2, DispatchKeeps
  <1>5. Added(moved, reliables, u, reliables, v)
    BY <1>2, <1>3, <1>4, AdvancedAdds
  <1>6. Ordered(left) /\ \A i \in DOMAIN left : Awaits(left[i], reliables, v)
    BY <1>3 DEF Advanced
  <1> QED
    BY <1>1, <1>5, <1>6, OrderAdded

\* A step that leaves the channel and what was delivered alone keeps the order.
LEMMA OrderSame ==
    ASSUME OrderInv, UNCHANGED <<packets, reliables, incomingUnreliable, commands,
                                 dispatched, newest>>
    PROVE  OrderInv'
  BY DEF OrderInv, Awaits, Ordered, IsUnsequenced, Behind, Sequenced, Unsequenced,
         SequencedInOrder

\* An unreliable packet takes its place.
LEMMA OrderUnreliable ==
    ASSUME NEW m \in Nat, Steady(m), NEW p \in DOMAIN packets, ReceiveUnreliable(p)
    PROVE  OrderInv'
  <1> PICK y : y = Number(packets[p].reliable)
    OBVIOUS
  <1> PICK x : x = packets[p].unreliable
    OBVIOUS
  <1> PICK k : k = Position(y, x) + 1
    OBVIOUS
  <1> PICK list : list = UnreliableList(p)
    OBVIOUS
  <1>1. /\ packets[p].kind = "SEND_UNRELIABLE" /\ Alive(p)
        /\ ~Late(y, x) /\ ~IsQueued(y, x)
        /\ UNCHANGED <<packets, reliables, newest>>
    BY DEF ReceiveUnreliable, Arrives
  <1>2. DispatchUnreliable(list)
    BY DEF ReceiveUnreliable, UnreliableList
  <1>3. PacketsInv /\ ListsInv
    BY DEF Steady
  <1> PICK e : /\ e.packet = p /\ e.fragmentsRemaining = 0
               /\ Waiting(list) /\ Inserted(list, k, e)
    BY <1>1, <1>3, UnreliableQueued
  <1>4. packets[p].kind \in Unreliables
    BY <1>1 DEF Unreliables
  <1>5. Fitting(list, reliables, incomingUnreliable)
    BY <1>1, <1>4, InsertedFits
  <1> QED
    BY <1>1, <1>2, <1>5, OrderQueued

\* An unsequenced one comes before the list, and is moved at once.
LEMMA OrderUnsequenced ==
    ASSUME NEW m \in Nat, Steady(m), NEW p \in DOMAIN packets, ReceiveUnsequenced(p)
    PROVE  OrderInv'
  <1> PICK e : e = Entry(p, {1})
    OBVIOUS
  <1> PICK list : list = WithHead(e)
    OBVIOUS
  <1>1. /\ packets[p].kind = "SEND_UNSEQUENCED"
        /\ UNCHANGED <<packets, reliables, newest>>
        /\ \/ DispatchUnreliable(list)
           \/ UNCHANGED <<commands, dispatched, incomingUnreliable>>
    BY DEF ReceiveUnsequenced, Arrives, WithHead
  <1>2. PacketsInv /\ ListsInv /\ OrderInv
    BY DEF Steady
  <1>3. /\ e.packet = p /\ Dispatchable(list) /\ DOMAIN list = 1 .. Len(commands) + 1
        /\ list[1] = e /\ \A i \in 1 .. Len(commands) : list[i + 1] = commands[i]
    BY <1>1, <1>2, UnsequencedList
  <1>4. Fitting(commands, reliables, incomingUnreliable)
    BY CommandsFit
  <1>5. DOMAIN commands = 1 .. Len(commands) /\ Len(commands) \in Nat
    BY ReceiverIs DEF Waiting
  <1>6. IsUnsequenced(list[1])
    BY <1>1, <1>3 DEF IsUnsequenced
  <1>7. ASSUME NEW i \in DOMAIN list, i # 1
        PROVE  i - 1 \in DOMAIN commands /\ list[i] = commands[i - 1]
    <2> PICK j : j = i - 1
      OBVIOUS
    <2>1. j \in 1 .. Len(commands) /\ i = j + 1
      BY <1>3, <1>5, <1>7
    <2> QED
      BY <1>3, <1>5, <2>1
  <1>8. Ordered(list)
    <2> SUFFICES ASSUME NEW i \in DOMAIN list, NEW j \in DOMAIN list, i < j,
                        ~IsUnsequenced(list[i]), ~IsUnsequenced(list[j])
                 PROVE  list[i].packet < list[j].packet
      BY DEF Ordered
    <2>1. i # 1 /\ j # 1
      BY <1>3, <1>5, <1>6
    <2> PICK a : a = i - 1
      OBVIOUS
    <2> PICK b : b = j - 1
      OBVIOUS
    <2>2. /\ a \in DOMAIN commands /\ list[i] = commands[a]
          /\ b \in DOMAIN commands /\ list[j] = commands[b]
      BY <1>7, <2>1
    <2>3. a < b
      BY <1>3, <1>5
    <2> QED
      BY <1>4, <2>2, <2>3 DEF Fitting, Ordered
  <1>9. ASSUME NEW i \in DOMAIN list
        PROVE  IsUnsequenced(list[i]) \/ Fit(list[i], reliables, incomingUnreliable)
    BY <1>4, <1>6, <1>7 DEF Fitting
  <1>10. Fitting(list, reliables, incomingUnreliable)
    BY <1>3, <1>8, <1>9 DEF Fitting
  <1> QED
    BY <1>1, <1>2, <1>10, OrderQueued, OrderSame

\* A fragment is copied into an entry that keeps its place.
LEMMA OrderFurther ==
    ASSUME NEW m \in Nat, Steady(m), NEW p \in DOMAIN packets,
           NEW fragment \in 1 .. packets[p].length, ReceiveFurtherFragment(p, fragment)
    PROVE  OrderInv'
  <1> PICK i : i = Position(Number(packets[p].reliable), packets[p].unreliable)
    OBVIOUS
  <1> PICK list : list = FurtherList(i, fragment)
    OBVIOUS
  <1>1. PacketsInv /\ ListsInv /\ OrderInv
    BY DEF Steady
  <1>2. /\ Waiting(list) /\ DOMAIN list = DOMAIN commands /\ i \in DOMAIN commands
        /\ \A j \in DOMAIN commands : j # i => list[j] = commands[j]
        /\ \A j \in DOMAIN commands : list[j].packet = commands[j].packet
        /\ list[i].fragmentsRemaining \in Nat
        /\ UNCHANGED <<packets, reliables, newest>>
        /\ \/ list[i].fragmentsRemaining = 0 /\ DispatchUnreliable(list)
           \/ /\ list[i].fragmentsRemaining # 0 /\ commands' = list
              /\ UNCHANGED <<dispatched, incomingUnreliable>>
    BY <1>1, FurtherCopied
  <1>3. Fitting(commands, reliables, incomingUnreliable)
    BY CommandsFit
  <1>4. Ordered(list)
    BY <1>2, <1>3 DEF Fitting, Ordered, IsUnsequenced
  <1>5. CASE DispatchUnreliable(list)
    <2>1. Dispatchable(list)
      BY <1>2, ListsAre
    <2>2. \A j \in DOMAIN list : Fit(list[j], reliables, incomingUnreliable)
      <3>1. \A j \in DOMAIN commands : Fit(commands[j], reliables, incomingUnreliable)
        BY CommandsWait DEF Awaited
      <3> QED
        BY <1>2, <3>1 DEF Fit
    <2>3. Fitting(list, reliables, incomingUnreliable)
      BY <1>4, <2>1, <2>2 DEF Fitting
    <2> QED
      BY <1>2, <1>5, <2>3, OrderQueued
  <1>6. CASE /\ list[i].fragmentsRemaining # 0 /\ commands' = list
             /\ UNCHANGED <<dispatched, incomingUnreliable>>
    <2>1. \A j \in DOMAIN list : Awaits(list[j], reliables, incomingUnreliable)
      <3>1. \A j \in DOMAIN commands : Awaits(commands[j], reliables, incomingUnreliable)
        BY <1>1 DEF OrderInv
      <3>2. Awaits(list[i], reliables, incomingUnreliable)
        <4>1. Awaits(commands[i], reliables, incomingUnreliable)
          BY <1>2, <3>1
        <4>2. list[i].packet = commands[i].packet /\ list[i].fragmentsRemaining > 0
          BY <1>2, <1>6
        <4> QED
          BY <4>1, <4>2 DEF Awaits
      <3> QED
        BY <1>2, <3>1, <3>2
    <2> QED
      <3>1. UNCHANGED <<packets, reliables, incomingUnreliable, dispatched, newest>>
        BY <1>2, <1>6
      <3>2. SequencedInOrder'
        BY <1>1, <3>1 DEF OrderInv, SequencedInOrder, Sequenced, Unsequenced,
           IsUnsequenced
      <3>3. (\A j \in Sequenced : Behind(dispatched[j].packet, reliables,
                                        incomingUnreliable))'
        BY <1>1, <3>1 DEF OrderInv, Sequenced, Unsequenced, IsUnsequenced, Behind
      <3>4. (newest # 0 => Behind(newest, reliables, incomingUnreliable))'
        BY <1>1, <3>1 DEF OrderInv, Behind
      <3>5. (\A j \in DOMAIN commands :
                Awaits(commands[j], reliables, incomingUnreliable))'
        BY <1>6, <2>1, <3>1 DEF Awaits
      <3>6. Ordered(commands)'
        BY <1>4, <1>6, <3>1 DEF Ordered, IsUnsequenced
      <3> QED
        BY <3>2, <3>3, <3>4, <3>5, <3>6 DEF OrderInv
  <1> QED
    BY <1>2, <1>5, <1>6

\* The entries of a list, with the fragment in that of p.
CopiedIn(list, p, fragment) ==
    [i \in DOMAIN list |->
        IF list[i].packet = p THEN Copied(list[i], fragment) ELSE list[i]]

\* The first fragment of a packet takes its place, if the entry is kept.
LEMMA OrderFirst ==
    ASSUME NEW m \in Nat, Steady(m), NEW p \in DOMAIN packets,
           NEW fragment \in 1 .. packets[p].length, ReceiveFirstFragment(p, fragment)
    PROVE  OrderInv'
  <1> PICK y : y = Number(packets[p].reliable)
    OBVIOUS
  <1> PICK x : x = packets[p].unreliable
    OBVIOUS
  <1> PICK k : k = Position(y, x) + 1
    OBVIOUS
  <1> PICK list : list = FragmentList(p)
    OBVIOUS
  <1> PICK r : r = Number(reliables)
    OBVIOUS
  <1> PICK u : u = incomingUnreliable
    OBVIOUS
  <1> PICK res : res = DispatchedFrom(list, r, u)
    OBVIOUS
  <1> PICK moved : moved = res.moved
    OBVIOUS
  <1> PICK left : left = res.left
    OBVIOUS
  <1> PICK v : v = res.unreliable
    OBVIOUS
  <1> PICK copied : copied = CopiedIn(left, p, fragment)
    OBVIOUS
  <1>1. /\ packets[p].kind = "SEND_UNRELIABLE_FRAGMENT" /\ Alive(p)
        /\ ~Late(y, x) /\ ~IsQueued(y, x)
        /\ UNCHANGED <<packets, reliables, newest>>
    BY DEF ReceiveFirstFragment, Arrives
  <1>2. res = QueuedFor(p)
    BY DEF QueuedFor, FragmentList
  <1>3. /\ commands' = copied /\ dispatched' = dispatched \o moved
        /\ incomingUnreliable' = v /\ reliables' = reliables
    BY <1>2 DEF ReceiveFirstFragment, CopiedIn
  <1>4. /\ PacketsInv /\ ListsInv /\ packets \in Seq(OutgoingCommands)
        /\ u \in 0 .. MaximumUnreliable /\ reliables \in Nat /\ u \in Nat
    BY ReceiverIs DEF Steady
  <1> PICK e : /\ e.packet = p /\ e.fragmentsRemaining = packets[p].length
               /\ e.fragmentsRemaining \in Nat \ {0}
               /\ Waiting(list) /\ Inserted(list, k, e)
    BY <1>1, <1>4, FragmentQueued
  <1>5. packets[p].kind \in Unreliables
    BY <1>1 DEF Unreliables
  <1>6. /\ Fitting(list, reliables, incomingUnreliable)
        /\ \A i \in DOMAIN commands : commands[i].packet # p
    BY <1>1, <1>5, InsertedFits
  <1>7. Dispatchable(list)
    BY <1>6 DEF Fitting
  <1>8. Advanced(moved, left, reliables, u, v)
    BY <1>4, <1>6, DispatchOrder
  <1>9. Done(moved) /\ Waiting(left)
    BY <1>4, <1>7, DispatchKeeps
  <1>10. Added(moved, reliables, u, reliables, v)
    BY <1>4, <1>8, <1>9, AdvancedAdds
  <1>11. Ordered(left) /\ \A i \in DOMAIN left : Awaits(left[i], reliables, v)
    BY <1>8 DEF Advanced
  <1>12. \A i \in DOMAIN left : \E j \in DOMAIN list : left[i] = list[j]
    <2>1. OfList(left, list)
      BY <1>4, <1>7, LeftEntries
    <2> QED
      BY <2>1 DEF OfList
  <1>13. ASSUME NEW i \in DOMAIN left, left[i].packet = p
         PROVE  left[i] = e
    <2> PICK j \in DOMAIN list : left[i] = list[j]
      BY <1>12
    <2>1. Waiting(commands)
      BY ReceiverIs
    <2>2. /\ list[k] = e
          /\ j = k \/ \E l \in DOMAIN commands : list[j] = commands[l]
      BY <2>1, InsertedFrom
    <2> QED
      BY <1>6, <1>13, <2>2
  <1>14. packets[p].length > 1
    <2>1. Formed(packets[p])
      BY <1>4, PacketNumbers
    <2> QED
      BY <1>1, <2>1 DEF Formed
  <1>15. ASSUME NEW i \in DOMAIN left
         PROVE  /\ copied[i].packet = left[i].packet
                /\ Awaits(copied[i], reliables, v)
    <2>1. Awaits(left[i], reliables, v)
      BY <1>11
    <2>2. CASE left[i].packet # p
      <3>1. copied[i] = left[i]
        BY <2>2 DEF CopiedIn
      <3> QED
        BY <2>1, <3>1
    <2>3. CASE left[i].packet = p
      <3> PICK d : d = Copied(left[i], fragment)
        OBVIOUS
      <3>1. copied[i] = d /\ left[i] = e
        BY <1>13, <2>3 DEF CopiedIn
      <3>2. /\ EntryOf(left[i], packets)
            /\ fragment \in 1 .. packets[left[i].packet].length
        BY <1>9, <2>3 DEF Waiting
      <3>3. /\ EntryOf(d, packets) /\ d.packet = left[i].packet
            /\ d \in IncomingCommands
            /\ d = left[i] \/ left[i].fragmentsRemaining = d.fragmentsRemaining + 1
        BY <1>4, <3>2, CopiedIs
      <3>4. d.fragmentsRemaining \in Nat
        BY <3>3 DEF IncomingCommands
      <3>5. d.fragmentsRemaining > 0
        BY <1>14, <3>1, <3>3, <3>4
      <3> QED
        BY <2>1, <3>1, <3>3, <3>5 DEF Awaits
    <2> QED
      BY <2>2, <2>3
  <1>16. DOMAIN copied = DOMAIN left
    BY DEF CopiedIn
  <1>17. Ordered(copied) /\ \A i \in DOMAIN copied : Awaits(copied[i], reliables, v)
    BY <1>11, <1>15, <1>16 DEF Ordered, IsUnsequenced
  <1> QED
    BY <1>1, <1>3, <1>10, <1>17, OrderAdded

\* The reliable packets that are moved are newer than all that was, and older than
\* the unreliable ones that follow them.
LEMMA ReliablesAdd ==
    ASSUME NEW m \in Nat, Steady(m), NEW p \in DOMAIN packets,
           packets[p].kind = "SEND_RELIABLE", reliables < packets[p].reliable,
           NEW next, Done(next),
           \A i \in DOMAIN next : next[i].packet \in ReadyReliables(p),
           \A i, j \in DOMAIN next : i < j => next[i].packet < next[j].packet,
           NEW c, c = packets[p].reliable, NEW v,
           NEW moved, NEW left, Advanced(moved, left, c, 0, v), Done(moved),
           NEW x, x = next \o moved, Done(x)
    PROVE  Added(x, reliables, incomingUnreliable, c, v)
  <1>1. PacketsInv /\ c \in Nat /\ reliables \in Nat /\ incomingUnreliable \in Nat
    BY PacketNumbers, ReceiverIs DEF Steady
  <1>2. v \in Nat /\ Ordered(moved)
    BY DEF Advanced
  <1>3. ASSUME NEW i \in DOMAIN next, NEW q, q = next[i].packet
        PROVE  /\ q \in DOMAIN packets /\ packets[q].kind = "SEND_RELIABLE"
               /\ packets[q].reliable \in Nat /\ packets[q].unreliable = 0
               /\ reliables < packets[q].reliable /\ packets[q].reliable <= c
    <2>1. /\ q \in DOMAIN packets /\ packets[q].kind = "SEND_RELIABLE"
          /\ reliables < packets[q].reliable /\ packets[q].reliable <= c
      BY <1>3 DEF ReadyReliables
    <2>2. Formed(packets[q]) /\ packets[q].reliable \in Nat
      BY <1>1, <2>1, PacketNumbers
    <2> QED
      BY <2>1, <2>2 DEF Formed
  <1>4. ASSUME NEW j \in DOMAIN moved, ~IsUnsequenced(moved[j]), NEW q, q = moved[j].packet
        PROVE  /\ q \in DOMAIN packets /\ packets[q].kind \in Unreliables
               /\ packets[q].reliable = c
               /\ packets[q].unreliable \in Nat /\ packets[q].unreliable <= v
    <2>1. q \in DOMAIN packets
      BY <1>4 DEF Done, EntryOf
    <2>2. packets[q].unreliable \in Nat
      BY <1>1, <2>1, PacketNumbers
    <2> QED
      BY <1>4, <2>1, <2>2 DEF Advanced
  <1>5. ASSUME NEW i \in DOMAIN next, NEW j \in DOMAIN moved, ~IsUnsequenced(moved[j])
        PROVE  next[i].packet < moved[j].packet
    <2> PICK q : q = next[i].packet
      OBVIOUS
    <2> PICK e : e = moved[j].packet
      OBVIOUS
    <2>1. /\ q \in DOMAIN packets /\ packets[q].kind = "SEND_RELIABLE"
          /\ packets[q].reliable \in Nat /\ packets[q].reliable <= c
      BY <1>3
    <2>2. /\ e \in DOMAIN packets /\ packets[e].kind \in Unreliables
          /\ packets[e].reliable = c
      BY <1>4, <1>5
    <2>3. e \in Nat /\ q \in Nat
      BY <1>1, <2>1, <2>2, PacketNumbers
    <2>4. e # q
      BY <2>1, <2>2 DEF Unreliables
    <2>5. CASE e < q
      <3>1. Follows(packets[e], packets[q], q - e)
        BY <1>1, <2>1, <2>2, <2>5 DEF PacketsInv
      <3>2. packets[e].reliable < packets[q].reliable
        BY <2>1, <3>1 DEF Follows
      <3> QED
        BY <1>1, <2>1, <2>2, <3>2
    <2> QED
      BY <2>3, <2>4, <2>5
  <1>6. Ordered(next)
    BY DEF Ordered
  <1>7. Ordered(x)
    BY <1>2, <1>5, <1>6, OrderedBoth
  <1>8. ASSUME NEW i \in DOMAIN x, ~IsUnsequenced(x[i])
        PROVE  /\ Behind(x[i].packet, c, v)
               /\ ~Behind(x[i].packet, reliables, incomingUnreliable)
    <2>1. \/ i \in DOMAIN next /\ x[i] = next[i]
          \/ i - Len(next) \in DOMAIN moved /\ x[i] = moved[i - Len(next)]
      BY FollowedBy
    <2>2. CASE i \in DOMAIN next /\ x[i] = next[i]
      <3> PICK q : q = next[i].packet
        OBVIOUS
      <3>1. /\ packets[q].reliable \in Nat /\ packets[q].unreliable = 0
            /\ reliables < packets[q].reliable /\ packets[q].reliable <= c
        BY <1>3, <2>2
      <3>2. Behind(q, c, v) /\ ~Behind(q, reliables, incomingUnreliable)
        BY <1>1, <1>2, <3>1 DEF Behind
      <3> QED
        BY <2>2, <3>2
    <2>3. CASE i - Len(next) \in DOMAIN moved /\ x[i] = moved[i - Len(next)]
      <3> PICK j : j = i - Len(next)
        OBVIOUS
      <3> PICK q : q = moved[j].packet
        OBVIOUS
      <3>1. j \in DOMAIN moved /\ x[i] = moved[j] /\ ~IsUnsequenced(moved[j])
        BY <1>8, <2>3
      <3>2. packets[q].reliable = c /\ packets[q].unreliable <= v
        BY <1>4, <3>1
      <3>3. Behind(q, c, v) /\ ~Behind(q, reliables, incomingUnreliable)
        BY <1>1, <3>2 DEF Behind
      <3> QED
        BY <3>1, <3>3
    <2> QED
      BY <2>1, <2>2, <2>3
  <1> QED
    BY <1>1, <1>2, <1>7, <1>8 DEF Added

\* What waits fits the reliable command that is next.
LEMMA CommandsFitNext ==
    ASSUME NEW m \in Nat, Steady(m), NEW c \in Nat, reliables < c, c <= Outgoing.reliable
    PROVE  Fitting(commands, c, 0)
  <1>1. PacketsInv /\ ListsInv /\ Fits(m) /\ Near(m) /\ reliables \in Nat
    BY ReceiverIs DEF Steady
  <1>2. Dispatchable(commands) /\ Ordered(commands)
    BY CommandsFit DEF Fitting
  <1>3. Span(reliables) <= Span(c) /\ Span(reliables) \in Nat /\ Span(c) \in Nat
    <2>1. ReliableWindowSize \in Nat \ {0}
      BY Constants
    <2>2. reliables <= c
      BY <1>1
    <2> QED
      BY <1>1, <2>1, <2>2, DivMonotone, SpanIs DEF Span
  <1>4. ASSUME NEW i \in DOMAIN commands
        PROVE  Fit(commands[i], c, 0)
    <2> PICK q : q = commands[i].packet
      OBVIOUS
    <2>1. Awaited(commands[i])
      BY CommandsWait
    <2>2. /\ q \in DOMAIN packets /\ packets[q].kind \in Unreliables
          /\ reliables <= packets[q].reliable
          /\ Span(packets[q].reliable) + 1 < Span(reliables) + FreeReliableWindows
      BY <2>1 DEF Awaited, Awaits
    <2>3. /\ packets[q].reliable \in Nat /\ packets[q].unreliable \in Nat
          /\ Formed(packets[q])
      BY <1>1, <2>2, PacketNumbers
    <2>4. Span(packets[q].reliable) \in Nat /\ FreeReliableWindows \in Nat
      BY <2>3, SpanIs, Constants
    <2>5. Span(packets[q].reliable) + 1 < Span(c) + FreeReliableWindows
      BY <1>3, <2>2, <2>4
    <2>6. reliables <= c
      BY <1>1
    <2>7. Close(packets[q].reliable, c)
      BY <1>1, <2>2, <2>6, AheadClose
    <2>8. packets[q].unreliable > 0
      BY <2>2, <2>3 DEF Formed
    <2> QED
      BY <2>2, <2>5, <2>7, <2>8 DEF Fit
  <1> QED
    BY <1>2, <1>4 DEF Fitting

\* A reliable command goes on with what follows it.
LEMMA OrderReliable ==
    ASSUME NEW m \in Nat, Steady(m), NEW p \in DOMAIN packets, ReceiveReliable(p)
    PROVE  OrderInv'
  <1> PICK c : c = packets[p].reliable
    OBVIOUS
  <1> PICK r : r = Number(c)
    OBVIOUS
  <1> PICK next : next = ReliableNext(p)
    OBVIOUS
  <1> PICK res : res = DispatchedFrom(commands, r, 0)
    OBVIOUS
  <1> PICK moved : moved = res.moved
    OBVIOUS
  <1> PICK left : left = res.left
    OBVIOUS
  <1> PICK v : v = res.unreliable
    OBVIOUS
  <1> PICK x : x = next \o moved
    OBVIOUS
  <1>1. PacketsInv /\ ListsInv
    BY DEF Steady
  <1>2. /\ packets[p].kind = "SEND_RELIABLE" /\ reliables < c
        /\ UNCHANGED <<packets, newest>> /\ reliables' = c
        /\ commands' = left /\ incomingUnreliable' = v
    BY DEF ReceiveReliable
  <1>3. /\ Done(next) /\ Done(moved) /\ Done(x)
        /\ dispatched' = dispatched \o x
        /\ \A k \in DOMAIN next : next[k].packet \in ReadyReliables(p)
        /\ \A k, l \in DOMAIN next : k < l => next[k].packet < next[l].packet
    BY <1>1, ReliableAdds, ZenonT(40)
  <1>4. c \in Nat /\ c <= Outgoing.reliable
    BY <1>1, PacketNumbers, OutgoingLast
  <1>5. Fitting(commands, c, 0)
    BY <1>2, <1>4, CommandsFitNext
  <1>6. 0 \in 0 .. MaximumUnreliable
    BY Constants
  <1>7. Advanced(moved, left, c, 0, v)
    BY <1>1, <1>4, <1>5, <1>6, DispatchOrder
  <1>8. Added(x, reliables, incomingUnreliable, c, v)
    BY <1>2, <1>3, <1>7, ReliablesAdd
  <1>9. Ordered(left) /\ \A i \in DOMAIN left : Awaits(left[i], c, v)
    BY <1>7 DEF Advanced
  <1> QED
    BY <1>2, <1>3, <1>8, <1>9, OrderAdded

\* What the application takes is the newest.
LEMMA OrderTaken ==
    ASSUME NEW m \in Nat, Steady(m), Receive
    PROVE  OrderInv'
  <1> PICK t : t = Tail(dispatched)
    OBVIOUS
  <1> PICK n : n = newest'
    OBVIOUS
  <1> PICK a : a = reliables
    OBVIOUS
  <1> PICK u : u = incomingUnreliable
    OBVIOUS
  <1>1. OrderInv /\ SequencedInOrder /\ Done(dispatched)
    BY ReceiverIs DEF Steady, OrderInv
  <1>2. /\ dispatched # <<>> /\ dispatched' = t /\ newest' = n
        /\ UNCHANGED <<packets, reliables, incomingUnreliable, commands>>
        /\ \/ IsUnsequenced(Head(dispatched)) /\ n = newest
           \/ ~IsUnsequenced(Head(dispatched)) /\ n = Head(dispatched).packet
    BY DEF Receive, IsUnsequenced
  <1>3. /\ Len(dispatched) \in Nat /\ DOMAIN dispatched = 1 .. Len(dispatched)
        /\ Head(dispatched) = dispatched[1] /\ 1 \in DOMAIN dispatched
        /\ DOMAIN t = 1 .. Len(dispatched) - 1
        /\ \A i \in DOMAIN t : i + 1 \in DOMAIN dispatched /\ t[i] = dispatched[i + 1]
    <2>1. dispatched \in Seq(IncomingCommands)
      BY <1>1 DEF Done
    <2> QED
      BY <1>2, <2>1
  <1>4. /\ Ordered(dispatched)
        /\ \A i \in DOMAIN dispatched :
              ~IsUnsequenced(dispatched[i]) => newest < dispatched[i].packet
    BY <1>1, InOrderIs
  <1>5. \A i \in DOMAIN dispatched :
           ~IsUnsequenced(dispatched[i]) => Behind(dispatched[i].packet, a, u)
    BY <1>1 DEF OrderInv, Sequenced, Unsequenced
  <1>6. n # 0 => Behind(n, a, u)
    <2>1. newest # 0 => Behind(newest, a, u)
      BY <1>1 DEF OrderInv
    <2> QED
      BY <1>2, <1>3, <1>5, <2>1
  <1>7. ASSUME NEW i \in DOMAIN t, ~IsUnsequenced(t[i])
        PROVE  n < t[i].packet /\ Behind(t[i].packet, a, u)
    <2> PICK j : j = i + 1
      OBVIOUS
    <2>1. j \in DOMAIN dispatched /\ t[i] = dispatched[j] /\ 1 < j
      BY <1>3
    <2>2. ~IsUnsequenced(Head(dispatched)) => dispatched[1].packet < dispatched[j].packet
      BY <1>3, <1>4, <1>7, <2>1 DEF Ordered
    <2> QED
      BY <1>2, <1>3, <1>4, <1>5, <1>7, <2>1, <2>2
  <1>8. ASSUME NEW i \in DOMAIN t, NEW j \in DOMAIN t, i < j,
               ~IsUnsequenced(t[i]), ~IsUnsequenced(t[j])
        PROVE  t[i].packet < t[j].packet
    <2> PICK k : k = i + 1
      OBVIOUS
    <2> PICK l : l = j + 1
      OBVIOUS
    <2>1. /\ k \in DOMAIN dispatched /\ t[i] = dispatched[k]
          /\ l \in DOMAIN dispatched /\ t[j] = dispatched[l] /\ k < l
      BY <1>3, <1>8
    <2> QED
      BY <1>4, <1>8, <2>1 DEF Ordered
  <1>9. (\A i \in Sequenced : Behind(dispatched[i].packet, reliables,
                                     incomingUnreliable))'
    BY <1>2, <1>7 DEF Sequenced, Unsequenced, IsUnsequenced, Behind
  <1>10. SequencedInOrder'
    BY <1>2, <1>7, <1>8 DEF SequencedInOrder, Sequenced, Unsequenced, IsUnsequenced
  <1>11. (\A i \in DOMAIN commands :
             Awaits(commands[i], reliables, incomingUnreliable))'
    BY <1>1, <1>2 DEF OrderInv, Awaits
  <1>12. Ordered(commands)'
    BY <1>1, <1>2 DEF OrderInv, Ordered, IsUnsequenced
  <1>13. (newest # 0 => Behind(newest, reliables, incomingUnreliable))'
    BY <1>2, <1>6 DEF Behind
  <1> QED
    BY <1>9, <1>10, <1>11, <1>12, <1>13 DEF OrderInv

\* A packet that is sent changes nothing of those before it.
LEMMA OrderSend ==
    ASSUME NEW m \in Nat, Steady(m), Send
    PROVE  OrderInv'
  <1>1. /\ \A p \in DOMAIN packets : p \in DOMAIN packets' /\ packets'[p] = packets[p]
        /\ UNCHANGED <<reliables, incomingUnreliable, commands, dispatched, newest>>
    <2>1. PacketsInv
      BY DEF Steady
    <2> QED
      BY <2>1, Sent DEF Send, receiver
  <1>2. OrderInv
    BY DEF Steady
  <1>3. \A i \in DOMAIN commands : commands[i].packet \in DOMAIN packets
    BY ReceiverIs DEF Waiting, EntryOf
  <1>4. \A i \in DOMAIN dispatched : dispatched[i].packet \in DOMAIN packets
    BY ReceiverIs DEF Done, EntryOf
  <1>5. newest # 0 => newest \in DOMAIN packets
    <2>1. newest \in 0 .. Len(packets)
      BY DEF Steady, GroupInv
    <2>2. Len(packets) \in Nat /\ DOMAIN packets = 1 .. Len(packets)
      BY ReceiverIs
    <2> QED
      BY <2>1, <2>2
  <1>6. \A i \in DOMAIN dispatched :
           IsUnsequenced(dispatched[i])' <=> IsUnsequenced(dispatched[i])
    BY <1>1, <1>4 DEF IsUnsequenced
  <1>7. Sequenced' = Sequenced
    <2>1. Unsequenced' = Unsequenced
      BY <1>1, <1>6 DEF Unsequenced
    <2> QED
      BY <1>1, <2>1 DEF Sequenced
  <1>8. Sequenced \subseteq DOMAIN dispatched
    BY DEF Sequenced
  <1>9. SequencedInOrder'
    BY <1>1, <1>2, <1>7 DEF OrderInv, SequencedInOrder
  <1>10. (\A i \in Sequenced : Behind(dispatched[i].packet, reliables,
                                      incomingUnreliable))'
    BY <1>1, <1>2, <1>4, <1>7, <1>8 DEF OrderInv, Behind
  <1>11. (newest # 0 => Behind(newest, reliables, incomingUnreliable))'
    BY <1>1, <1>2, <1>5 DEF OrderInv, Behind
  <1>12. (\A i \in DOMAIN commands :
             Awaits(commands[i], reliables, incomingUnreliable))'
    BY <1>1, <1>2, <1>3 DEF OrderInv, Awaits
  <1>13. Ordered(commands)'
    BY <1>1, <1>2, <1>3 DEF OrderInv, Ordered, IsUnsequenced
  <1> QED
    BY <1>9, <1>10, <1>11, <1>12, <1>13 DEF OrderInv

\* Every step keeps the order.
LEMMA OrderNext ==
    ASSUME NEW m \in Nat, Steady(m), [Next]_vars
    PROVE  OrderInv'
  <1>1. CASE Send
    BY <1>1, OrderSend
  <1>2. CASE Receive
    BY <1>2, OrderTaken
  <1>3. ASSUME NEW p \in DOMAIN packets, ReceiveReliable(p)
        PROVE  OrderInv'
    BY <1>3, OrderReliable
  <1>4. ASSUME NEW p \in DOMAIN packets, ReceiveUnreliable(p)
        PROVE  OrderInv'
    BY <1>4, OrderUnreliable
  <1>5. ASSUME NEW p \in DOMAIN packets, ReceiveUnsequenced(p)
        PROVE  OrderInv'
    BY <1>5, OrderUnsequenced
  <1>6. ASSUME NEW p \in DOMAIN packets, NEW fragment \in 1 .. packets[p].length,
               ReceiveFirstFragment(p, fragment)
        PROVE  OrderInv'
    BY <1>6, OrderFirst
  <1>7. ASSUME NEW p \in DOMAIN packets, NEW fragment \in 1 .. packets[p].length,
               ReceiveFurtherFragment(p, fragment)
        PROVE  OrderInv'
    BY <1>7, OrderFurther
  <1>8. CASE UNCHANGED vars
    <2>1. OrderInv
      BY DEF Steady
    <2> QED
      BY <1>8, <2>1, OrderSame DEF vars, receiver
  <1> QED
    BY <1>1, <1>2, <1>3, <1>4, <1>5, <1>6, <1>7, <1>8 DEF Next

\* It is so at the start.
LEMMA StartOrder ==
    ASSUME NEW m \in Nat, Init
    PROVE  OrderInv /\ Near(m)
  <1>1. /\ packets = <<>> /\ commands = <<>> /\ dispatched = <<>> /\ reliables = 0
        /\ newest = 0
    BY DEF Init
  <1>2. /\ DOMAIN packets = {} /\ DOMAIN commands = {} /\ DOMAIN dispatched = {}
    BY <1>1
  <1>3. Outgoing.reliable = 0
    BY <1>1 DEF Outgoing
  <1>4. 0 <= 0 /\ 0 < 0 + InTransit + m
    <2>1. InTransit \in Nat \ {0}
      BY BoundsAssumption
    <2> QED
      BY <2>1
  <1>5. Near(m)
    BY <1>1, <1>2, <1>3, <1>4 DEF Near
  <1>6. OrderInv
    BY <1>1, <1>2 DEF OrderInv, Ordered, Sequenced, SequencedInOrder
  <1> QED
    BY <1>5, <1>6

\* The channel is steady for ever.
LEMMA SteadyAlways ==
    ASSUME NEW m \in Nat, Fits(m)
    PROVE  Spec => []Steady(m)
  <1>1. Init => Steady(m)
    BY StartInv, StartOrder DEF Steady
  <1>2. Steady(m) /\ [Next]_vars => Steady(m)'
    <2> SUFFICES ASSUME Steady(m), [Next]_vars
                 PROVE  Steady(m)'
      OBVIOUS
    <2>1. PacketsInv /\ ListsInv /\ GroupInv /\ Near(m)
      BY DEF Steady
    <2>2. PacketsInv' /\ ListsInv' /\ GroupInv'
      BY <2>1, PacketsNext, ListsNext, GroupNext
    <2>3. OrderInv'
      BY OrderNext
    <2>4. Near(m)'
      BY <2>1, NearNext
    <2>5. Fits(m)'
      BY DEF Fits
    <2> QED
      BY <2>2, <2>3, <2>4, <2>5 DEF Steady
  <1> QED
    BY <1>1, <1>2, PTL DEF Spec

\* A channel never goes back: what enet_peer_receive gives was sent after all that
\* it gave before, if the numbers of the longest packets last (Fits).
THEOREM DeliveredInOrder ==
    ASSUME NEW m \in Nat, Fits(m)
    PROVE  Spec => []SequencedInOrder
  <1>1. Steady(m) => SequencedInOrder
    BY DEF Steady, OrderInv
  <1> QED
    BY <1>1, SteadyAlways, PTL

\* What is left in incomingUnreliableCommands may still be delivered.
THEOREM StillDeliverable ==
    ASSUME NEW m \in Nat, Fits(m)
    PROVE  Spec => []NothingStranded
  <1>1. Steady(m) => NothingStranded
    <2> SUFFICES ASSUME Steady(m)
                 PROVE  NothingStranded
      OBVIOUS
    <2>1. \A i \in DOMAIN commands :
             /\ Awaits(commands[i], reliables, incomingUnreliable)
             /\ packets[commands[i].packet].reliable \in Nat
      <3> TAKE i \in DOMAIN commands
      <3>1. Awaited(commands[i])
        BY CommandsWait
      <3>2. PacketsInv
        BY DEF Steady
      <3> QED
        BY <3>1, <3>2, PacketNumbers DEF Awaited
    <2>2. reliables \in Nat
      BY ReceiverIs
    <2> QED
      BY <2>1, <2>2 DEF NothingStranded, Awaits
  <1> QED
    BY <1>1, SteadyAlways, PTL

-----------------------------------------------------------------------------
(***************************************************************************)
(* The entry of a first fragment.                                          *)
(***************************************************************************)

\* The places of the list that wait for fragments only.
Incomplete ==
    {i \in DOMAIN commands :
        /\ packets[commands[i].packet].reliable = reliables
        /\ commands[i].fragmentsRemaining > 0}

\* Of two such places both count.
LEMMA TwoIncomplete ==
    ASSUME Waiting(commands), NEW i \in Incomplete, NEW j \in Incomplete, i # j
    PROVE  ~(Cardinality(Incomplete) < 2)
  <1>1. IsFiniteSet(Incomplete)
    <2>1. DOMAIN commands = 1 .. Len(commands) /\ Len(commands) \in Int /\ 1 \in Int
      BY DEF Waiting
    <2>2. IsFiniteSet(DOMAIN commands)
      BY <2>1, FS_Interval
    <2>3. Incomplete \subseteq DOMAIN commands
      BY DEF Incomplete
    <2> QED
      BY <2>2, <2>3, FS_Subset
  <1>2. IsFiniteSet({i}) /\ Cardinality({i}) = 1
    BY FS_Singleton
  <1>3. Cardinality({i} \cup {j}) = 2 /\ IsFiniteSet({i} \cup {j})
    <2>1. j \notin {i}
      OBVIOUS
    <2> QED
      BY <1>2, <2>1, FS_AddElement
  <1>4. {i} \cup {j} \subseteq Incomplete
    OBVIOUS
  <1>5. /\ Cardinality({i} \cup {j}) <= Cardinality(Incomplete)
        /\ Cardinality(Incomplete) \in Nat
    BY <1>1, <1>4, FS_Subset, FS_CardinalityType
  <1> QED
    BY <1>3, <1>5

\* The entry of a first fragment is kept unless two packets before it are incomplete.
LEMMA FirstKept ==
    ASSUME NEW m \in Nat, Steady(m), Cardinality(Incomplete) < 2,
           NEW p \in DOMAIN packets, Arrives(p, "SEND_UNRELIABLE_FRAGMENT"),
           NEW y, y = Number(packets[p].reliable),
           NEW x, x = packets[p].unreliable, ~Late(y, x), ~IsQueued(y, x)
    PROVE  IsKept(p)
  <1> PICK k : k = Position(y, x) + 1
    OBVIOUS
  <1> PICK list : list = FragmentList(p)
    OBVIOUS
  <1> PICK c : c = reliables
    OBVIOUS
  <1> PICK r : r = Number(c)
    OBVIOUS
  <1> PICK u : u = incomingUnreliable
    OBVIOUS
  <1> PICK res : res = DispatchedFrom(list, r, u)
    OBVIOUS
  <1> PICK S : S = EntriesOf(packets)
    OBVIOUS
  <1>1. packets[p].kind = "SEND_UNRELIABLE_FRAGMENT" /\ Alive(p)
    BY DEF Arrives
  <1>2. /\ PacketsInv /\ ListsInv /\ packets \in Seq(OutgoingCommands)
        /\ u \in 0 .. MaximumUnreliable /\ c \in Nat /\ u \in Nat
        /\ Waiting(commands)
    BY ReceiverIs DEF Steady
  <1> PICK e : /\ e.packet = p /\ e.fragmentsRemaining = packets[p].length
               /\ e.fragmentsRemaining \in Nat \ {0}
               /\ Waiting(list) /\ Inserted(list, k, e)
    BY <1>1, <1>2, FragmentQueued
  <1>3. packets[p].kind \in Unreliables
    BY <1>1 DEF Unreliables
  <1>4. Fitting(list, c, u) /\ c <= packets[p].reliable
    BY <1>1, <1>3, InsertedFits
  <1>5. /\ k \in DOMAIN list /\ list[k] = e /\ k \in Nat \ {0}
        /\ Len(commands) \in Nat /\ DOMAIN commands = 1 .. Len(commands)
        /\ DOMAIN list = 1 .. Len(commands) + 1
        /\ \A i \in DOMAIN list :
              i = k \/ \E j \in DOMAIN commands :
                 list[i] = commands[j] /\ ((i = j /\ i < k) \/ (i = j + 1 /\ i > k))
    BY <1>2, InsertedFrom
  <1>6. list \in Seq(S) /\ DOMAIN list = 1 .. Len(list) /\ Len(list) \in Nat
    <2>1. list \in Seq(S)
      BY ListsAre
    <2> QED
      BY <2>1
  <1>7. \E end, from, M :
           /\ Dispatches(list, r, u, end, from, M, res.unreliable)
           /\ res.left = Picked(list, Left(list, from, M))
    BY <1>2, <1>6, DispatchedIs
  <1> PICK end, from, M :
         /\ Dispatches(list, r, u, end, from, M, res.unreliable)
         /\ res.left = Picked(list, Left(list, from, M))
    BY <1>7
  <1>8. /\ end \in 1 .. Len(list) + 1 /\ from \in 1 .. end
        /\ \A i \in 1 .. end - 1 : ~Ahead(list[i], r)
        /\ M = {i \in 1 .. end - 1 : Passes(list[i], r)}
        /\ end <= 3 /\ (\A i \in 1 .. end - 1 : Lacks(list[i], r)) => from = 1
    BY DEF Dispatches
  <1>9. ASSUME NEW i \in 1 .. end - 1
        PROVE  /\ i \in DOMAIN list /\ Lacks(list[i], r)
               /\ packets[list[i].packet].reliable = c
               /\ i # k => \E j \in Incomplete : list[i] = commands[j]
                              /\ ((i = j /\ i < k) \/ (i = j + 1 /\ i > k))
    <2>1. i \in DOMAIN list /\ ~Ahead(list[i], r)
      BY <1>6, <1>8
    <2>2. ~IsUnsequenced(list[i])
      BY <2>1 DEF Waiting, IsUnsequenced, Unreliables
    <2>3. Fitted(list[i], c, u, r)
      BY <1>2, <1>4, <2>1, <2>2, FittingAt
    <2>4. i = k \/ \E j \in DOMAIN commands :
                 list[i] = commands[j] /\ ((i = j /\ i < k) \/ (i = j + 1 /\ i > k))
      BY <1>5, <2>1
    <2>5. ASSUME NEW j \in DOMAIN commands
          PROVE  /\ c <= packets[commands[j].packet].reliable
                 /\ packets[commands[j].packet].reliable = c =>
                       commands[j].fragmentsRemaining > 0
      <3>1. Awaited(commands[j])
        BY CommandsWait
      <3> QED
        BY <3>1 DEF Awaited, Awaits
    <2>6. c <= packets[list[i].packet].reliable
      BY <1>4, <1>5, <2>4, <2>5
    <2>7. packets[list[i].packet].reliable = c /\ Current(list[i], r)
          /\ list[i].fragmentsRemaining \in Nat
      BY <1>2, <2>1, <2>3, <2>6 DEF Fitted
    <2>8. list[i].fragmentsRemaining # 0
      <3>1. CASE i = k
        BY <1>5, <3>1
      <3>2. CASE i # k
        <4> PICK j \in DOMAIN commands : list[i] = commands[j]
          BY <2>4, <3>2
        <4> QED
          BY <2>5, <2>7
      <3> QED
        BY <3>1, <3>2
    <2>9. i # k => \E j \in Incomplete : list[i] = commands[j]
                      /\ ((i = j /\ i < k) \/ (i = j + 1 /\ i > k))
      <3> HAVE i # k
      <3> PICK j \in DOMAIN commands :
             list[i] = commands[j] /\ ((i = j /\ i < k) \/ (i = j + 1 /\ i > k))
        BY <2>4
      <3>1. j \in Incomplete
        BY <2>5, <2>7 DEF Incomplete
      <3> QED
        BY <3>1
    <2> QED
      BY <2>1, <2>7, <2>8, <2>9 DEF Lacks
  <1>10. end <= 3
    <2> SUFFICES ASSUME ~(end <= 3)
                 PROVE  FALSE
      OBVIOUS
    <2>1. 1 \in 1 .. end - 1 /\ 2 \in 1 .. end - 1 /\ 3 \in 1 .. end - 1
      BY <1>6, <1>8
    <2>2. \E a, b \in 1 .. end - 1 : a # k /\ b # k /\ a < b
      <3>1. CASE k = 1
        BY <2>1, <3>1
      <3>2. CASE k = 2
        BY <2>1, <3>2
      <3>3. CASE k # 1 /\ k # 2
        BY <2>1, <3>3
      <3> QED
        BY <3>1, <3>2, <3>3
    <2> PICK a \in 1 .. end - 1, b \in 1 .. end - 1 : a # k /\ b # k /\ a < b
      BY <2>2
    <2> PICK i \in Incomplete : (a = i /\ a < k) \/ (a = i + 1 /\ a > k)
      BY <1>9
    <2> PICK j \in Incomplete : (b = j /\ b < k) \/ (b = j + 1 /\ b > k)
      BY <1>9
    <2>3. i \in Nat /\ j \in Nat
      BY <1>5 DEF Incomplete
    <2>4. i # j
      BY <1>5, <2>3
    <2> QED
      BY <1>2, <2>4, TwoIncomplete
  <1>11. from = 1
    BY <1>8, <1>9, <1>10
  <1>12. k \notin M
    <2> SUFFICES ASSUME k \in M
                 PROVE  FALSE
      OBVIOUS
    <2>1. k \in 1 .. end - 1 /\ Passes(list[k], r)
      BY <1>8
    <2>2. Lacks(list[k], r)
      BY <1>9, <2>1
    <2> QED
      BY <2>1, <2>2 DEF Lacks, Passes, Current, Complete
  <1> PICK L : L = Left(list, from, M)
    OBVIOUS
  <1>13. k \in L
    BY <1>5, <1>6, <1>11, <1>12 DEF Left
  <1> PICK left : left = res.left
    OBVIOUS
  <1>14. \E i \in DOMAIN left : left[i] = list[k]
    <2>1. left = Picked(list, L)
      OBVIOUS
    <2> QED
      BY <1>5, <1>6, <1>13, <2>1, PickedEntries
  <1>15. left = QueuedFor(p).left
    BY DEF QueuedFor, FragmentList
  <1> QED
    BY <1>5, <1>14, <1>15 DEF IsKept

\* enet_protocol_handle_send_unreliable_fragment copies into an entry that is still
\* in the list, as long as fewer than two other packets are incomplete.
THEOREM FragmentsUsable ==
    ASSUME NEW m \in Nat, Fits(m)
    PROVE  Spec => []FragmentUsable
  <1>1. Steady(m) => FragmentUsable
    <2> SUFFICES ASSUME Steady(m), Cardinality(Incomplete) < 2,
                        NEW p \in DOMAIN packets,
                        Arrives(p, "SEND_UNRELIABLE_FRAGMENT"),
                        ~Late(Number(packets[p].reliable), packets[p].unreliable),
                        ~IsQueued(Number(packets[p].reliable), packets[p].unreliable)
                 PROVE  IsKept(p)
      BY DEF FragmentUsable, Incomplete
    <2> QED
      BY FirstKept
  <1> QED
    BY <1>1, SteadyAlways, PTL
=============================================================================
