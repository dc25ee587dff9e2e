------------------------ MODULE EnetRetransmitProofs ------------------------
(***************************************************************************)
(* Retransmission for any sizes of the clock, the header's range and the   *)
(* windows, any time-outs, and any number of packets: round trips, the     *)
(* counts kept by hand, the patience with a silent peer, and that the      *)
(* queue never waits for nothing.                                          *)
(***************************************************************************)
EXTENDS EnetRetransmit, FiniteSetTheorems, SequenceTheorems,
        WellFoundedInduction, TLAPS

-----------------------------------------------------------------------------
(***************************************************************************)
(* Arithmetic.                                                             *)
(***************************************************************************)

\* What the constants are known to be.
LEMMA Constants ==
    /\ Clock \in Nat /\ Half \in Nat /\ Half >= 1 /\ Clock >= 2 * Half
    /\ Overflow \in Nat /\ Overflow >= Half /\ Overflow <= Clock - Half
    /\ TimeoutMinimum \in Nat /\ TimeoutMaximum \in Nat /\ TimeoutLimit \in Nat
    /\ TimeoutMinimum <= TimeoutMaximum /\ TimeoutMinimum <= Overflow
    /\ Share \in Nat \ {0} /\ DefaultRoundTripTime \in Nat
    /\ WindowSize \in Nat /\ Mtu \in Nat /\ Mtu >= 1
    /\ ThrottleScale \in Nat \ {0} /\ ThrottleCounter \in Nat
    /\ ThrottleStep \in Nat
    /\ Start \in Nat /\ Start >= 1 /\ End \in Nat /\ Start <= End
    /\ MaxPackets \in Nat /\ MaxPings \in Nat /\ MaxIdle \in Nat
  <1>1. Overflow \in Int /\ Half <= Overflow /\ Overflow <= Clock - Half
    BY ClockAssumption
  <1> QED
    BY <1>1, ClockAssumption, TimeoutAssumption, WindowAssumption, BoundsAssumption

\* A set of natural numbers has a least one.
LEMMA Least ==
    ASSUME NEW T \in SUBSET Nat, T # {}
    PROVE  \E x \in T : \A y \in T : x <= y
  <1> DEFINE R == {ss \in Nat \X Nat : ss[1] < ss[2]}
  <1>1. IsWellFoundedOn(R, Nat)
    BY NatLessThanWellFounded DEF OpToRel
  <1>2. \A x, y \in Nat : ~(<<y, x>> \in R) => x <= y
    OBVIOUS
  <1> HIDE DEF R
  <1>3. T \subseteq Nat
    OBVIOUS
  <1>4. \E x \in T : \A y \in T : ~(<<y, x>> \in R)
    BY <1>1, <1>3, WFMin
  <1>5. PICK x \in T : \A y \in T : ~(<<y, x>> \in R)
    BY <1>4
  <1>6. \A y \in T : x <= y
    BY <1>2, <1>3, <1>5, Zenon
  <1> QED
    BY <1>6

\* What is one greater, up to n, is reached from 0.
LEMMA Stepwise ==
    ASSUME NEW n \in Nat, NEW T, 0 \in T,
           \A i \in 1 .. n : i - 1 \in T => i \in T
    PROVE  \A i \in 0 .. n : i \in T
  <1> DEFINE U == {i \in 0 .. n : i \notin T}
  <1>1. SUFFICES ASSUME U # {} PROVE FALSE
    OBVIOUS
  <1>a. U \in SUBSET Nat
    OBVIOUS
  <1>b. \E x \in U : \A y \in U : x <= y
    BY ONLY <1>1, <1>a, Least
  <1>2. PICK x \in U : \A y \in U : x <= y
    BY <1>b
  <1>3. x # 0 /\ x \in 1 .. n
    BY <1>2
  <1>4. x - 1 \in T
    BY <1>2, <1>3
  <1> QED
    BY <1>2, <1>3, <1>4

\* Quotient and remainder.
LEMMA DivMod ==
    ASSUME NEW a \in Int, NEW b \in Nat \ {0}
    PROVE  /\ a \div b \in Int /\ a % b \in 0 .. b - 1
           /\ a = b * (a \div b) + (a % b)
  OBVIOUS

\* Where the remainder is.
LEMMA ModRange ==
    ASSUME NEW a \in Int, NEW b \in Nat \ {0}
    PROVE  a % b \in 0 .. b - 1
  BY DivMod

\* There is only one remainder.
LEMMA ModUnique ==
    ASSUME NEW b \in Nat \ {0}, NEW q \in Int, NEW r \in 0 .. b - 1
    PROVE  (b * q + r) % b = r
  <1> DEFINE a == b * q + r
  <1>1. a \in Int
    OBVIOUS
  <1>2. ASSUME NEW q1 \in Int, NEW q2 \in Int, NEW r1 \in 0 .. b - 1,
               NEW r2 \in 0 .. b - 1, b * q1 + r1 = b * q2 + r2
        PROVE  q1 <= q2
    <2>1. SUFFICES ASSUME q1 > q2 PROVE FALSE
      OBVIOUS
    <2> DEFINE d == q1 - q2
    <2>2. d \in Nat /\ q1 = q2 + d /\ d >= 1
      BY <2>1
    <2> HIDE DEF d
    <2>3. b * q1 = b * q2 + b * d
      BY <2>2
    <2>4. b * d >= b
      BY <2>2
    <2>5. b * q2 \in Int /\ b * d \in Int /\ r1 >= 0 /\ r2 <= b - 1
      BY <2>2
    <2> QED
      BY <1>2, <2>3, <2>4, <2>5
  <1>3. /\ a \div b \in Int /\ a % b \in 0 .. b - 1
        /\ a = b * (a \div b) + (a % b)
    BY <1>1, DivMod
  <1> DEFINE q3 == a \div b
             r3 == a % b
  <1>4. b * q + r = b * q3 + r3 /\ q3 \in Int /\ r3 \in 0 .. b - 1
    BY <1>3
  <1> HIDE DEF a, q3, r3
  <1>5. q <= q3 /\ q3 <= q
    BY <1>2, <1>4
  <1>6. q3 = q
    BY <1>4, <1>5
  <1>7. r3 = r
    BY <1>4, <1>6
  <1> QED
    BY <1>7 DEF a, r3

\* The remainder of what is less than one round away from 0.
LEMMA ModNear ==
    ASSUME NEW b \in Nat \ {0}, NEW x \in Int, x < b, x >= - b
    PROVE  x % b = IF x >= 0 THEN x ELSE x + b
  <1>1. CASE x >= 0
    <2>1. (b * 0 + x) % b = x
      BY <1>1, ModUnique
    <2> QED
      BY <1>1, <2>1
  <1>2. CASE x < 0
    <2>1. (b * (-1) + (x + b)) % b = x + b
      BY <1>2, ModUnique
    <2>2. b * (-1) + (x + b) = x
      OBVIOUS
    <2> QED
      BY <1>2, <2>1, <2>2
  <1> QED
    BY <1>1, <1>2

\* A remainder does not change by whole rounds.
LEMMA ModShift ==
    ASSUME NEW b \in Nat \ {0}, NEW a \in Int, NEW q \in Int
    PROVE  (a + b * q) % b = a % b
  <1>1. /\ a \div b \in Int /\ a % b \in 0 .. b - 1
        /\ a = b * (a \div b) + (a % b)
    BY DivMod
  <1> DEFINE k == (a \div b) + q
             r == a % b
  <1>a. k \in Int /\ r \in 0 .. b - 1
    BY <1>1
  <1> HIDE DEF k, r
  <1>b. (b * k + r) % b = r
    BY <1>a, ModUnique
  <1>2. (b * ((a \div b) + q) + (a % b)) % b = a % b
    BY <1>b DEF k, r
  <1>3. b * ((a \div b) + q) = b * (a \div b) + b * q
    BY <1>1
  <1>4. b * q \in Int /\ b * (a \div b) \in Int
    BY <1>1
  <1>5. b * ((a \div b) + q) + (a % b) = a + b * q
    BY <1>1, <1>3, <1>4
  <1> QED
    BY <1>2, <1>5

\* A difference of two remainders is the difference, up to rounds.
LEMMA ModMinus ==
    ASSUME NEW b \in Nat \ {0}, NEW x \in Int, NEW y \in Int
    PROVE  ((x % b) - (y % b)) % b = (x - y) % b
  <1>1. /\ x \div b \in Int /\ x % b \in Int /\ x = b * (x \div b) + (x % b)
        /\ y \div b \in Int /\ y % b \in Int /\ y = b * (y \div b) + (y % b)
    BY DivMod
  <1> DEFINE d == (x % b) - (y % b)
             k == (x \div b) - (y \div b)
  <1>a. d \in Int /\ k \in Int
    BY <1>1
  <1> HIDE DEF d, k
  <1>b. (d + b * k) % b = d % b
    BY <1>a, ModShift
  <1>2. (((x % b) - (y % b)) + b * ((x \div b) - (y \div b))) % b
        = ((x % b) - (y % b)) % b
    BY <1>b DEF d, k
  <1>3. b * ((x \div b) - (y \div b)) = b * (x \div b) - b * (y \div b)
    BY <1>1
  <1>4. b * (x \div b) \in Int /\ b * (y \div b) \in Int
    BY <1>1
  <1>5. ((x % b) - (y % b)) + b * ((x \div b) - (y \div b)) = x - y
    BY <1>1, <1>3, <1>4
  <1> QED
    BY <1>2, <1>5

\* A remainder is not greater than what it is of.
LEMMA ModAtMost ==
    ASSUME NEW b \in Nat \ {0}, NEW a \in Nat
    PROVE  a % b <= a /\ a \div b \in Nat /\ a \div b <= a
  <1>1. /\ a \div b \in Int /\ a % b \in 0 .. b - 1
        /\ a = b * (a \div b) + (a % b)
    BY DivMod
  <1>2. a \div b >= 0
    <2>1. SUFFICES ASSUME a \div b <= -1 PROVE FALSE
      BY <1>1
    <2>2. b * (a \div b) <= - b
      BY <1>1, <2>1
    <2> QED
      BY <1>1, <2>2
  <1>3. b * (a \div b) >= a \div b
    BY <1>1, <1>2
  <1> QED
    BY <1>1, <1>2, <1>3

-----------------------------------------------------------------------------
(***************************************************************************)
(* The clock.                                                              *)
(***************************************************************************)

\* The wrapped difference of two wrapped times, the first one later by less
\* than the code takes for negative.
LEMMA DifferenceIs ==
    ASSUME NEW a \in Int, NEW b \in Int
    PROVE  /\ Minus(a, b) < Overflow =>
                 ~ Less(a, b) /\ Difference(a, b) = Minus(a, b)
           /\ Minus(a, b) >= Overflow => Less(a, b)
           /\ Minus(a, b) \in 0 .. Clock - 1
  <1>1. a - b \in Int /\ Clock \in Nat \ {0}
    BY Constants
  <1>2. Minus(a, b) \in 0 .. Clock - 1
    BY <1>1, DivMod DEF Minus
  <1> QED
    BY <1>2, Constants DEF Less, Difference

\* However the clock wraps between t and u: if the code sees at least d between
\* them, d has gone by.
LEMMA DifferenceAtMost ==
    ASSUME NEW t \in Nat, NEW u \in Nat, t <= u,
           NEW d \in Nat, d <= Overflow,
           Difference(u % Clock, t % Clock) >= d
    PROVE  u - t >= d
  <1> DEFINE a == u % Clock
             b == t % Clock
             x == u - t
  <1>1. Clock \in Nat \ {0} /\ Overflow \in Nat
    BY Constants
  <1>2. a \in Int /\ b \in Int /\ x \in Nat
    BY <1>1, DivMod
  <1>3. Minus(a, b) = x % Clock
    <2>1. u \in Int /\ t \in Int
      OBVIOUS
    <2>2. ((u % Clock) - (t % Clock)) % Clock = (u - t) % Clock
      BY ONLY <1>1, <2>1, ModMinus
    <2> QED
      BY <2>2 DEF Minus
  <1>a. Difference(a, b) >= d
    OBVIOUS
  <1> HIDE DEF a, b, x
  <1>4. x % Clock <= x
    BY <1>1, <1>2, ModAtMost
  <1>5. Minus(a, b) \in 0 .. Clock - 1
    BY <1>2, DifferenceIs
  <1>6. x >= d
    <2>1. CASE Minus(a, b) < Overflow
      <3>1. Difference(a, b) = Minus(a, b)
        BY <1>2, <2>1, DifferenceIs
      <3> QED
        BY <1>a, <1>2, <1>3, <1>4, <1>5, <3>1
    <2>2. CASE Minus(a, b) >= Overflow
      BY <1>1, <1>2, <1>3, <1>4, <1>5, <2>2
    <2> QED
      BY <1>1, <1>5, <2>1, <2>2
  <1> QED
    BY <1>6 DEF x

\* The header's range is a divisor of the clock's.
LEMMA LowerHalf ==
    ASSUME NEW t \in Nat
    PROVE  (t % Clock) % Half = t % Half
  <1>1. Clock \in Nat \ {0} /\ Half \in Nat \ {0} /\ Clock % Half = 0
    BY ClockAssumption
  <1>2. /\ Clock \div Half \in Int /\ Clock = Half * (Clock \div Half) + 0
        /\ t \div Clock \in Int /\ t % Clock \in Int
        /\ t = Clock * (t \div Clock) + (t % Clock)
    BY <1>1, DivMod
  <1> DEFINE k == Clock \div Half
             q == t \div Clock
             r == t % Clock
  <1>3. k \in Int /\ q \in Int /\ r \in Int /\ Clock = Half * k /\ t = Clock * q + r
    BY <1>1, <1>2
  <1>7. Clock \in Int /\ Half \in Int
    BY <1>1
  <1> HIDE DEF k, q, r
  <1>4. k * q \in Int /\ Half * (k * q) = Clock * q
    BY <1>3, <1>7
  <1>5. (r + Half * (k * q)) % Half = r % Half
    BY <1>1, <1>3, <1>4, ModShift
  <1>6. r + Half * (k * q) = t
    BY <1>1, <1>3, <1>4
  <1> QED
    BY <1>5, <1>6 DEF r

\* The lower halves of two times, and that of what is between them.
LEMMA LowerHalves ==
    ASSUME NEW s \in Nat, NEW t \in Nat, s <= t
    PROVE  LET r == (t - s) % Half
           IN  s % Half = IF r <= t % Half THEN (t % Half) - r
                          ELSE (t % Half) - r + Half
  <1> DEFINE x == t - s
             r == x % Half
             h == t % Half
  <1>1. Half \in Nat \ {0}
    BY Constants
  <1>2. x \in Nat /\ t - x = s
    OBVIOUS
  <1>3. (h - r) % Half = s % Half
    <2>1. x \in Int /\ t \in Int
      OBVIOUS
    <2> HIDE DEF x
    <2>2. ((t % Half) - (x % Half)) % Half = (t - x) % Half
      BY ONLY <1>1, <2>1, ModMinus
    <2> QED
      BY <1>2, <2>2
  <1>4. r \in 0 .. Half - 1 /\ h \in 0 .. Half - 1
    BY <1>1, <1>2, DivMod
  <1> HIDE DEF r, h
  <1>5. (h - r) % Half = IF h - r >= 0 THEN h - r ELSE h - r + Half
    <2> DEFINE z == h - r
    <2>1. z \in Int /\ z < Half /\ z >= - Half
      BY <1>1, <1>4
    <2> HIDE DEF z
    <2>2. z % Half = IF z >= 0 THEN z ELSE z + Half
      BY <1>1, <2>1, ModNear
    <2> QED
      BY <2>2 DEF z
  <1>6. s % Half = IF r <= h THEN h - r ELSE h - r + Half
    BY <1>1, <1>3, <1>4, <1>5
  <1> QED
    BY <1>6 DEF r, h, x

\* A round trip is measured as the time between, up to rounds of the header's
\* range; or the acknowledgement seems to come from the future, and then it is
\* old.
LEMMA Measurement ==
    ASSUME NEW f, now \in Nat, f.sent \in Nat, f.sent <= now
    PROVE  LET r == (now - f.sent) % Half
           IN  \/ Counts(f) /\ RoundTrip(f) = r
               \/ ~ Counts(f) /\ 2 * r >= Half
  <1> DEFINE r == (now - f.sent) % Half
             l == f.sent % Half
             t == now % Clock
             h == t % Half
             g == t - h + l
             m == SentTime(l)
  <1>1. /\ Half \in Nat \ {0} /\ Clock \in Nat \ {0} /\ Clock >= 2 * Half
        /\ Overflow \in Nat /\ Overflow >= Half /\ Overflow <= Clock - Half
    BY Constants
  <1>2. t \in 0 .. Clock - 1
    BY <1>1, DivMod
  <1>3. h = now % Half
    BY LowerHalf
  <1>4. r \in 0 .. Half - 1 /\ l \in 0 .. Half - 1 /\ h \in 0 .. Half - 1
    <2> DEFINE z == now - f.sent
    <2>1. z \in Int /\ f.sent \in Int /\ t \in Int
      BY <1>1, <1>2
    <2> HIDE DEF z, t
    <2>2. z % Half \in 0 .. Half - 1
      BY <1>1, <2>1, ModRange
    <2>3. l \in 0 .. Half - 1 /\ h \in 0 .. Half - 1
      BY <1>1, <2>1, ModRange
    <2> QED
      BY <2>2, <2>3 DEF z
  <1>5. l = IF r <= h THEN h - r ELSE h - r + Half
    BY <1>3, LowerHalves
  <1>6. Half \div 2 \in Nat /\ Half = 2 * (Half \div 2)
    BY <1>1, ClockAssumption
  <1> DEFINE wraps == l >= Half \div 2 /\ h < Half \div 2
  <1>7. m = IF wraps THEN Minus(g, Half) ELSE g
    BY DEF SentTime, serviceTime
  <1>8. Counts(f) <=> ~ Less(t, m)
    BY DEF Counts, serviceTime
  <1>9. RoundTrip(f) = Difference(t, m)
    BY DEF RoundTrip, serviceTime
  <1> HIDE DEF r, l, t, h, m
  <1>10. g \in Int
    BY <1>2, <1>4
  <1>11. CASE wraps
    <2>1. l = h - r + Half
      BY <1>1, <1>4, <1>5, <1>6, <1>11
    <2>2. g - Half = t - r
      BY <1>1, <1>2, <1>4, <2>1
    <2>3. m = (t - r) % Clock
      BY <1>7, <1>11, <2>2 DEF Minus
    <2>4. t % Clock = t
      BY <1>1, <1>2, ModNear
    <2>5. t - (t - r) = r /\ t - r \in Int
      BY <1>2, <1>4
    <2> DEFINE z == t - r
    <2>b. z \in Int /\ t \in Int
      BY <1>2, <2>5
    <2> HIDE DEF z
    <2>c. ((t % Clock) - (z % Clock)) % Clock = (t - z) % Clock
      BY <1>1, <2>b, ModMinus
    <2>6. ((t % Clock) - ((t - r) % Clock)) % Clock = (t - (t - r)) % Clock
      BY <2>c DEF z
    <2>7. r % Clock = r
      BY <1>1, <1>4, ModNear
    <2>8. Minus(t, m) = r
      BY <2>3, <2>4, <2>5, <2>6, <2>7 DEF Minus
    <2>9. m \in Int
      BY <1>1, <2>3, <2>5, DivMod
    <2>a. t \in Int /\ r < Overflow
      BY <1>1, <1>2, <1>4
    <2>10. ~ Less(t, m) /\ Difference(t, m) = r
      BY ONLY <2>a, <2>8, <2>9, DifferenceIs
    <2> QED
      BY <1>8, <1>9, <2>10 DEF r
  <1>12. CASE ~ wraps
    <2>1. m = g /\ t - m = h - l /\ m \in Int
      BY <1>2, <1>4, <1>7, <1>10, <1>12
    <2> DEFINE z == h - l
    <2>a. z \in Int /\ z < Clock /\ z >= - Clock
      BY <1>1, <1>4
    <2> HIDE DEF z
    <2>b. z % Clock = IF z >= 0 THEN z ELSE z + Clock
      BY <1>1, <2>a, ModNear
    <2>2. (h - l) % Clock = IF h - l >= 0 THEN h - l ELSE h - l + Clock
      BY <2>b DEF z
    <2>3. Minus(t, m) = IF h - l >= 0 THEN h - l ELSE h - l + Clock
      BY <2>1, <2>2 DEF Minus
    <2>4. CASE r <= h
      <3>1. Minus(t, m) = r
        BY <1>4, <1>5, <2>3, <2>4
      <3>a. t \in Int /\ m \in Int /\ r < Overflow
        BY <1>1, <1>2, <1>4, <2>1
      <3>2. ~ Less(t, m) /\ Difference(t, m) = r
        BY ONLY <3>a, <3>1, DifferenceIs
      <3> QED
        BY <1>8, <1>9, <3>2 DEF r
    <2>5. CASE r > h
      <3>1. l = h - r + Half
        BY <1>4, <1>5, <2>5
      <3>2. Minus(t, m) = h - l + Clock /\ h < l
        BY <1>1, <1>4, <2>3, <2>5, <3>1
      <3>3. Minus(t, m) >= Overflow
        BY <1>1, <1>4, <3>2
      <3>4. Less(t, m)
        BY <1>1, <1>2, <2>1, <3>3, DifferenceIs
      <3>5. 2 * r >= Half
        BY <1>1, <1>4, <1>6, <1>12, <3>1
      <3> QED
        BY <1>8, <3>4, <3>5 DEF r
    <2> QED
      BY <1>4, <2>4, <2>5
  <1> QED
    BY <1>11, <1>12

\* So a round trip is right whatever the true time.
LEMMA MeasuredRight ==
    ASSUME now \in Nat, \A f \in flights : f.sent \in Nat /\ f.sent <= now
    PROVE  RoundTripRight
  <1> SUFFICES ASSUME NEW f \in flights
               PROVE  IF now - f.sent < Half \div 2
                      THEN Counts(f) /\ RoundTrip(f) = now - f.sent
                      ELSE Counts(f) => RoundTrip(f) <= now - f.sent
    BY DEF RoundTripRight
  <1> DEFINE x == now - f.sent
             r == x % Half
  <1>1. Half \in Nat \ {0} /\ Half \div 2 \in Nat /\ Half = 2 * (Half \div 2)
    BY ClockAssumption
  <1>2. x \in Nat
    OBVIOUS
  <1>3. \/ Counts(f) /\ RoundTrip(f) = r
        \/ ~ Counts(f) /\ 2 * r >= Half
    BY Measurement
  <1> HIDE DEF x
  <1>4. r \in 0 .. Half - 1 /\ r <= x
    <2>1. r \in 0 .. Half - 1
      BY <1>1, <1>2, ModRange
    <2>2. r <= x
      BY <1>1, <1>2, ModAtMost
    <2> QED
      BY <2>1, <2>2
  <1>5. x < Half \div 2 => r = x
    BY <1>1, <1>2, ModNear
  <1> HIDE DEF r
  <1>6. IF x < Half \div 2
        THEN Counts(f) /\ RoundTrip(f) = x
        ELSE Counts(f) => RoundTrip(f) <= x
    BY <1>1, <1>2, <1>3, <1>4, <1>5
  <1> QED
    BY <1>6 DEF x

-----------------------------------------------------------------------------
(***************************************************************************)
(* Lists that the code goes through, one command after the other.          *)
(***************************************************************************)

\* A loop of n steps, each of which makes a value of V of the one before.
Steps(n, V) == [1 .. n -> [V -> V]]

\* f has the values between the steps.
Runs(f, n, V, v0, g) ==
    /\ f \in [0 .. n -> V]
    /\ f[0] = v0
    /\ \A i \in 1 .. n : f[i] = g[i][f[i - 1]]

\* What a loop computes is there.
LEMMA Loop ==
    ASSUME NEW n \in Nat, NEW V, NEW v0 \in V, NEW g \in Steps(n, V)
    PROVE  \E f : Runs(f, n, V, v0, g)
  <1> DEFINE T == {m \in 0 .. n : \E f : Runs(f, m, V, v0, g)}
  <1>1. 0 \in T
    <2> DEFINE h == [i \in 0 .. 0 |-> v0]
    <2>1. h \in [0 .. 0 -> V] /\ h[0] = v0
      OBVIOUS
    <2> HIDE DEF h
    <2>2. Runs(h, 0, V, v0, g)
      BY <2>1 DEF Runs
    <2> QED
      BY <2>2
  <1>2. ASSUME NEW m \in 1 .. n, m - 1 \in T PROVE m \in T
    <2>0. PICK f : Runs(f, m - 1, V, v0, g)
      BY <1>2
    <2>1. /\ f \in [0 .. m - 1 -> V]
          /\ f[0] = v0
          /\ \A i \in 1 .. m - 1 : f[i] = g[i][f[i - 1]]
      BY <2>0 DEF Runs
    <2>d. g \in [1 .. n -> [V -> V]]
      BY DEF Steps
    <2> DEFINE h == [i \in 0 .. m |-> IF i < m THEN f[i] ELSE g[m][f[m - 1]]]
    <2>a. m - 1 \in 0 .. m - 1 /\ m \in Nat
      OBVIOUS
    <2>2. f[m - 1] \in V /\ g[m] \in [V -> V]
      BY <2>1, <2>a, <2>d
    <2>b. \A i \in 0 .. m : i < m => f[i] \in V
      BY <2>1
    <2>c. g[m][f[m - 1]] \in V
      BY <2>2
    <2>3. h \in [0 .. m -> V]
      BY <2>b, <2>c
    <2>4. h[0] = v0
      BY <2>1
    <2>5. ASSUME NEW i \in 1 .. m PROVE h[i] = g[i][h[i - 1]]
      <3>1. i - 1 \in 0 .. m /\ i - 1 < m /\ i \in 0 .. m
        OBVIOUS
      <3>2. h[i - 1] = f[i - 1]
        BY <3>1
      <3>3. CASE i < m
        BY <2>1, <3>1, <3>2, <3>3
      <3>4. CASE i = m
        BY <3>1, <3>2, <3>4
      <3> QED
        BY <3>3, <3>4
    <2> HIDE DEF h
    <2>6. Runs(h, m, V, v0, g)
      BY <2>3, <2>4, <2>5 DEF Runs
    <2> QED
      BY <2>6
  <1> HIDE DEF T
  <1>3. \A m \in 0 .. n : m \in T
    BY <1>1, <1>2, Stepwise
  <1>4. n \in T
    BY <1>3
  <1> QED
    BY <1>4 DEF T

\* What a command is.
LEMMA OutgoingFields ==
    ASSUME NEW c \in Outgoing
    PROVE  /\ c.packet \in 0 .. MaxPackets /\ c.packet \in Nat
           /\ c.number \in 0 .. 2 * MaxPackets + MaxPings /\ c.number \in Nat
           /\ c.offset \in 0 .. 1 /\ c.length \in 0 .. Mtu /\ c.length \in Nat
           /\ c.sentTime \in Ticks /\ c.timeout \in Nat /\ c.limit \in Nat
           /\ c.first \in {0} \cup Times /\ c.first \in Nat
  BY Constants DEF Outgoing, Times

\* Length goes through the list.
LEMMA LengthLoop ==
    ASSUME NEW s \in Seq(Outgoing)
    PROVE  \E f \in [0 .. Len(s) -> Nat] :
              /\ f[0] = 0
              /\ \A i \in 1 .. Len(s) : f[i] = f[i - 1] + s[i].length
              /\ Length(s) = f[Len(s)]
  <1> DEFINE n == Len(s)
             V == Nat
             v0 == 0
             Step(i, v) == v + s[i].length
             P(f) == f = [i \in 0 .. n |-> IF i = 0 THEN v0 ELSE Step(i, f[i - 1])]
             g == [i \in 1 .. n |-> [v \in V |-> Step(i, v)]]
  <1>1. n \in Nat /\ v0 \in V /\ \A i \in 1 .. n : \A v \in V : Step(i, v) \in V
    BY OutgoingFields
  <1>2. Length(s) = (CHOOSE f : P(f))[n]
    BY DEF Length
  <1> HIDE DEF n, V, v0, Step
  <1>3. \A i \in 1 .. n : \A v \in V : g[i][v] = Step(i, v)
    OBVIOUS
  <1>4. g \in [1 .. n -> [V -> V]]
    BY <1>1
  <1> HIDE DEF g
  <1>a. n \in Nat /\ v0 \in V
    BY <1>1
  <1>b. g \in Steps(n, V)
    BY <1>4 DEF Steps
  <1>c. \E f : Runs(f, n, V, v0, g)
    BY ONLY <1>a, <1>b, Loop
  <1>5. PICK f \in [0 .. n -> V] :
           f[0] = v0 /\ \A i \in 1 .. n : f[i] = g[i][f[i - 1]]
    BY <1>c DEF Runs
  <1>6. \A i \in 1 .. n : f[i - 1] \in V /\ f[i] = Step(i, f[i - 1])
    BY <1>1, <1>3, <1>5
  <1>7. P(f)
    <2>1. f = [i \in 0 .. n |-> f[i]]
      BY <1>5
    <2>2. \A i \in 0 .. n : f[i] = IF i = 0 THEN v0 ELSE Step(i, f[i - 1])
      BY <1>1, <1>5, <1>6
    <2> QED
      BY <2>1, <2>2
  <1>8. PICK h : h = (CHOOSE ff : P(ff))
    OBVIOUS
  <1>9. P(h)
    BY <1>7, <1>8
  <1>10. h[0] = v0 /\ \A i \in 1 .. n : h[i] = Step(i, h[i - 1])
    BY <1>1, <1>9
  <1>11. \A i \in 0 .. n : h[i] \in V
    <2> DEFINE T == {i \in 0 .. n : h[i] \in V}
    <2>1. 0 \in T
      BY <1>1, <1>10
    <2>2. ASSUME NEW i \in 1 .. n, i - 1 \in T PROVE i \in T
      BY <1>1, <1>10, <2>2
    <2> HIDE DEF T
    <2>3. \A i \in 0 .. n : i \in T
      BY ONLY <1>1, <2>1, <2>2, Stepwise
    <2> QED
      BY <2>3 DEF T
  <1>12. h = [i \in 0 .. n |-> h[i]]
    BY <1>9
  <1>13. h \in [0 .. n -> V] /\ Length(s) = h[n]
    BY <1>2, <1>8, <1>11, <1>12
  <1> QED
    BY <1>10, <1>13 DEF n, V, v0, Step

\* A longer list takes more.
LEMMA LengthSteps ==
    /\ Length(<<>>) = 0
    /\ \A s \in Seq(Outgoing) : Length(s) \in Nat
    /\ \A s \in Seq(Outgoing), c \in Outgoing :
          Length(Append(s, c)) = Length(s) + c.length
  <1>1. Length(<<>>) = 0
    <2>1. <<>> \in Seq(Outgoing) /\ Len(<<>>) = 0
      OBVIOUS
    <2> QED
      BY <2>1, LengthLoop
  <1>2. ASSUME NEW s \in Seq(Outgoing) PROVE Length(s) \in Nat
    BY LengthLoop
  <1>3. ASSUME NEW s \in Seq(Outgoing), NEW c \in Outgoing
        PROVE  Length(Append(s, c)) = Length(s) + c.length
    <2> DEFINE t == Append(s, c)
               n == Len(s)
    <2>1. /\ t \in Seq(Outgoing) /\ Len(t) = n + 1 /\ n \in Nat /\ t[n + 1] = c
          /\ \A i \in 1 .. n : t[i] = s[i]
      OBVIOUS
    <2>2. PICK f \in [0 .. n -> Nat] :
             /\ f[0] = 0
             /\ \A i \in 1 .. n : f[i] = f[i - 1] + s[i].length
             /\ Length(s) = f[n]
      BY LengthLoop
    <2> HIDE DEF t
    <2>3. PICK h \in [0 .. n + 1 -> Nat] :
             /\ h[0] = 0
             /\ \A i \in 1 .. n + 1 : h[i] = h[i - 1] + t[i].length
             /\ Length(t) = h[n + 1]
      BY <2>1, LengthLoop
    <2> HIDE DEF n
    <2> DEFINE T == {i \in 0 .. n : f[i] = h[i]}
    <2>4. 0 \in T
      BY <2>1, <2>2, <2>3
    <2>a. ASSUME NEW i \in 1 .. n, i - 1 \in T PROVE i \in T
      <3>1. i \in 1 .. n + 1 /\ t[i] = s[i] /\ f[i - 1] = h[i - 1] /\ i \in 0 .. n
        BY <2>1, <2>a
      <3>2. f[i] = h[i]
        BY <2>2, <2>3, <3>1
      <3> QED
        BY <3>1, <3>2
    <2>b. n \in Nat
      BY <2>1
    <2> HIDE DEF T
    <2>5. n \in T
      <3>1. \A i \in 0 .. n : i \in T
        BY ONLY <2>4, <2>a, <2>b, Stepwise
      <3> QED
        BY <2>b, <3>1
    <2>6. f[n] = h[n]
      BY <2>5 DEF T
    <2>7. n + 1 \in 1 .. n + 1 /\ (n + 1) - 1 = n
      BY <2>1
    <2>8. h[n + 1] = h[n] + c.length
      BY <2>1, <2>3, <2>7
    <2> QED
      BY <2>2, <2>3, <2>6, <2>8 DEF t
  <1> QED
    BY <1>1, <1>2, <1>3

\* Those goes through the list.
LEMMA ThoseLoop ==
    ASSUME NEW s \in Seq(Outgoing), NEW A
    PROVE  \E f \in [0 .. Len(s) -> Seq(Outgoing)] :
              /\ f[0] = <<>>
              /\ \A i \in 1 .. Len(s) : f[i] = 
                    IF s[i] \in A THEN Append(f[i - 1], s[i]) ELSE f[i - 1]
              /\ Those(s, A) = f[Len(s)]
  <1> DEFINE n == Len(s)
             V == Seq(Outgoing)
             v0 == <<>>
             Step(i, v) == IF s[i] \in A THEN Append(v, s[i]) ELSE v
             P(f) == f = [i \in 0 .. n |-> IF i = 0 THEN v0 ELSE Step(i, f[i - 1])]
             g == [i \in 1 .. n |-> [v \in V |-> Step(i, v)]]
  <1>1. n \in Nat /\ v0 \in V /\ \A i \in 1 .. n : \A v \in V : Step(i, v) \in V
    OBVIOUS
  <1>2. Those(s, A) = (CHOOSE f : P(f))[n]
    BY DEF Those
  <1> HIDE DEF n, V, v0, Step
  <1>3. \A i \in 1 .. n : \A v \in V : g[i][v] = Step(i, v)
    OBVIOUS
  <1>4. g \in [1 .. n -> [V -> V]]
    BY <1>1
  <1> HIDE DEF g
  <1>a. n \in Nat /\ v0 \in V
    BY <1>1
  <1>b. g \in Steps(n, V)
    BY <1>4 DEF Steps
  <1>c. \E f : Runs(f, n, V, v0, g)
    BY ONLY <1>a, <1>b, Loop
  <1>5. PICK f \in [0 .. n -> V] :
           f[0] = v0 /\ \A i \in 1 .. n : f[i] = g[i][f[i - 1]]
    BY <1>c DEF Runs
  <1>6. \A i \in 1 .. n : f[i - 1] \in V /\ f[i] = Step(i, f[i - 1])
    BY <1>1, <1>3, <1>5
  <1>7. P(f)
    <2>1. f = [i \in 0 .. n |-> f[i]]
      BY <1>5
    <2>2. \A i \in 0 .. n : f[i] = IF i = 0 THEN v0 ELSE Step(i, f[i - 1])
      BY <1>1, <1>5, <1>6
    <2> QED
      BY <2>1, <2>2
  <1>8. PICK h : h = (CHOOSE ff : P(ff))
    OBVIOUS
  <1>9. P(h)
    BY <1>7, <1>8
  <1>10. h[0] = v0 /\ \A i \in 1 .. n : h[i] = Step(i, h[i - 1])
    BY <1>1, <1>9
  <1>11. \A i \in 0 .. n : h[i] \in V
    <2> DEFINE T == {i \in 0 .. n : h[i] \in V}
    <2>1. 0 \in T
      BY <1>1, <1>10
    <2>2. ASSUME NEW i \in 1 .. n, i - 1 \in T PROVE i \in T
      BY <1>1, <1>10, <2>2
    <2> HIDE DEF T
    <2>3. \A i \in 0 .. n : i \in T
      BY ONLY <1>1, <2>1, <2>2, Stepwise
    <2> QED
      BY <2>3 DEF T
  <1>12. h = [i \in 0 .. n |-> h[i]]
    BY <1>9
  <1>13. h \in [0 .. n -> V] /\ Those(s, A) = h[n]
    BY <1>2, <1>8, <1>11, <1>12
  <1> QED
    BY <1>10, <1>13 DEF n, V, v0, Step

\* A longer list has one more, or no more, of them.
LEMMA ThoseSteps ==
    ASSUME NEW A
    PROVE  /\ Those(<<>>, A) = <<>>
           /\ \A s \in Seq(Outgoing) : Those(s, A) \in Seq(Outgoing)
           /\ \A s \in Seq(Outgoing), c \in Outgoing :
                 Those(Append(s, c), A) =
                    IF c \in A THEN Append(Those(s, A), c) ELSE Those(s, A)
  <1>1. Those(<<>>, A) = <<>>
    <2>1. <<>> \in Seq(Outgoing) /\ Len(<<>>) = 0
      OBVIOUS
    <2> DEFINE e == <<>>
    <2>a. e \in Seq(Outgoing) /\ Len(e) = 0
      BY <2>1
    <2> HIDE DEF e
    <2>2. PICK f \in [0 .. Len(e) -> Seq(Outgoing)] :
             /\ f[0] = <<>>
             /\ \A i \in 1 .. Len(e) :
                   f[i] = IF e[i] \in A THEN Append(f[i - 1], e[i]) ELSE f[i - 1]
             /\ Those(e, A) = f[Len(e)]
      BY ONLY <2>a, ThoseLoop
    <2> QED
      BY <2>a, <2>2 DEF e
  <1>2. ASSUME NEW s \in Seq(Outgoing) PROVE Those(s, A) \in Seq(Outgoing)
    BY ThoseLoop
  <1>3. ASSUME NEW s \in Seq(Outgoing), NEW c \in Outgoing
        PROVE  Those(Append(s, c), A) =
                  IF c \in A THEN Append(Those(s, A), c) ELSE Those(s, A)
    <2> DEFINE t == Append(s, c)
               n == Len(s)
    <2>1. /\ t \in Seq(Outgoing) /\ Len(t) = n + 1 /\ n \in Nat /\ t[n + 1] = c
          /\ \A i \in 1 .. n : t[i] = s[i]
      OBVIOUS
    <2>2. PICK f \in [0 .. n -> Seq(Outgoing)] :
             /\ f[0] = <<>>
             /\ \A i \in 1 .. n :
                   f[i] = IF s[i] \in A THEN Append(f[i - 1], s[i]) ELSE f[i - 1]
             /\ Those(s, A) = f[n]
      BY ThoseLoop
    <2> HIDE DEF t
    <2>3. PICK h \in [0 .. n + 1 -> Seq(Outgoing)] :
             /\ h[0] = <<>>
             /\ \A i \in 1 .. n + 1 :
                   h[i] = IF t[i] \in A THEN Append(h[i - 1], t[i]) ELSE h[i - 1]
             /\ Those(t, A) = h[n + 1]
      BY <2>1, ThoseLoop
    <2> HIDE DEF n
    <2> DEFINE T == {i \in 0 .. n : f[i] = h[i]}
    <2>4. 0 \in T
      BY <2>1, <2>2, <2>3
    <2>a. ASSUME NEW i \in 1 .. n, i - 1 \in T PROVE i \in T
      <3>1. i \in 1 .. n + 1 /\ t[i] = s[i] /\ f[i - 1] = h[i - 1] /\ i \in 0 .. n
        BY <2>1, <2>a
      <3>2. f[i] = h[i]
        BY <2>2, <2>3, <3>1
      <3> QED
        BY <3>1, <3>2
    <2>b. n \in Nat
      BY <2>1
    <2> HIDE DEF T
    <2>5. n \in T
      <3>1. \A i \in 0 .. n : i \in T
        BY ONLY <2>4, <2>a, <2>b, Stepwise
      <3> QED
        BY <2>b, <3>1
    <2>6. f[n] = h[n]
      BY <2>5 DEF T
    <2>7. n + 1 \in 1 .. n + 1 /\ (n + 1) - 1 = n
      BY <2>1
    <2>8. h[n + 1] = IF c \in A THEN Append(h[n], c) ELSE h[n]
      BY <2>1, <2>3, <2>7
    <2> QED
      BY <2>2, <2>3, <2>6, <2>8 DEF t
  <1> QED
    BY <1>1, <1>2, <1>3

\* Every list is got by appending.
LEMMA Lists ==
    ASSUME NEW S, NEW P, <<>> \in P,
           \A s \in Seq(S), c \in S : s \in P => Append(s, c) \in P
    PROVE  \A s \in Seq(S) : s \in P
  <1> SUFFICES ASSUME NEW t \in Seq(S) PROVE t \in P
    OBVIOUS
  <1> DEFINE n == Len(t)
             T == {i \in 0 .. n : \A s \in Seq(S) : Len(s) = i => s \in P}
  <1>1. n \in Nat
    OBVIOUS
  <1>2. 0 \in T
    <2>1. \A s \in Seq(S) : Len(s) = 0 => s = <<>>
      OBVIOUS
    <2> QED
      BY <1>1, <2>1
  <1>3. ASSUME NEW i \in 1 .. n, i - 1 \in T PROVE i \in T
    <2>1. SUFFICES ASSUME NEW s \in Seq(S), Len(s) = i PROVE s \in P
      OBVIOUS
    <2> DEFINE u == SubSeq(s, 1, i - 1)
    <2>2. u \in Seq(S) /\ Len(u) = i - 1 /\ s[i] \in S
      BY <2>1
    <2>3. s = Append(u, s[i])
      BY <2>1
    <2>4. u \in P
      BY <1>3, <2>2
    <2> HIDE DEF u
    <2>5. Append(u, s[i]) \in P
      BY <2>2, <2>4
    <2> QED
      BY <2>3, <2>5
  <1> HIDE DEF T
  <1>4. \A i \in 0 .. n : i \in T
    BY ONLY <1>1, <1>2, <1>3, Stepwise
  <1>5. n \in T
    BY <1>1, <1>4
  <1> QED
    BY <1>5 DEF T

\* m adds up what each command of a list counts, w.
Measure(m, w) ==
    /\ m \in [Seq(Outgoing) -> Nat] /\ w \in [Outgoing -> Nat]
    /\ m[<<>>] = 0
    /\ \A s \in Seq(Outgoing), c \in Outgoing : m[Append(s, c)] = m[s] + w[c]

\* What one list after another counts.
LEMMA MeasureOfBoth ==
    ASSUME NEW m, NEW w, Measure(m, w),
           NEW s \in Seq(Outgoing), NEW t \in Seq(Outgoing)
    PROVE  m[s \o t] = m[s] + m[t]
  <1> DEFINE P == {u \in Seq(Outgoing) : m[s \o u] = m[s] + m[u]}
  <1>0. \A u \in Seq(Outgoing) : m[u] \in Nat
    BY DEF Measure
  <1>1. <<>> \in P
    <2>1. s \o <<>> = s /\ m[<<>>] = 0 /\ <<>> \in Seq(Outgoing)
      BY DEF Measure
    <2> QED
      BY <1>0, <2>1
  <1>2. ASSUME NEW u \in Seq(Outgoing), NEW c \in Outgoing, u \in P
        PROVE  Append(u, c) \in P
    <2>1. s \o Append(u, c) = Append(s \o u, c) /\ s \o u \in Seq(Outgoing)
      OBVIOUS
    <2> DEFINE v == s \o u
    <2>2. v \in Seq(Outgoing) /\ m[v] = m[s] + m[u]
      BY <1>2, <2>1
    <2> HIDE DEF v
    <2>3. m[Append(v, c)] = m[v] + w[c] /\ m[Append(u, c)] = m[u] + w[c]
      BY <2>2 DEF Measure
    <2>4. w[c] \in Nat /\ Append(u, c) \in Seq(Outgoing)
      BY DEF Measure
    <2>5. m[Append(v, c)] = m[s] + m[Append(u, c)]
      BY <1>0, <2>2, <2>3, <2>4
    <2> QED
      BY <2>1, <2>4, <2>5 DEF v
  <1> HIDE DEF P
  <1>3. \A u \in Seq(Outgoing) : u \in P
    BY <1>1, <1>2, Lists
  <1> QED
    BY <1>3 DEF P

\* A list counts what its parts count.
LEMMA MeasureOfParts ==
    ASSUME NEW m, NEW w, Measure(m, w), NEW S \in SUBSET Outgoing, NEW A, NEW B,
           \A c \in S : c \in A <=> c \notin B,
           NEW s \in Seq(S)
    PROVE  m[Those(s, A)] + m[Those(s, B)] = m[s]
  <1> DEFINE P == {u \in Seq(S) : m[Those(u, A)] + m[Those(u, B)] = m[u]}
  <1>0. \A u \in Seq(Outgoing) : m[u] \in Nat
    BY DEF Measure
  <1>1. <<>> \in P
    <2>1. Those(<<>>, A) = <<>> /\ Those(<<>>, B) = <<>> /\ <<>> \in Seq(S)
      BY ThoseSteps
    <2>2. m[<<>>] = 0
      BY DEF Measure
    <2> QED
      BY <2>1, <2>2
  <1>2. ASSUME NEW u \in Seq(S), NEW c \in S, u \in P PROVE Append(u, c) \in P
    <2>1. u \in Seq(Outgoing) /\ c \in Outgoing /\ Append(u, c) \in Seq(S)
      OBVIOUS
    <2>2. /\ Those(u, A) \in Seq(Outgoing) /\ Those(u, B) \in Seq(Outgoing)
          /\ Those(Append(u, c), A) =
                IF c \in A THEN Append(Those(u, A), c) ELSE Those(u, A)
          /\ Those(Append(u, c), B) =
                IF c \in B THEN Append(Those(u, B), c) ELSE Those(u, B)
      <3>1. ASSUME NEW C
            PROVE  /\ Those(u, C) \in Seq(Outgoing)
                   /\ Those(Append(u, c), C) =
                         IF c \in C THEN Append(Those(u, C), c) ELSE Those(u, C)
        BY ONLY <2>1, ThoseSteps
      <3> QED
        BY ONLY <3>1
    <2> DEFINE a == Those(u, A)
               b == Those(u, B)
    <2>3. a \in Seq(Outgoing) /\ b \in Seq(Outgoing) /\ m[a] + m[b] = m[u]
      BY <1>2, <2>2
    <2> HIDE DEF a, b
    <2>4. /\ m[Append(u, c)] = m[u] + w[c] /\ m[Append(a, c)] = m[a] + w[c]
          /\ m[Append(b, c)] = m[b] + w[c] /\ w[c] \in Nat
      BY <2>1, <2>3 DEF Measure
    <2>5. CASE c \in A
      <3>1. m[Append(a, c)] + m[b] = m[Append(u, c)]
        BY <1>0, <2>1, <2>3, <2>4
      <3> QED
        BY <2>1, <2>2, <2>5, <3>1 DEF a, b
    <2>6. CASE c \notin A
      <3>1. m[a] + m[Append(b, c)] = m[Append(u, c)]
        BY <1>0, <2>1, <2>3, <2>4
      <3> QED
        BY <2>1, <2>2, <2>6, <3>1 DEF a, b
    <2> QED
      BY <2>5, <2>6
  <1> HIDE DEF P
  <1>3. \A u \in Seq(S) : u \in P
    BY <1>1, <1>2, Lists
  <1> QED
    BY <1>3 DEF P

\* Those is a list of commands of the list.
LEMMA ThoseIn ==
    ASSUME NEW S \in SUBSET Outgoing, NEW A, NEW s \in Seq(S)
    PROVE  Those(s, A) \in Seq(S \cap A)
  <1> DEFINE P == {u \in Seq(S) : Those(u, A) \in Seq(S \cap A)}
  <1>1. <<>> \in P
    <2>1. Those(<<>>, A) = <<>>
      BY ThoseSteps
    <2>2. <<>> \in Seq(S) /\ <<>> \in Seq(S \cap A)
      OBVIOUS
    <2> QED
      BY <2>1, <2>2
  <1>2. ASSUME NEW u \in Seq(S), NEW c \in S, u \in P PROVE Append(u, c) \in P
    <2>1. u \in Seq(Outgoing) /\ c \in Outgoing /\ Append(u, c) \in Seq(S)
      OBVIOUS
    <2>2. Those(Append(u, c), A) =
             IF c \in A THEN Append(Those(u, A), c) ELSE Those(u, A)
      BY <2>1, ThoseSteps
    <2>3. Those(u, A) \in Seq(S \cap A)
      BY <1>2
    <2>4. c \in A => Append(Those(u, A), c) \in Seq(S \cap A)
      BY <2>3
    <2> QED
      BY <2>1, <2>2, <2>3, <2>4
  <1> HIDE DEF P
  <1>3. \A u \in Seq(S) : u \in P
    BY <1>1, <1>2, Lists
  <1> QED
    BY <1>3 DEF P

\* Every one of those in the list is among them.
LEMMA ThoseAll ==
    ASSUME NEW A, NEW s \in Seq(Outgoing), NEW k \in DOMAIN s, s[k] \in A
    PROVE  \E j \in DOMAIN Those(s, A) : Those(s, A)[j] = s[k]
  <1> DEFINE P == {u \in Seq(Outgoing) :
                      \A i \in DOMAIN u : u[i] \in A =>
                         \E j \in DOMAIN Those(u, A) : Those(u, A)[j] = u[i]}
  <1>1. <<>> \in P
    OBVIOUS
  <1>2. ASSUME NEW u \in Seq(Outgoing), NEW c \in Outgoing, u \in P
        PROVE  Append(u, c) \in P
    <2> DEFINE v == Append(u, c)
               a == Those(u, A)
               b == Those(v, A)
    <2>1. /\ v \in Seq(Outgoing) /\ Len(v) = Len(u) + 1 /\ v[Len(u) + 1] = c
          /\ \A i \in 1 .. Len(u) : v[i] = u[i]
      OBVIOUS
    <2>2. /\ a \in Seq(Outgoing)
          /\ b = IF c \in A THEN Append(a, c) ELSE a
      BY ThoseSteps
    <2>3. \A i \in DOMAIN u : u[i] \in A => \E j \in DOMAIN a : a[j] = u[i]
      BY <1>2
    <2> HIDE DEF v, a, b
    <2>4. \A j \in DOMAIN a : j \in DOMAIN b /\ b[j] = a[j]
      BY <2>2
    <2>5. ASSUME NEW i \in DOMAIN v, v[i] \in A
          PROVE  \E j \in DOMAIN b : b[j] = v[i]
      <3>1. CASE i = Len(u) + 1
        <4>1. c \in A
          BY <2>1, <2>5, <3>1
        <4>2. Len(a) + 1 \in DOMAIN b /\ b[Len(a) + 1] = c
          BY <2>2, <4>1
        <4> QED
          BY <2>1, <3>1, <4>2
      <3>2. CASE i # Len(u) + 1
        <4>1. i \in DOMAIN u /\ v[i] = u[i]
          BY <2>1, <3>2
        <4> QED
          BY <2>3, <2>4, <2>5, <4>1
      <3> QED
        BY <3>1, <3>2
    <2> QED
      BY <2>1, <2>5 DEF v, b
  <1> HIDE DEF P
  <1>3. \A u \in Seq(Outgoing) : u \in P
    BY <1>1, <1>2, Lists
  <1> QED
    BY <1>3 DEF P

\* The first of the list is the first of them.
LEMMA ThoseHead ==
    ASSUME NEW A, NEW s \in Seq(Outgoing), s # <<>>, Head(s) \in A
    PROVE  Those(s, A) # <<>> /\ Head(Those(s, A)) = Head(s)
  <1> DEFINE P == {u \in Seq(Outgoing) :
                      u # <<>> /\ Head(u) \in A =>
                         Those(u, A) # <<>> /\ Head(Those(u, A)) = Head(u)}
  <1>1. <<>> \in P
    OBVIOUS
  <1>2. ASSUME NEW u \in Seq(Outgoing), NEW c \in Outgoing, u \in P
        PROVE  Append(u, c) \in P
    <2> DEFINE v == Append(u, c)
               a == Those(u, A)
               b == Those(v, A)
    <2>1. v \in Seq(Outgoing) /\ v # <<>>
      <3>1. v \in Seq(Outgoing) /\ Len(v) = Len(u) + 1 /\ Len(u) \in Nat
        OBVIOUS
      <3>2. Len(v) # 0
        BY <3>1
      <3> QED
        BY <3>1, <3>2
    <2>2. /\ a \in Seq(Outgoing)
          /\ b = IF c \in A THEN Append(a, c) ELSE a
      BY ThoseSteps
    <2>3. CASE u = <<>>
      <3>1. v = <<c>> /\ Head(v) = c
        BY <2>3
      <3>2. a = <<>>
        BY <2>3, ThoseSteps
      <3> HIDE DEF v, a, b
      <3>3. c \in A => b = <<c>> /\ Head(b) = c
        BY <2>2, <3>2
      <3> QED
        BY <2>1, <3>1, <3>3 DEF v, b
    <2>4. CASE u # <<>>
      <3>1. Head(v) = Head(u)
        BY <2>4
      <3>2. Head(u) \in A => a # <<>> /\ Head(a) = Head(u)
        BY <1>2, <2>4
      <3> HIDE DEF v, a, b
      <3>3. a # <<>> => b # <<>> /\ Head(b) = Head(a)
        BY <2>2
      <3> QED
        BY <2>1, <3>1, <3>2, <3>3 DEF v, b
    <2> QED
      BY <2>3, <2>4
  <1> HIDE DEF P
  <1>3. \A u \in Seq(Outgoing) : u \in P
    BY <1>1, <1>2, Lists
  <1> QED
    BY <1>3 DEF P

\* What was sent before is at the front of the list.
FirstAgain(s) ==
    \A i, j \in DOMAIN s : i < j /\ s[j].first # 0 => s[i].first # 0

\* So it is at the front of any of them.
LEMMA ThoseFirst ==
    ASSUME NEW A, NEW s \in Seq(Outgoing), FirstAgain(s)
    PROVE  FirstAgain(Those(s, A))
  <1> DEFINE P == {u \in Seq(Outgoing) : FirstAgain(u) => FirstAgain(Those(u, A))}
  <1>1. <<>> \in P
    BY ThoseSteps DEF FirstAgain
  <1>2. ASSUME NEW u \in Seq(Outgoing), NEW c \in Outgoing, u \in P
        PROVE  Append(u, c) \in P
    <2> DEFINE v == Append(u, c)
               a == Those(u, A)
               b == Those(v, A)
    <2>1. /\ v \in Seq(Outgoing) /\ Len(v) = Len(u) + 1 /\ v[Len(u) + 1] = c
          /\ \A i \in 1 .. Len(u) : v[i] = u[i]
      OBVIOUS
    <2>2. /\ a \in Seq(Outgoing)
          /\ b = IF c \in A THEN Append(a, c) ELSE a
      BY ThoseSteps
    <2>3. FirstAgain(u) => FirstAgain(a)
      BY <1>2
    <2> DEFINE S == {u[i] : i \in DOMAIN u}
    <2>4. u \in Seq(S) /\ S \in SUBSET Outgoing
      OBVIOUS
    <2>5. a \in Seq(S \cap A)
      BY <2>4, ThoseIn
    <2>6. \A j \in DOMAIN a : \E i \in DOMAIN u : a[j] = u[i]
      BY <2>5
    <2> HIDE DEF v, a, b, S
    <2>7. SUFFICES ASSUME FirstAgain(v) PROVE FirstAgain(b)
      BY <2>1 DEF v, b
    <2>8. FirstAgain(u)
      BY <2>1, <2>7 DEF FirstAgain
    <2>9. c.first # 0 => \A i \in DOMAIN u : u[i].first # 0
      <3>1. \A i \in DOMAIN u : i \in DOMAIN v /\ i < Len(u) + 1 /\ v[i] = u[i]
        BY <2>1
      <3>2. Len(u) + 1 \in DOMAIN v
        BY <2>1
      <3> QED
        BY <2>1, <2>7, <3>1, <3>2 DEF FirstAgain
    <2>10. c.first # 0 => \A j \in DOMAIN a : a[j].first # 0
      BY <2>6, <2>9
    <2>11. FirstAgain(Append(a, c))
      BY <2>2, <2>3, <2>8, <2>10 DEF FirstAgain
    <2> QED
      BY <2>2, <2>3, <2>8, <2>11
  <1> HIDE DEF P
  <1>3. \A u \in Seq(Outgoing) : u \in P
    BY <1>1, <1>2, Lists
  <1> QED
    BY <1>3 DEF P

\* How many commands of a list hold packet p.
LEMMA HoldingSteps ==
    ASSUME NEW p
    PROVE  /\ Holding(<<>>, p) = 0
           /\ \A s \in Seq(Outgoing) : Holding(s, p) \in Nat
           /\ \A s \in Seq(Outgoing), c \in Outgoing :
                 Holding(Append(s, c), p) =
                    Holding(s, p) + (IF c.packet = p THEN 1 ELSE 0)
  <1> DEFINE H(s) == {i \in DOMAIN s : s[i].packet = p}
  <1>1. Holding(<<>>, p) = 0
    <2>1. H(<<>>) = {}
      OBVIOUS
    <2> QED
      BY <2>1, FS_EmptySet DEF Holding
  <1>2. ASSUME NEW s \in Seq(Outgoing)
        PROVE  IsFiniteSet(H(s)) /\ Cardinality(H(s)) \in Nat
    <2>1. IsFiniteSet(1 .. Len(s))
      BY FS_Interval
    <2>2. H(s) \subseteq 1 .. Len(s)
      OBVIOUS
    <2> HIDE DEF H
    <2>3. IsFiniteSet(H(s))
      BY <2>1, <2>2, FS_Subset
    <2> QED
      BY <2>3, FS_CardinalityType
  <1>3. ASSUME NEW s \in Seq(Outgoing), NEW c \in Outgoing
        PROVE  Holding(Append(s, c), p) =
                  Holding(s, p) + (IF c.packet = p THEN 1 ELSE 0)
    <2> DEFINE n == Len(s) + 1
               t == Append(s, c)
    <2>1. DOMAIN t = 1 .. n /\ t[n] = c /\ \A i \in DOMAIN s : t[i] = s[i]
      OBVIOUS
    <2>2. /\ DOMAIN s = 1 .. Len(s) /\ 1 .. n = (1 .. Len(s)) \cup {n}
          /\ n \notin 1 .. Len(s)
      OBVIOUS
    <2> HIDE DEF t, n
    <2>3. H(t) = IF c.packet = p THEN H(s) \cup {n} ELSE H(s)
      BY <2>1, <2>2
    <2>4. n \notin H(s)
      BY <2>2
    <2>5. IsFiniteSet(H(s)) /\ Cardinality(H(s)) \in Nat
      BY <1>2
    <2> HIDE DEF H
    <2>6. Cardinality(H(s) \cup {n}) = Cardinality(H(s)) + 1
      BY <2>4, <2>5, FS_AddElement
    <2>7. Cardinality(H(t)) = Cardinality(H(s)) + (IF c.packet = p THEN 1 ELSE 0)
      BY <2>3, <2>5, <2>6
    <2> QED
      BY <2>7 DEF Holding, H, t
  <1> QED
    BY <1>1, <1>2, <1>3 DEF Holding

\* The two measures of a list.
LEMMA HoldingMeasure ==
    ASSUME NEW p
    PROVE  Measure([s \in Seq(Outgoing) |-> Holding(s, p)],
                   [c \in Outgoing |-> IF c.packet = p THEN 1 ELSE 0])
  <1> DEFINE m == [s \in Seq(Outgoing) |-> Holding(s, p)]
             w == [c \in Outgoing |-> IF c.packet = p THEN 1 ELSE 0]
  <1>1. /\ w \in [Outgoing -> Nat]
        /\ \A c \in Outgoing : w[c] = IF c.packet = p THEN 1 ELSE 0
    OBVIOUS
  <1>2. m \in [Seq(Outgoing) -> Nat] /\ \A s \in Seq(Outgoing) : m[s] = Holding(s, p)
    BY HoldingSteps
  <1>3. <<>> \in Seq(Outgoing)
        /\ \A s \in Seq(Outgoing), c \in Outgoing : Append(s, c) \in Seq(Outgoing)
    OBVIOUS
  <1> HIDE DEF m, w
  <1>4. m[<<>>] = 0
    BY <1>2, <1>3, HoldingSteps
  <1>5. ASSUME NEW s \in Seq(Outgoing), NEW c \in Outgoing
        PROVE  m[Append(s, c)] = m[s] + w[c]
    <2>1. /\ m[Append(s, c)] = Holding(Append(s, c), p) /\ m[s] = Holding(s, p)
          /\ w[c] = IF c.packet = p THEN 1 ELSE 0
      BY <1>1, <1>2, <1>3
    <2>2. Holding(Append(s, c), p) = Holding(s, p) + (IF c.packet = p THEN 1 ELSE 0)
      BY HoldingSteps
    <2> QED
      BY <2>1, <2>2
  <1>6. Measure(m, w)
    BY <1>1, <1>2, <1>4, <1>5 DEF Measure
  <1> QED
    BY <1>6 DEF m, w

\* What a list takes is a measure.
LEMMA LengthMeasure ==
    Measure([s \in Seq(Outgoing) |-> Length(s)], [c \in Outgoing |-> c.length])
  <1> DEFINE m == [s \in Seq(Outgoing) |-> Length(s)]
             w == [c \in Outgoing |-> c.length]
  <1>1. w \in [Outgoing -> Nat] /\ \A c \in Outgoing : w[c] = c.length
    BY OutgoingFields
  <1>2. m \in [Seq(Outgoing) -> Nat] /\ \A s \in Seq(Outgoing) : m[s] = Length(s)
    BY LengthSteps
  <1>3. <<>> \in Seq(Outgoing)
        /\ \A s \in Seq(Outgoing), c \in Outgoing : Append(s, c) \in Seq(Outgoing)
    OBVIOUS
  <1> HIDE DEF m, w
  <1>4. m[<<>>] = 0
    BY <1>2, <1>3, LengthSteps
  <1>5. \A s \in Seq(Outgoing), c \in Outgoing : m[Append(s, c)] = m[s] + w[c]
    BY <1>1, <1>2, <1>3, LengthSteps
  <1>6. Measure(m, w)
    BY <1>1, <1>2, <1>4, <1>5 DEF Measure
  <1> QED
    BY <1>6 DEF m, w

\* What two lists hold.
LEMMA HoldingBoth ==
    ASSUME NEW p, NEW s \in Seq(Outgoing), NEW t \in Seq(Outgoing)
    PROVE  Holding(s \o t, p) = Holding(s, p) + Holding(t, p)
  <1> DEFINE m == [u \in Seq(Outgoing) |-> Holding(u, p)]
             w == [c \in Outgoing |-> IF c.packet = p THEN 1 ELSE 0]
  <1>1. Measure(m, w)
    BY HoldingMeasure
  <1>2. \A u \in Seq(Outgoing) : m[u] = Holding(u, p)
    OBVIOUS
  <1> HIDE DEF m, w
  <1>3. m[s \o t] = m[s] + m[t]
    BY <1>1, MeasureOfBoth
  <1>4. s \o t \in Seq(Outgoing)
    OBVIOUS
  <1> QED
    BY <1>2, <1>3, <1>4

\* What a list holds, its parts hold.
LEMMA HoldingParts ==
    ASSUME NEW p, NEW S \in SUBSET Outgoing, NEW A, NEW B,
           \A c \in S : c \in A <=> c \notin B,
           NEW s \in Seq(S)
    PROVE  Holding(Those(s, A), p) + Holding(Those(s, B), p) = Holding(s, p)
  <1> DEFINE m == [u \in Seq(Outgoing) |-> Holding(u, p)]
             w == [c \in Outgoing |-> IF c.packet = p THEN 1 ELSE 0]
  <1>1. Measure(m, w)
    BY HoldingMeasure
  <1>2. \A u \in Seq(Outgoing) : m[u] = Holding(u, p)
    OBVIOUS
  <1> HIDE DEF m, w
  <1>3. m[Those(s, A)] + m[Those(s, B)] = m[s]
    BY <1>1, MeasureOfParts
  <1>4. s \in Seq(Outgoing)
    OBVIOUS
  <1>5. Those(s, A) \in Seq(Outgoing) /\ Those(s, B) \in Seq(Outgoing)
    BY <1>4, ThoseSteps
  <1> QED
    BY <1>2, <1>3, <1>4, <1>5

\* What a list takes, its parts take.
LEMMA LengthParts ==
    ASSUME NEW S \in SUBSET Outgoing, NEW A, NEW B,
           \A c \in S : c \in A <=> c \notin B,
           NEW s \in Seq(S)
    PROVE  Length(Those(s, A)) + Length(Those(s, B)) = Length(s)
  <1> DEFINE m == [u \in Seq(Outgoing) |-> Length(u)]
             w == [c \in Outgoing |-> c.length]
  <1>1. Measure(m, w)
    BY LengthMeasure
  <1>2. \A u \in Seq(Outgoing) : m[u] = Length(u)
    OBVIOUS
  <1> HIDE DEF m, w
  <1>3. m[Those(s, A)] + m[Those(s, B)] = m[s]
    BY <1>1, MeasureOfParts
  <1>4. s \in Seq(Outgoing)
    OBVIOUS
  <1>5. Those(s, A) \in Seq(Outgoing) /\ Those(s, B) \in Seq(Outgoing)
    BY <1>4, ThoseSteps
  <1> QED
    BY <1>2, <1>3, <1>4, <1>5

\* Lists of the same packets hold the same.
LEMMA HoldingSame ==
    ASSUME NEW p, NEW s, NEW t, DOMAIN s = DOMAIN t,
           \A i \in DOMAIN s : s[i].packet = t[i].packet
    PROVE  Holding(s, p) = Holding(t, p)
  <1>1. {i \in DOMAIN s : s[i].packet = p} = {i \in DOMAIN t : t[i].packet = p}
    OBVIOUS
  <1> QED
    BY <1>1 DEF Holding

\* Lists of no command that refers to p do not hold it; those of which every
\* one does, as often as they are long.
LEMMA HoldingNone ==
    ASSUME NEW p, NEW s, \A i \in DOMAIN s : s[i].packet # p
    PROVE  Holding(s, p) = 0
  <1>1. {i \in DOMAIN s : s[i].packet = p} = {}
    OBVIOUS
  <1> QED
    BY <1>1, FS_EmptySet DEF Holding

\* And as often as it is long when every command refers to p.
LEMMA HoldingAll ==
    ASSUME NEW p, NEW n \in Nat, NEW s, DOMAIN s = 1 .. n,
           \A i \in DOMAIN s : s[i].packet = p
    PROVE  Holding(s, p) = n
  <1>1. {i \in DOMAIN s : s[i].packet = p} = 1 .. n
    OBVIOUS
  <1>2. Cardinality(1 .. n) = n
    BY FS_Interval
  <1> QED
    BY <1>1, <1>2 DEF Holding

-----------------------------------------------------------------------------
(***************************************************************************)
(* What the fields of a peer say of each other, at time t, when n numbers  *)
(* have been given and k packets been made.                                *)
(***************************************************************************)

\* A command that waits for an acknowledgement was sent, at some time not before
\* it was first sent; one in the queue may have been.
SentCommands(t, n, k) ==
    {c \in Outgoing :
        /\ c.first # 0 /\ c.packet <= k /\ c.number \in 1 .. n
        /\ \E s \in Start .. t : c.first <= s /\ c.sentTime = s % Clock}
QueuedCommands(t, n, k) ==
    {c \in Outgoing : c.first <= t /\ c.packet <= k /\ c.number \in 1 .. n}
UnreliableCommands(k) == {c \in Outgoing : c.packet <= k}

ListsFit(p, t, n, k) ==
    /\ p.sent \in Seq(SentCommands(t, n, k))
    /\ p.outgoing \in Seq(QueuedCommands(t, n, k))
    /\ p.unreliable \in Seq(UnreliableCommands(k))

Counted(p) == p.inTransit = Length(p.sent)
Timed(p) == p.sent # <<>> => p.nextTimeout = Expiry(Head(p.sent))

\* When the reliable commands were first sent.
FirstsOf(s) == {s[i].first : i \in DOMAIN s}
Firsts(p) == FirstsOf(p.sent) \cup FirstsOf(p.outgoing)

\* The earliest timeout is the time at which something was sent that has been
\* without acknowledgement at least since.
EarliestFits(p, t, earliest) ==
    earliest # 0 =>
       \E s \in Start .. t :
          earliest = s % Clock /\ \E f \in Firsts(p) : f # 0 /\ f <= s

Fits(p, t, n, k) ==
    /\ p \in PeerType
    /\ ListsFit(p, t, n, k)
    /\ Counted(p) /\ Timed(p) /\ FirstAgain(p.outgoing)
    /\ EarliestFits(p, t, p.earliestTimeout)

\* The commands on the reliable lists that refer to packet q.
Refers(p, q) == Holding(p.sent, q) + Holding(p.outgoing, q)

\* The invariant.
IInv ==
    /\ TypeOK
    /\ Fits(peer, now, numbers, Len(references))
    /\ \A q \in DOMAIN references :
          references[q] = Refers(peer, q) + Holding(peer.unreliable, q)
    /\ numbers <= 2 * Len(references) + pings
    /\ \A f \in flights : f.sent <= now

\* The fields of a peer.
LEMMA PeerFields ==
    ASSUME NEW p \in PeerType
    PROVE  /\ p.outgoing \in Seq(Outgoing) /\ p.unreliable \in Seq(Outgoing)
           /\ p.sent \in Seq(Outgoing) /\ p.inTransit \in Int
           /\ p.nextTimeout \in Ticks /\ p.earliestTimeout \in Ticks
           /\ p.roundTripTime \in Nat /\ p.variance \in Nat
           /\ p.throttle \in 0 .. ThrottleScale
           /\ p.counter \in 0 .. ThrottleScale - 1
  BY DEF PeerType

\* An expiry is a time of the clock.
LEMMA ExpiryType ==
    ASSUME NEW c \in Outgoing
    PROVE  Expiry(c) \in Ticks
  <1> DEFINE x == c.sentTime + c.timeout
  <1>1. Clock \in Nat \ {0}
    BY Constants
  <1>2. x \in Int
    BY <1>1, OutgoingFields DEF Ticks
  <1> HIDE DEF x
  <1>3. x % Clock \in 0 .. Clock - 1
    BY <1>1, <1>2, ModRange
  <1> QED
    BY <1>3 DEF Expiry, Ticks, x

\* So is the service time.
LEMMA ServiceTimeType ==
    ASSUME now \in Times
    PROVE  serviceTime \in Ticks
  <1>1. Clock \in Nat \ {0} /\ now \in Int
    BY Constants DEF Times
  <1>2. now % Clock \in 0 .. Clock - 1
    BY <1>1, ModRange
  <1> QED
    BY <1>2 DEF serviceTime, Ticks

\* A command as it is sent.
SentAs(p, c) ==
    LET timeout == IF c.timeout = 0 THEN p.roundTripTime + 4 * p.variance
                   ELSE c.timeout
    IN  [c EXCEPT
           !.timeout = timeout,
           !.limit = IF c.timeout = 0 THEN TimeoutLimit * timeout ELSE @,
           !.sentTime = serviceTime,
           !.first = IF @ = 0 THEN now ELSE @]

\* It is a command that waits for an acknowledgement.
LEMMA SentAsFits ==
    ASSUME now \in Times, NEW n \in Nat, NEW k \in Nat,
           NEW p \in PeerType, NEW c \in QueuedCommands(now, n, k)
    PROVE  /\ SentAs(p, c) \in SentCommands(now, n, k)
           /\ SentAs(p, c).packet = c.packet
           /\ SentAs(p, c).length = c.length
           /\ c.first # 0 => SentAs(p, c).first = c.first
  <1> DEFINE timeout == IF c.timeout = 0 THEN p.roundTripTime + 4 * p.variance
                        ELSE c.timeout
             limit == IF c.timeout = 0 THEN TimeoutLimit * timeout ELSE c.limit
             first == IF c.first = 0 THEN now ELSE c.first
             x == SentAs(p, c)
  <1>1. /\ c \in Outgoing /\ c.first <= now /\ c.packet <= k /\ c.number \in 1 .. n
    BY DEF QueuedCommands
  <1>2. timeout \in Nat
    BY <1>1, OutgoingFields, PeerFields
  <1>3. limit \in Nat
    <2> HIDE DEF timeout
    <2>1. TimeoutLimit * timeout \in Nat
      BY <1>2, Constants
    <2> QED
      BY <1>1, <2>1, OutgoingFields
  <1>4. now \in Nat /\ now # 0 /\ now \in Start .. now
    BY Constants DEF Times
  <1>5. first \in {0} \cup Times /\ first # 0 /\ first <= now
    BY <1>1, <1>4, OutgoingFields
  <1>6. x = [c EXCEPT !.timeout = timeout, !.limit = limit,
                      !.sentTime = serviceTime, !.first = first]
    BY DEF SentAs
  <1>7. serviceTime \in Ticks
    BY ServiceTimeType
  <1> HIDE DEF timeout, limit, first, x
  <1>8. /\ x \in Outgoing /\ x.first = first /\ x.packet = c.packet
        /\ x.number = c.number /\ x.length = c.length /\ x.sentTime = serviceTime
    BY <1>1, <1>2, <1>3, <1>5, <1>6, <1>7 DEF Outgoing
  <1>9. x \in SentCommands(now, n, k)
    BY <1>1, <1>4, <1>5, <1>8 DEF SentCommands, serviceTime
  <1> QED
    BY <1>8, <1>9 DEF x, first

\* The peer after a command is sent.
LEMMA TransmittedIs ==
    ASSUME now \in Times, NEW n \in Nat, NEW k \in Nat,
           NEW p \in PeerType, NEW c \in QueuedCommands(now, n, k)
    PROVE  LET q == Transmitted(p, c)
               x == SentAs(p, c)
           IN  /\ q \in PeerType
               /\ q.sent = Append(p.sent, x)
               /\ q.inTransit = p.inTransit + c.length
               /\ q.nextTimeout = IF p.sent = <<>> THEN Expiry(x) ELSE p.nextTimeout
               /\ q.outgoing = p.outgoing /\ q.unreliable = p.unreliable
               /\ q.earliestTimeout = p.earliestTimeout
  <1> DEFINE x == SentAs(p, c)
             q == Transmitted(p, c)
             next == IF p.sent = <<>> THEN Expiry(x) ELSE p.nextTimeout
  <1>1. x \in Outgoing /\ c \in Outgoing
    BY SentAsFits DEF SentCommands, QueuedCommands
  <1>2. q = [p EXCEPT !.sent = Append(@, x),
                      !.inTransit = @ + c.length,
                      !.nextTimeout = IF p.sent = <<>> THEN Expiry(x) ELSE @]
    BY DEF Transmitted, SentAs
  <1> HIDE DEF x, q
  <1>3. /\ Append(p.sent, x) \in Seq(Outgoing)
        /\ p.inTransit + c.length \in Int
        /\ next \in Ticks
    BY <1>1, OutgoingFields, PeerFields, ExpiryType
  <1>4. q = [p EXCEPT !.sent = Append(p.sent, x),
                      !.inTransit = p.inTransit + c.length,
                      !.nextTimeout = next]
    BY <1>2 DEF PeerType
  <1> HIDE DEF next
  <1>5. /\ q \in PeerType /\ q.sent = Append(p.sent, x)
        /\ q.inTransit = p.inTransit + c.length /\ q.nextTimeout = next
        /\ q.outgoing = p.outgoing /\ q.unreliable = p.unreliable
        /\ q.earliestTimeout = p.earliestTimeout
    BY ONLY <1>3, <1>4, p \in PeerType DEF PeerType
  <1> QED
    BY <1>5 DEF q, x, next

\* The times of first sending in a longer list.
LEMMA FirstsOfSteps ==
    /\ FirstsOf(<<>>) = {}
    /\ \A s \in Seq(Outgoing), c \in Outgoing :
          FirstsOf(Append(s, c)) = FirstsOf(s) \cup {c.first}
    /\ \A s, t \in Seq(Outgoing) : FirstsOf(s \o t) = FirstsOf(s) \cup FirstsOf(t)
  <1>1. FirstsOf(<<>>) = {}
    BY DEF FirstsOf
  <1>2. ASSUME NEW s \in Seq(Outgoing), NEW c \in Outgoing
        PROVE  FirstsOf(Append(s, c)) = FirstsOf(s) \cup {c.first}
    <2> DEFINE v == Append(s, c)
    <2>1. /\ DOMAIN v = (DOMAIN s) \cup {Len(s) + 1} /\ v[Len(s) + 1] = c
          /\ \A i \in DOMAIN s : v[i] = s[i]
      OBVIOUS
    <2> HIDE DEF v
    <2>2. FirstsOf(v) = FirstsOf(s) \cup {c.first}
      BY <2>1 DEF FirstsOf
    <2> QED
      BY <2>2 DEF v
  <1>3. ASSUME NEW s \in Seq(Outgoing), NEW t \in Seq(Outgoing)
        PROVE  FirstsOf(s \o t) = FirstsOf(s) \cup FirstsOf(t)
    <2> DEFINE v == s \o t
    <2>1. /\ DOMAIN v = 1 .. Len(s) + Len(t)
          /\ \A i \in 1 .. Len(s) : v[i] = s[i]
          /\ \A i \in 1 .. Len(t) : v[Len(s) + i] = t[i]
          /\ DOMAIN s = 1 .. Len(s) /\ DOMAIN t = 1 .. Len(t)
          /\ Len(s) \in Nat /\ Len(t) \in Nat
      OBVIOUS
    <2> HIDE DEF v
    <2>2. ASSUME NEW i \in DOMAIN v PROVE v[i].first \in FirstsOf(s) \cup FirstsOf(t)
      <3>1. CASE i <= Len(s)
        BY <2>1, <3>1 DEF FirstsOf
      <3>2. CASE i > Len(s)
        <4>1. i - Len(s) \in DOMAIN t /\ v[i] = t[i - Len(s)]
          BY <2>1, <3>2
        <4> QED
          BY <4>1 DEF FirstsOf
      <3> QED
        BY <2>1, <3>1, <3>2
    <2>3. \A i \in DOMAIN s : i \in DOMAIN v /\ v[i] = s[i]
      BY <2>1
    <2>4. \A i \in DOMAIN t : Len(s) + i \in DOMAIN v /\ v[Len(s) + i] = t[i]
      BY <2>1
    <2>5. FirstsOf(s) \subseteq FirstsOf(v)
      BY <2>3 DEF FirstsOf
    <2>6. FirstsOf(t) \subseteq FirstsOf(v)
      BY <2>4 DEF FirstsOf
    <2>7. FirstsOf(v) \subseteq FirstsOf(s) \cup FirstsOf(t)
      BY <2>2 DEF FirstsOf
    <2>8. FirstsOf(v) = FirstsOf(s) \cup FirstsOf(t)
      BY <2>5, <2>6, <2>7
    <2> QED
      BY <2>8 DEF v
  <1> QED
    BY <1>1, <1>2, <1>3

\* The window lets one datagram through.
LEMMA RoomIsEnough ==
    ASSUME NEW p \in PeerType
    PROVE  Room(p) \in Int /\ Room(p) >= Mtu
  <1> DEFINE x == p.throttle * WindowSize
  <1>1. p.throttle \in Nat /\ WindowSize \in Nat /\ ThrottleScale \in Nat \ {0}
    BY PeerFields, Constants
  <1>2. x \in Nat
    BY <1>1
  <1> HIDE DEF x
  <1>3. x \div ThrottleScale \in Nat
    BY <1>1, <1>2, ModAtMost
  <1>4. Window(p) \in Nat
    BY <1>3 DEF Window, x
  <1> QED
    BY <1>4, Constants DEF Room

\* What SendReliable goes through the queue with.
Passing == [peer : PeerType, exceeded : BOOLEAN]

\* One command of the queue is kept, because the window is exceeded, or sent.
LEMMA SendNextIs ==
    ASSUME now \in Times, NEW n \in Nat, NEW k \in Nat,
           NEW d \in Passing, NEW c \in QueuedCommands(now, n, k)
    PROVE  LET e == SendNext(d, c)
               kept == [d.peer EXCEPT !.outgoing = Append(@, c)]
           IN  /\ e \in Passing
               /\ \/ /\ e.peer = kept
                     /\ d.exceeded \/ d.peer.inTransit + c.length > Room(d.peer)
                  \/ /\ e.peer = Transmitted(d.peer, c) /\ e.exceeded = d.exceeded
  <1> DEFINE e == SendNext(d, c)
             kept == [d.peer EXCEPT !.outgoing = Append(@, c)]
             sent == Transmitted(d.peer, c)
  <1>1. d.peer \in PeerType /\ d.exceeded \in BOOLEAN /\ c \in Outgoing
    BY DEF Passing, QueuedCommands
  <1>2. sent \in PeerType
    BY <1>1, TransmittedIs
  <1>3. kept \in PeerType
    <2>1. Append(d.peer.outgoing, c) \in Seq(Outgoing)
      BY <1>1, PeerFields
    <2>2. kept = [d.peer EXCEPT !.outgoing = Append(d.peer.outgoing, c)]
      BY <1>1 DEF PeerType
    <2> QED
      BY ONLY <1>1, <2>1, <2>2 DEF PeerType
  <1>4. \/ /\ e = [peer |-> kept, exceeded |-> TRUE]
           /\ d.exceeded \/ d.peer.inTransit + c.length > Room(d.peer)
        \/ e = [d EXCEPT !.peer = sent]
    BY DEF SendNext, Passing
  <1> HIDE DEF e, kept, sent
  <1>5. CASE /\ e = [peer |-> kept, exceeded |-> TRUE]
             /\ d.exceeded \/ d.peer.inTransit + c.length > Room(d.peer)
    <2>1. e \in Passing /\ e.peer = kept
      BY <1>3, <1>5 DEF Passing
    <2> QED
      BY <1>5, <2>1 DEF e, kept
  <1>6. CASE e = [d EXCEPT !.peer = sent]
    <2>1. e \in Passing /\ e.peer = sent /\ e.exceeded = d.exceeded
      BY <1>1, <1>2, <1>6 DEF Passing
    <2> QED
      BY <2>1 DEF e, sent
  <1> QED
    BY <1>4, <1>5, <1>6

\* SendReliable goes through the queue.
LEMMA SendReliableLoop ==
    ASSUME now \in Times, NEW n \in Nat, NEW k \in Nat, NEW p \in PeerType,
           p.outgoing \in Seq(QueuedCommands(now, n, k))
    PROVE  \E f \in [0 .. Len(p.outgoing) -> Passing] :
              /\ f[0] = [peer |-> [p EXCEPT !.outgoing = <<>>], exceeded |-> FALSE]
              /\ \A i \in 1 .. Len(p.outgoing) :
                    f[i] = SendNext(f[i - 1], p.outgoing[i])
              /\ SendReliable(p) = f[Len(p.outgoing)].peer
  <1> DEFINE n0 == Len(p.outgoing)
             v0 == [peer |-> [p EXCEPT !.outgoing = <<>>], exceeded |-> FALSE]
             Step(i, v) == SendNext(v, p.outgoing[i])
             P(f) == f = [i \in 0 .. n0 |-> IF i = 0 THEN v0 ELSE Step(i, f[i - 1])]
             g == [i \in 1 .. n0 |-> [v \in Passing |-> Step(i, v)]]
  <1>1. n0 \in Nat /\ v0 \in Passing
    <2>0. <<>> \in Seq(Outgoing)
      OBVIOUS
    <2>1. [p EXCEPT !.outgoing = <<>>] \in PeerType
      BY ONLY <2>0, p \in PeerType DEF PeerType
    <2> QED
      BY <2>1 DEF Passing
  <1>d. \A i \in 1 .. n0 : p.outgoing[i] \in QueuedCommands(now, n, k)
    OBVIOUS
  <1>e. \A i \in 1 .. n0 : \A v \in Passing : Step(i, v) \in Passing
    BY <1>d, SendNextIs
  <1>2. SendReliable(p) = (CHOOSE f : P(f))[n0].peer
    BY DEF SendReliable
  <1> HIDE DEF n0, v0, Step
  <1>3. \A i \in 1 .. n0 : \A v \in Passing : g[i][v] = Step(i, v)
    OBVIOUS
  <1>4. g \in [1 .. n0 -> [Passing -> Passing]]
    BY <1>e
  <1> HIDE DEF g
  <1>b. g \in Steps(n0, Passing)
    BY <1>4 DEF Steps
  <1>c. \E f : Runs(f, n0, Passing, v0, g)
    BY ONLY <1>1, <1>b, Loop
  <1>5. PICK f \in [0 .. n0 -> Passing] :
           f[0] = v0 /\ \A i \in 1 .. n0 : f[i] = g[i][f[i - 1]]
    BY <1>c DEF Runs
  <1>6. \A i \in 1 .. n0 : f[i - 1] \in Passing /\ f[i] = Step(i, f[i - 1])
    BY <1>1, <1>3, <1>5
  <1>7. P(f)
    <2>1. f = [i \in 0 .. n0 |-> f[i]]
      BY <1>5
    <2>2. \A i \in 0 .. n0 : f[i] = IF i = 0 THEN v0 ELSE Step(i, f[i - 1])
      BY <1>1, <1>5, <1>6
    <2> QED
      BY <2>1, <2>2
  <1>8. PICK h : h = (CHOOSE ff : P(ff))
    OBVIOUS
  <1>9. P(h)
    BY <1>7, <1>8
  <1>10. h[0] = v0 /\ \A i \in 1 .. n0 : h[i] = Step(i, h[i - 1])
    BY <1>1, <1>9
  <1>11. \A i \in 0 .. n0 : h[i] \in Passing
    <2> DEFINE T == {i \in 0 .. n0 : h[i] \in Passing}
    <2>1. 0 \in T
      BY <1>1, <1>10
    <2>2. ASSUME NEW i \in 1 .. n0, i - 1 \in T PROVE i \in T
      BY <1>1, <1>e, <1>10, <2>2
    <2> HIDE DEF T
    <2>3. \A i \in 0 .. n0 : i \in T
      BY ONLY <1>1, <2>1, <2>2, Stepwise
    <2> QED
      BY <2>3 DEF T
  <1>12. h = [i \in 0 .. n0 |-> h[i]]
    BY <1>9
  <1>13. h \in [0 .. n0 -> Passing] /\ SendReliable(p) = h[n0].peer
    BY <1>2, <1>8, <1>11, <1>12
  <1> QED
    BY <1>10, <1>13 DEF n0, v0, Step

\* What holds between two commands, when w are behind.
PassFits(p, w, d, n, k) ==
    /\ ListsFit(d.peer, now, n, k) /\ Counted(d.peer) /\ Timed(d.peer)
    /\ d.peer.unreliable = p.unreliable
    /\ d.peer.earliestTimeout = p.earliestTimeout
    /\ FirstsOf(d.peer.outgoing) \subseteq FirstsOf(w)
    /\ FirstAgain(d.peer.outgoing)
    /\ FirstsOf(p.sent) \cup FirstsOf(w) \subseteq Firsts(d.peer) \cup {0}
    /\ \A q \in Nat : Refers(d.peer, q) = Holding(p.sent, q) + Holding(w, q)
    /\ d.exceeded \/ d.peer.outgoing # <<>> => d.peer.sent # <<>>

\* Lists of commands are lists of commands.
LEMMA ListTypes ==
    ASSUME NEW t, NEW n, NEW k
    PROVE  /\ SentCommands(t, n, k) \in SUBSET Outgoing
           /\ QueuedCommands(t, n, k) \in SUBSET Outgoing
           /\ UnreliableCommands(k) \in SUBSET Outgoing
           /\ Seq(SentCommands(t, n, k)) \subseteq Seq(Outgoing)
           /\ Seq(QueuedCommands(t, n, k)) \subseteq Seq(Outgoing)
           /\ Seq(UnreliableCommands(k)) \subseteq Seq(Outgoing)
  <1>1. /\ SentCommands(t, n, k) \in SUBSET Outgoing
        /\ QueuedCommands(t, n, k) \in SUBSET Outgoing
        /\ UnreliableCommands(k) \in SUBSET Outgoing
    BY DEF SentCommands, QueuedCommands, UnreliableCommands
  <1>2. ASSUME NEW S \in SUBSET Outgoing PROVE Seq(S) \subseteq Seq(Outgoing)
    OBVIOUS
  <1> QED
    BY <1>1, <1>2

\* The step that keeps a command.
LEMMA KeptFits ==
    ASSUME now \in Times, NEW n \in Nat, NEW k \in Nat, NEW p \in PeerType,
           NEW d \in Passing, NEW w \in Seq(Outgoing),
           NEW c \in QueuedCommands(now, n, k),
           PassFits(p, w, d, n, k), FirstAgain(Append(w, c)),
           NEW e \in Passing,
           e.peer = [d.peer EXCEPT !.outgoing = Append(@, c)],
           d.exceeded \/ d.peer.inTransit + c.length > Room(d.peer)
    PROVE  PassFits(p, Append(w, c), e, n, k)
  <1> DEFINE a == d.peer
             b == e.peer
             v == Append(w, c)
  <1>1. a \in PeerType /\ c \in Outgoing /\ b \in PeerType
    BY ListTypes DEF Passing
  <1>2. b.outgoing = Append(a.outgoing, c)
    BY <1>1 DEF PeerType
  <1>3. /\ b.sent = a.sent /\ b.unreliable = a.unreliable
        /\ b.inTransit = a.inTransit /\ b.nextTimeout = a.nextTimeout
        /\ b.earliestTimeout = a.earliestTimeout
    BY <1>1 DEF PeerType
  <1>4. a.outgoing \in Seq(Outgoing) /\ a.sent \in Seq(Outgoing)
    BY <1>1, PeerFields
  <1>5. /\ FirstsOf(b.outgoing) = FirstsOf(a.outgoing) \cup {c.first}
        /\ FirstsOf(v) = FirstsOf(w) \cup {c.first}
    BY <1>1, <1>2, <1>4, FirstsOfSteps
  <1>6. /\ ListsFit(a, now, n, k) /\ Counted(a) /\ Timed(a)
        /\ a.unreliable = p.unreliable /\ a.earliestTimeout = p.earliestTimeout
        /\ FirstsOf(a.outgoing) \subseteq FirstsOf(w) /\ FirstAgain(a.outgoing)
        /\ FirstsOf(p.sent) \cup FirstsOf(w) \subseteq Firsts(a) \cup {0}
        /\ \A q \in Nat : Refers(a, q) = Holding(p.sent, q) + Holding(w, q)
        /\ d.exceeded \/ a.outgoing # <<>> => a.sent # <<>>
    BY DEF PassFits
  <1> HIDE DEF a, b, v
  <1>7. ListsFit(b, now, n, k)
    <2>1. a.outgoing \in Seq(QueuedCommands(now, n, k))
      BY <1>6 DEF ListsFit
    <2>2. Append(a.outgoing, c) \in Seq(QueuedCommands(now, n, k))
      BY <2>1
    <2> QED
      BY <1>2, <1>3, <1>6, <2>2 DEF ListsFit
  <1>8. Counted(b) /\ Timed(b)
    BY <1>3, <1>6 DEF Counted, Timed
  <1>9. FirstsOf(b.outgoing) \subseteq FirstsOf(v)
    BY <1>5, <1>6
  <1>10. FirstAgain(b.outgoing)
    <2>1. SUFFICES ASSUME c.first # 0
                   PROVE  \A i \in DOMAIN a.outgoing : a.outgoing[i].first # 0
      <3>1. /\ DOMAIN b.outgoing = (DOMAIN a.outgoing) \cup {Len(a.outgoing) + 1}
            /\ b.outgoing[Len(a.outgoing) + 1] = c
            /\ \A i \in DOMAIN a.outgoing : b.outgoing[i] = a.outgoing[i]
            /\ DOMAIN a.outgoing = 1 .. Len(a.outgoing) /\ Len(a.outgoing) \in Nat
        BY <1>2, <1>4
      <3> QED
        BY <1>6, <2>1, <3>1 DEF FirstAgain
    <2>2. \A i \in DOMAIN w : w[i].first # 0
      <3>1. /\ v[Len(w) + 1] = c /\ Len(w) + 1 \in DOMAIN v
            /\ \A i \in DOMAIN w : i \in DOMAIN v /\ i < Len(w) + 1 /\ v[i] = w[i]
        BY DEF v
      <3>2. FirstAgain(v)
        BY DEF v
      <3> QED
        BY <2>1, <3>1, <3>2 DEF FirstAgain
    <2>3. 0 \notin FirstsOf(w)
      BY <2>2 DEF FirstsOf
    <2>4. 0 \notin FirstsOf(a.outgoing)
      BY <1>6, <2>3
    <2> QED
      BY <2>4 DEF FirstsOf
  <1>11. FirstsOf(p.sent) \cup FirstsOf(v) \subseteq Firsts(b) \cup {0}
    BY <1>3, <1>5, <1>6 DEF Firsts
  <1>12. ASSUME NEW q \in Nat
         PROVE  Refers(b, q) = Holding(p.sent, q) + Holding(v, q)
    <2>1. Holding(b.outgoing, q)
             = Holding(a.outgoing, q) + (IF c.packet = q THEN 1 ELSE 0)
      BY <1>1, <1>2, <1>4, HoldingSteps
    <2>2. Holding(v, q) = Holding(w, q) + (IF c.packet = q THEN 1 ELSE 0)
      BY <1>1, HoldingSteps DEF v
    <2>3. /\ Holding(w, q) \in Nat /\ Holding(a.outgoing, q) \in Nat
          /\ Holding(a.sent, q) \in Nat /\ Holding(p.sent, q) \in Nat
      BY <1>4, HoldingSteps, PeerFields
    <2>4. Holding(a.sent, q) + Holding(a.outgoing, q)
             = Holding(p.sent, q) + Holding(w, q)
      BY <1>6 DEF Refers
    <2>5. Holding(b.sent, q) = Holding(a.sent, q)
      BY <1>3
    <2>6. CASE c.packet = q
      <3>1. /\ Holding(b.outgoing, q) = Holding(a.outgoing, q) + 1
            /\ Holding(v, q) = Holding(w, q) + 1
        BY <2>1, <2>2, <2>6
      <3>2. Holding(p.sent, q) + (Holding(w, q) + 1)
               = Holding(p.sent, q) + Holding(w, q) + 1
        BY <2>3
      <3> QED
        BY <2>3, <2>4, <2>5, <3>1, <3>2 DEF Refers
    <2>7. CASE c.packet # q
      BY <2>1, <2>2, <2>3, <2>4, <2>5, <2>7 DEF Refers
    <2> QED
      BY <2>6, <2>7
  <1>13. b.sent # <<>>
    <2>1. CASE d.exceeded
      BY <1>3, <1>6, <2>1
    <2>2. CASE d.peer.inTransit + c.length > Room(d.peer)
      <3>1. Room(a) \in Int /\ Room(a) >= Mtu
        BY <1>1, RoomIsEnough
      <3>5. Mtu \in Int /\ c.length \in Int /\ c.length <= Mtu
        <4>1. c.length \in 0 .. Mtu
          BY <1>1, OutgoingFields
        <4>2. Mtu \in Nat
          BY Constants
        <4> QED
          BY <4>1, <4>2
      <3>6. a.inTransit \in Int
        BY <1>1, PeerFields
      <3>2. a.inTransit + c.length > Room(a)
        BY <2>2 DEF a
      <3>3. a.inTransit > 0
        BY <3>1, <3>2, <3>5, <3>6
      <3>4. a.inTransit = Length(a.sent)
        BY <1>6 DEF Counted
      <3> QED
        BY <1>3, <3>3, <3>4, LengthSteps
    <2> QED
      BY <2>1, <2>2
  <1> QED
    BY <1>3, <1>6, <1>7, <1>8, <1>9, <1>10, <1>11, <1>12, <1>13 DEF PassFits, b, v

\* The step that sends one.
LEMMA SentFits ==
    ASSUME now \in Times, NEW n \in Nat, NEW k \in Nat, NEW p \in PeerType,
           NEW d \in Passing, NEW w \in Seq(Outgoing),
           NEW c \in QueuedCommands(now, n, k),
           PassFits(p, w, d, n, k),
           NEW e \in Passing,
           e.peer = Transmitted(d.peer, c)
    PROVE  PassFits(p, Append(w, c), e, n, k)
  <1> DEFINE a == d.peer
             b == e.peer
             v == Append(w, c)
             x == SentAs(d.peer, c)
  <1>1. a \in PeerType /\ c \in Outgoing /\ b \in PeerType
    BY ListTypes DEF Passing
  <1>2. /\ b.sent = Append(a.sent, x)
        /\ b.inTransit = a.inTransit + c.length
        /\ b.nextTimeout = IF a.sent = <<>> THEN Expiry(x) ELSE a.nextTimeout
        /\ b.outgoing = a.outgoing /\ b.unreliable = a.unreliable
        /\ b.earliestTimeout = a.earliestTimeout
    <2>1. PICK g : g = a
      OBVIOUS
    <2>2. PICK h : h = b
      OBVIOUS
    <2>3. g \in PeerType /\ h = Transmitted(g, c)
      BY <1>1, <2>1, <2>2
    <2> HIDE DEF a, b, x
    <2>4. /\ h.sent = Append(g.sent, SentAs(g, c))
          /\ h.inTransit = g.inTransit + c.length
          /\ h.nextTimeout = IF g.sent = <<>> THEN Expiry(SentAs(g, c))
                              ELSE g.nextTimeout
          /\ h.outgoing = g.outgoing /\ h.unreliable = g.unreliable
          /\ h.earliestTimeout = g.earliestTimeout
      BY <2>3, TransmittedIs
    <2> QED
      BY <2>1, <2>2, <2>4 DEF a, x
  <1>3. /\ x \in SentCommands(now, n, k) /\ x.packet = c.packet
        /\ x.length = c.length /\ (c.first # 0 => x.first = c.first)
    BY <1>1, SentAsFits
  <1>4. x \in Outgoing /\ a.outgoing \in Seq(Outgoing) /\ a.sent \in Seq(Outgoing)
    BY <1>1, <1>3, PeerFields, ListTypes
  <1>6. /\ ListsFit(a, now, n, k) /\ Counted(a) /\ Timed(a)
        /\ a.unreliable = p.unreliable /\ a.earliestTimeout = p.earliestTimeout
        /\ FirstsOf(a.outgoing) \subseteq FirstsOf(w) /\ FirstAgain(a.outgoing)
        /\ FirstsOf(p.sent) \cup FirstsOf(w) \subseteq Firsts(a) \cup {0}
        /\ \A q \in Nat : Refers(a, q) = Holding(p.sent, q) + Holding(w, q)
    BY DEF PassFits
  <1> HIDE DEF a, b, v, x
  <1>5. /\ FirstsOf(b.sent) = FirstsOf(a.sent) \cup {x.first}
        /\ FirstsOf(v) = FirstsOf(w) \cup {c.first}
    BY <1>1, <1>2, <1>4, FirstsOfSteps DEF v
  <1>7. ListsFit(b, now, n, k)
    <2>1. a.sent \in Seq(SentCommands(now, n, k))
      BY <1>6 DEF ListsFit
    <2>2. Append(a.sent, x) \in Seq(SentCommands(now, n, k))
      BY <1>3, <2>1
    <2> QED
      BY <1>2, <1>6, <2>2 DEF ListsFit
  <1>8. Counted(b)
    <2>1. Length(b.sent) = Length(a.sent) + x.length
      BY <1>2, <1>4, LengthSteps
    <2> QED
      BY <1>2, <1>3, <1>6, <2>1 DEF Counted
  <1>9. Timed(b)
    <2>1. CASE a.sent = <<>>
      <3>1. b.sent = <<x>> /\ Head(b.sent) = x
        BY <1>2, <2>1
      <3> QED
        BY <1>2, <2>1, <3>1 DEF Timed
    <2>2. CASE a.sent # <<>>
      <3>1. Head(b.sent) = Head(a.sent)
        BY <1>2, <1>4, <2>2
      <3> QED
        BY <1>2, <1>6, <2>2, <3>1 DEF Timed
    <2> QED
      BY <2>1, <2>2
  <1>10. FirstsOf(b.outgoing) \subseteq FirstsOf(v)
    BY <1>2, <1>5, <1>6
  <1>11. FirstsOf(p.sent) \cup FirstsOf(v) \subseteq Firsts(b) \cup {0}
    BY <1>2, <1>3, <1>5, <1>6 DEF Firsts
  <1>12. ASSUME NEW q \in Nat
         PROVE  Refers(b, q) = Holding(p.sent, q) + Holding(v, q)
    <2>a. Holding(Append(a.sent, x), q)
             = Holding(a.sent, q) + (IF x.packet = q THEN 1 ELSE 0)
      BY <1>4, HoldingSteps
    <2>1. Holding(b.sent, q) = Holding(a.sent, q) + (IF c.packet = q THEN 1 ELSE 0)
      BY <1>2, <1>3, <2>a
    <2>2. Holding(v, q) = Holding(w, q) + (IF c.packet = q THEN 1 ELSE 0)
      BY <1>1, HoldingSteps DEF v
    <2>3. /\ Holding(w, q) \in Nat /\ Holding(a.outgoing, q) \in Nat
          /\ Holding(a.sent, q) \in Nat /\ Holding(p.sent, q) \in Nat
      BY <1>4, HoldingSteps, PeerFields
    <2>4. Holding(a.sent, q) + Holding(a.outgoing, q)
             = Holding(p.sent, q) + Holding(w, q)
      BY <1>6 DEF Refers
    <2>5. Holding(b.outgoing, q) = Holding(a.outgoing, q)
      BY <1>2
    <2>6. CASE c.packet = q
      <3>1. /\ Holding(b.sent, q) = Holding(a.sent, q) + 1
            /\ Holding(v, q) = Holding(w, q) + 1
        BY <2>1, <2>2, <2>6
      <3>2. Holding(p.sent, q) + (Holding(w, q) + 1)
               = Holding(p.sent, q) + Holding(w, q) + 1
        BY <2>3
      <3> QED
        BY <2>3, <2>4, <2>5, <3>1, <3>2 DEF Refers
    <2>7. CASE c.packet # q
      BY <2>1, <2>2, <2>3, <2>4, <2>5, <2>7 DEF Refers
    <2> QED
      BY <2>6, <2>7
  <1>13. b.sent # <<>>
    <2>1. Len(b.sent) = Len(a.sent) + 1 /\ Len(a.sent) \in Nat
      BY <1>2, <1>4
    <2>2. Len(b.sent) # 0
      BY <2>1
    <2> QED
      BY <2>2
  <1> QED
    BY <1>2, <1>6, <1>7, <1>8, <1>9, <1>10, <1>11, <1>12, <1>13 DEF PassFits, b, v

\* Sending what the window has room for.
LEMMA SendReliableFits ==
    ASSUME now \in Times, NEW n \in Nat, NEW k \in Nat, NEW p, Fits(p, now, n, k)
    PROVE  LET q == SendReliable(p)
           IN  /\ Fits(q, now, n, k)
               /\ q.unreliable = p.unreliable
               /\ \A x \in Nat : Refers(q, x) = Refers(p, x)
               /\ q.outgoing # <<>> => q.sent # <<>>
  <1>1. /\ p \in PeerType /\ ListsFit(p, now, n, k) /\ Counted(p) /\ Timed(p)
        /\ FirstAgain(p.outgoing) /\ EarliestFits(p, now, p.earliestTimeout)
    BY DEF Fits
  <1>2. /\ p.outgoing \in Seq(QueuedCommands(now, n, k))
        /\ p.outgoing \in Seq(Outgoing) /\ p.sent \in Seq(Outgoing)
    BY <1>1, PeerFields DEF ListsFit
  <1>3. PICK f \in [0 .. Len(p.outgoing) -> Passing] :
           /\ f[0] = [peer |-> [p EXCEPT !.outgoing = <<>>], exceeded |-> FALSE]
           /\ \A i \in 1 .. Len(p.outgoing) :
                 f[i] = SendNext(f[i - 1], p.outgoing[i])
           /\ SendReliable(p) = f[Len(p.outgoing)].peer
    BY <1>1, <1>2, SendReliableLoop
  <1> DEFINE m == Len(p.outgoing)
             W(i) == SubSeq(p.outgoing, 1, i)
             T == {i \in 0 .. m : PassFits(p, W(i), f[i], n, k)}
  <1>4. m \in Nat
    BY <1>2
  <1>5. 0 \in T
    <2> DEFINE d == f[0]
               a == d.peer
    <2>0. d = [peer |-> [p EXCEPT !.outgoing = <<>>], exceeded |-> FALSE]
      BY <1>3
    <2>1. W(0) = <<>>
      BY <1>2
    <2>2. a = [p EXCEPT !.outgoing = <<>>] /\ d.exceeded = FALSE
      BY <2>0
    <2>3. /\ a.outgoing = <<>> /\ a.sent = p.sent /\ a.unreliable = p.unreliable
          /\ a.inTransit = p.inTransit /\ a.nextTimeout = p.nextTimeout
          /\ a.earliestTimeout = p.earliestTimeout
      BY ONLY <1>1, <2>2 DEF PeerType
    <2> HIDE DEF d, a
    <2>4. ListsFit(a, now, n, k)
      <3>1. <<>> \in Seq(QueuedCommands(now, n, k))
        OBVIOUS
      <3> QED
        BY <1>1, <2>3, <3>1 DEF ListsFit
    <2>5. Counted(a) /\ Timed(a)
      BY <1>1, <2>3 DEF Counted, Timed
    <2>6. FirstsOf(<<>>) = {}
      BY FirstsOfSteps
    <2>7. FirstAgain(a.outgoing)
      BY <2>3 DEF FirstAgain
    <2>8. FirstsOf(p.sent) \subseteq Firsts(a)
      BY <2>3 DEF Firsts
    <2>9. ASSUME NEW x \in Nat
          PROVE  Refers(a, x) = Holding(p.sent, x) + Holding(<<>>, x)
      BY <2>3 DEF Refers
    <2>10. PassFits(p, <<>>, d, n, k)
      BY <2>2, <2>3, <2>4, <2>5, <2>6, <2>7, <2>8, <2>9 DEF PassFits, a
    <2>11. PassFits(p, W(0), f[0], n, k)
      BY <2>1, <2>10 DEF d
    <2> HIDE DEF W
    <2> QED
      BY <1>4, <2>11
  <1>6. ASSUME NEW i \in 1 .. m, i - 1 \in T PROVE i \in T
    <2> DEFINE d == f[i - 1]
               e == f[i]
               w == W(i - 1)
               c == p.outgoing[i]
    <2>1. i - 1 \in 0 .. m /\ i \in 0 .. m
      BY <1>4
    <2>2. d \in Passing /\ e \in Passing /\ e = SendNext(d, c)
      BY <1>3, <2>1
    <2>3. c \in QueuedCommands(now, n, k) /\ c \in Outgoing
      BY <1>2
    <2>4. w \in Seq(Outgoing) /\ W(i) = Append(w, c)
      BY <1>2, <2>1
    <2>5. PassFits(p, w, d, n, k)
      BY <1>6
    <2>6. FirstAgain(W(i))
      BY <1>1, <1>2 DEF FirstAgain
    <2> HIDE DEF d, e, w, c, W, T
    <2>7. /\ \/ /\ e.peer = [d.peer EXCEPT !.outgoing = Append(@, c)]
                /\ d.exceeded \/ d.peer.inTransit + c.length > Room(d.peer)
             \/ e.peer = Transmitted(d.peer, c)
      BY <2>2, <2>3, SendNextIs
    <2>8. PassFits(p, Append(w, c), e, n, k)
      <3>1. CASE /\ e.peer = [d.peer EXCEPT !.outgoing = Append(@, c)]
                 /\ d.exceeded \/ d.peer.inTransit + c.length > Room(d.peer)
        <4>1. FirstAgain(Append(w, c))
          BY <2>4, <2>6
        <4> QED
          BY <1>1, <2>2, <2>3, <2>4, <2>5, <3>1, <4>1, KeptFits
      <3>2. CASE e.peer = Transmitted(d.peer, c)
        BY <1>1, <2>2, <2>3, <2>4, <2>5, <3>2, SentFits
      <3> QED
        BY <2>7, <3>1, <3>2
    <2> QED
      BY <2>1, <2>4, <2>8 DEF T, e
  <1>7. PassFits(p, p.outgoing, f[m], n, k)
    <2> HIDE DEF T
    <2>1. \A i \in 0 .. m : i \in T
      BY ONLY <1>4, <1>5, <1>6, Stepwise
    <2>2. PassFits(p, W(m), f[m], n, k)
      BY <1>4, <2>1 DEF T
    <2>3. W(m) = p.outgoing
      BY <1>2
    <2> QED
      BY <2>2, <2>3
  <1> DEFINE q == SendReliable(p)
  <1>8. q = f[m].peer /\ q \in PeerType
    <2>1. f[m] \in Passing
      BY <1>3, <1>4
    <2> QED
      BY <1>3, <2>1 DEF Passing
  <1> HIDE DEF q, m, T, W
  <1>9. /\ ListsFit(q, now, n, k) /\ Counted(q) /\ Timed(q)
        /\ q.unreliable = p.unreliable /\ q.earliestTimeout = p.earliestTimeout
        /\ FirstAgain(q.outgoing)
        /\ Firsts(p) \subseteq Firsts(q) \cup {0}
        /\ \A x \in Nat : Refers(q, x) = Refers(p, x)
        /\ q.outgoing # <<>> => q.sent # <<>>
    BY <1>7, <1>8 DEF PassFits, Firsts, Refers
  <1>10. EarliestFits(q, now, q.earliestTimeout)
    BY <1>1, <1>9 DEF EarliestFits
  <1>11. Fits(q, now, n, k)
    BY <1>8, <1>9, <1>10 DEF Fits
  <1> QED
    BY <1>9, <1>11 DEF q

\* A list is one of what is in it.
LEMMA RangeOf ==
    ASSUME NEW S, NEW s \in Seq(S)
    PROVE  s \in Seq(Range(s)) /\ Range(s) \in SUBSET S
  <1>1. /\ Len(s) \in Nat /\ DOMAIN s = 1 .. Len(s)
        /\ s = [i \in 1 .. Len(s) |-> s[i]]
        /\ \A i \in 1 .. Len(s) : s[i] \in S /\ s[i] \in Range(s)
    BY DEF Range
  <1>2. s \in [1 .. Len(s) -> Range(s)]
    BY <1>1
  <1>3. s \in Seq(Range(s))
    BY <1>1, <1>2
  <1> QED
    BY <1>1, <1>3 DEF Range

\* The timers go through what has expired.
LEMMA EarliestLoop ==
    ASSUME peer \in PeerType, NEW s \in Seq(Outgoing)
    PROVE  \E f \in [0 .. Len(s) -> Ticks] :
              /\ f[0] = peer.earliestTimeout
              /\ \A i \in 1 .. Len(s) : f[i] = Earliest(f[i - 1], s[i])
              /\ \A i \in 0 .. Len(s) : EarliestBy(s, i) = f[i]
  <1> DEFINE n == Len(s)
             v0 == peer.earliestTimeout
             Step(i, v) == Earliest(v, s[i])
             P(f) == f = [i \in 0 .. n |-> IF i = 0 THEN v0 ELSE Step(i, f[i - 1])]
             g == [i \in 1 .. n |-> [v \in Ticks |-> Step(i, v)]]
  <1>1. n \in Nat /\ v0 \in Ticks
    BY PeerFields
  <1>d. \A i \in 1 .. n : s[i].sentTime \in Ticks
    BY OutgoingFields
  <1>e. \A i \in 1 .. n : \A v \in Ticks : Step(i, v) \in Ticks
    BY <1>d DEF Earliest
  <1>2. \A i : EarliestBy(s, i) = (CHOOSE f : P(f))[i]
    BY DEF EarliestBy
  <1> HIDE DEF n, v0, Step
  <1>3. \A i \in 1 .. n : \A v \in Ticks : g[i][v] = Step(i, v)
    OBVIOUS
  <1>4. g \in [1 .. n -> [Ticks -> Ticks]]
    BY <1>e
  <1> HIDE DEF g
  <1>b. g \in Steps(n, Ticks)
    BY <1>4 DEF Steps
  <1>c. \E f : Runs(f, n, Ticks, v0, g)
    BY ONLY <1>1, <1>b, Loop
  <1>5. PICK f \in [0 .. n -> Ticks] :
           f[0] = v0 /\ \A i \in 1 .. n : f[i] = g[i][f[i - 1]]
    BY <1>c DEF Runs
  <1>6. \A i \in 1 .. n : f[i - 1] \in Ticks /\ f[i] = Step(i, f[i - 1])
    BY <1>1, <1>3, <1>5
  <1>7. P(f)
    <2>1. f = [i \in 0 .. n |-> f[i]]
      BY <1>5
    <2>2. \A i \in 0 .. n : f[i] = IF i = 0 THEN v0 ELSE Step(i, f[i - 1])
      BY <1>1, <1>5, <1>6
    <2> QED
      BY <2>1, <2>2
  <1>8. PICK h : h = (CHOOSE ff : P(ff))
    OBVIOUS
  <1>9. P(h)
    BY <1>7, <1>8
  <1>10. h[0] = v0 /\ \A i \in 1 .. n : h[i] = Step(i, h[i - 1])
    BY <1>1, <1>9
  <1>11. \A i \in 0 .. n : h[i] \in Ticks
    <2> DEFINE T == {i \in 0 .. n : h[i] \in Ticks}
    <2>1. 0 \in T
      BY <1>1, <1>10
    <2>2. ASSUME NEW i \in 1 .. n, i - 1 \in T PROVE i \in T
      BY <1>1, <1>e, <1>10, <2>2
    <2> HIDE DEF T
    <2>3. \A i \in 0 .. n : i \in T
      BY ONLY <1>1, <2>1, <2>2, Stepwise
    <2> QED
      BY <2>3 DEF T
  <1>12. h = [i \in 0 .. n |-> h[i]]
    BY <1>9
  <1>13. h \in [0 .. n -> Ticks] /\ \A i \in 0 .. n : EarliestBy(s, i) = h[i]
    BY <1>2, <1>8, <1>11, <1>12
  <1> QED
    BY <1>10, <1>13 DEF n, v0, Step

\* The earliest timeout is right at each of them.
LEMMA EarliestByFits ==
    ASSUME now \in Times, NEW n \in Nat, NEW k \in Nat, peer \in PeerType,
           NEW s \in Seq(SentCommands(now, n, k)),
           FirstsOf(s) \subseteq Firsts(peer),
           EarliestFits(peer, now, peer.earliestTimeout),
           NEW i \in 0 .. Len(s)
    PROVE  EarliestBy(s, i) \in Ticks /\ EarliestFits(peer, now, EarliestBy(s, i))
  <1>1. s \in Seq(Outgoing)
    BY ListTypes
  <1>2. PICK f \in [0 .. Len(s) -> Ticks] :
           /\ f[0] = peer.earliestTimeout
           /\ \A j \in 1 .. Len(s) : f[j] = Earliest(f[j - 1], s[j])
           /\ \A j \in 0 .. Len(s) : EarliestBy(s, j) = f[j]
    BY <1>1, EarliestLoop
  <1> DEFINE T == {j \in 0 .. Len(s) : EarliestFits(peer, now, f[j])}
  <1>3. Len(s) \in Nat
    OBVIOUS
  <1>4. 0 \in T
    BY <1>2, <1>3
  <1>5. ASSUME NEW j \in 1 .. Len(s), j - 1 \in T PROVE j \in T
    <2>1. j - 1 \in 0 .. Len(s) /\ j \in 0 .. Len(s) /\ j \in DOMAIN s
      OBVIOUS
    <2>2. s[j] \in SentCommands(now, n, k)
      BY <2>1
    <2>3. f[j] = f[j - 1] \/ f[j] = s[j].sentTime
      BY <1>2 DEF Earliest
    <2>4. EarliestFits(peer, now, s[j].sentTime)
      <3>1. s[j].first \in Firsts(peer)
        BY <2>1 DEF FirstsOf
      <3> QED
        BY <2>2, <3>1 DEF EarliestFits, SentCommands
    <2>5. EarliestFits(peer, now, f[j])
      BY <1>5, <2>3, <2>4
    <2> QED
      BY <2>1, <2>5
  <1> HIDE DEF T
  <1>6. \A j \in 0 .. Len(s) : j \in T
    BY ONLY <1>3, <1>4, <1>5, Stepwise
  <1> QED
    BY <1>2, <1>6 DEF T

\* What has expired, and the rest.
LEMMA ExpiredParts ==
    ASSUME NEW n, NEW k, NEW s \in Seq(SentCommands(now, n, k))
    PROVE  LET e == ExpiredOf(s)
               r == RestOf(s)
           IN  /\ e \in Seq(SentCommands(now, n, k))
               /\ r \in Seq(SentCommands(now, n, k))
               /\ Length(e) + Length(r) = Length(s)
               /\ \A x : Holding(e, x) + Holding(r, x) = Holding(s, x)
               /\ FirstsOf(e) \subseteq FirstsOf(s)
               /\ FirstsOf(s) \subseteq FirstsOf(e) \cup FirstsOf(r)
               /\ s # <<>> /\ ~ Expired(Head(s)) => r # <<>> /\ Head(r) = Head(s)
  <1> DEFINE A == {c \in Range(s) : Expired(c)}
             B == {c \in Range(s) : ~ Expired(c)}
             S == Range(s)
             e == Those(s, A)
             r == Those(s, B)
  <1>1. s \in Seq(S) /\ S \in SUBSET SentCommands(now, n, k) /\ S \in SUBSET Outgoing
    BY RangeOf, ListTypes
  <1>2. s \in Seq(Outgoing)
    BY ListTypes
  <1>3. \A c \in S : c \in A <=> c \notin B
    OBVIOUS
  <1>0. s # <<>> => Head(s) \in S
    BY <1>1
  <1>f. \A j \in DOMAIN s : s[j] \in A \/ s[j] \in B
    BY DEF Range
  <1>g. \A c \in S : \E j \in DOMAIN s : c = s[j]
    BY DEF Range
  <1> HIDE DEF S
  <1>a. s # <<>> /\ ~ Expired(Head(s)) => Head(s) \in B
    BY <1>0 DEF S
  <1> HIDE DEF A, B
  <1>4. e \in Seq(S \cap A) /\ r \in Seq(S \cap B)
    BY <1>1, ThoseIn
  <1>5. e \in Seq(SentCommands(now, n, k)) /\ r \in Seq(SentCommands(now, n, k))
    BY <1>1, <1>4
  <1>6. Length(e) + Length(r) = Length(s)
    BY <1>1, <1>3, LengthParts
  <1>7. ASSUME NEW x PROVE Holding(e, x) + Holding(r, x) = Holding(s, x)
    BY <1>1, <1>3, HoldingParts
  <1>8. FirstsOf(e) \subseteq FirstsOf(s)
    <2>1. \A j \in DOMAIN e : e[j] \in S
      BY <1>4
    <2> QED
      BY <1>g, <2>1 DEF FirstsOf
  <1>9. FirstsOf(s) \subseteq FirstsOf(e) \cup FirstsOf(r)
    <2>1. ASSUME NEW j \in DOMAIN s PROVE s[j].first \in FirstsOf(e) \cup FirstsOf(r)
      <3>1. CASE s[j] \in A
        <4>1. \E i \in DOMAIN e : e[i] = s[j]
          BY <1>2, <3>1, ThoseAll
        <4> QED
          BY <4>1 DEF FirstsOf
      <3>2. CASE s[j] \in B
        <4>1. \E i \in DOMAIN r : r[i] = s[j]
          BY <1>2, <3>2, ThoseAll
        <4> QED
          BY <4>1 DEF FirstsOf
      <3> QED
        BY <1>f, <3>1, <3>2
    <2> QED
      BY <2>1 DEF FirstsOf
  <1>10. s # <<>> /\ ~ Expired(Head(s)) => r # <<>> /\ Head(r) = Head(s)
    BY <1>2, <1>a, ThoseHead
  <1> HIDE DEF e, r
  <1>11. ExpiredOf(s) = e /\ RestOf(s) = r
    BY DEF ExpiredOf, RestOf, e, r, A, B
  <1> QED
    BY <1>5, <1>6, <1>7, <1>8, <1>9, <1>10, <1>11

\* The expired commands as they go back to the queue.
AgainOf(s) == [i \in DOMAIN s |-> [s[i] EXCEPT !.timeout = 2 * @]]

\* They are as they were, but for their timeouts.
LEMMA AgainFits ==
    ASSUME NEW n, NEW k, now \in Nat, NEW s \in Seq(SentCommands(now, n, k))
    PROVE  LET a == AgainOf(s)
           IN  /\ a \in Seq(QueuedCommands(now, n, k))
               /\ \A i \in DOMAIN a : a[i].first # 0
               /\ FirstsOf(a) = FirstsOf(s)
               /\ \A x : Holding(a, x) = Holding(s, x)
  <1> DEFINE a == AgainOf(s)
             y(i) == [s[i] EXCEPT !.timeout = 2 * @]
  <1>1. DOMAIN s = 1 .. Len(s) /\ Len(s) \in Nat
    OBVIOUS
  <1>2. DOMAIN a = DOMAIN s /\ \A i \in DOMAIN s : a[i] = y(i)
    BY DEF AgainOf
  <1>3. ASSUME NEW i \in DOMAIN s
        PROVE  /\ y(i) \in QueuedCommands(now, n, k)
               /\ y(i).first = s[i].first /\ y(i).first # 0
               /\ y(i).packet = s[i].packet
    <2> DEFINE c == s[i]
               d == y(i)
    <2>1. c \in SentCommands(now, n, k) /\ c \in Outgoing
      BY ListTypes
    <2>2. d = [c EXCEPT !.timeout = 2 * @]
      OBVIOUS
    <2> HIDE DEF c, d
    <2>3. c.timeout \in Nat
      BY <2>1, OutgoingFields
    <2>4. 2 * c.timeout \in Nat
      BY <2>3
    <2>5. d = [c EXCEPT !.timeout = 2 * c.timeout]
      BY <2>1, <2>2 DEF Outgoing
    <2>6. /\ d \in Outgoing /\ d.first = c.first /\ d.packet = c.packet
          /\ d.number = c.number
      BY ONLY <2>1, <2>4, <2>5 DEF Outgoing
    <2>7. /\ c.first # 0 /\ c.packet <= k /\ c.number \in 1 .. n
          /\ \E t \in Start .. now : c.first <= t
      BY <2>1 DEF SentCommands
    <2>8. c.first <= now
      BY <2>1, <2>7, OutgoingFields, Constants
    <2>9. d \in QueuedCommands(now, n, k)
      BY <2>6, <2>7, <2>8 DEF QueuedCommands
    <2> QED
      BY <2>6, <2>7, <2>9 DEF c, d
  <1> HIDE DEF a, y
  <1>4. a = [i \in 1 .. Len(s) |-> a[i]]
    BY <1>1 DEF a, AgainOf
  <1>5. \A i \in 1 .. Len(s) : a[i] \in QueuedCommands(now, n, k)
    BY <1>1, <1>2, <1>3
  <1>6. a \in Seq(QueuedCommands(now, n, k))
    BY <1>1, <1>4, <1>5
  <1>7. \A i \in DOMAIN a : a[i].first # 0 /\ a[i].first = s[i].first
    BY <1>2, <1>3
  <1>8. FirstsOf(a) = FirstsOf(s)
    BY <1>2, <1>7 DEF FirstsOf
  <1>9. \A x : Holding(a, x) = Holding(s, x)
    BY <1>2, <1>3, HoldingSame
  <1> QED
    BY <1>6, <1>7, <1>8, <1>9 DEF a

\* One list after another, with what was sent before at the front.
LEMMA FirstAgainBoth ==
    ASSUME NEW s \in Seq(Outgoing), NEW t \in Seq(Outgoing),
           \A i \in DOMAIN s : s[i].first # 0, FirstAgain(t)
    PROVE  FirstAgain(s \o t)
  <1> DEFINE v == s \o t
  <1>1. /\ DOMAIN v = 1 .. Len(s) + Len(t)
        /\ \A i \in 1 .. Len(s) : v[i] = s[i]
        /\ \A i \in 1 .. Len(v) : i > Len(s) => v[i] = t[i - Len(s)]
        /\ DOMAIN s = 1 .. Len(s) /\ DOMAIN t = 1 .. Len(t)
        /\ Len(s) \in Nat /\ Len(t) \in Nat /\ Len(v) = Len(s) + Len(t)
    OBVIOUS
  <1> HIDE DEF v
  <1>2. ASSUME NEW i \in DOMAIN v, NEW j \in DOMAIN v, i < j, v[j].first # 0
        PROVE  v[i].first # 0
    <2>1. CASE i <= Len(s)
      <3>1. i \in DOMAIN s /\ v[i] = s[i]
        BY <1>1, <2>1
      <3> QED
        BY <3>1
    <2>2. CASE i > Len(s)
      <3>1. i - Len(s) \in DOMAIN t /\ j - Len(s) \in DOMAIN t
            /\ i - Len(s) < j - Len(s)
        BY <1>1, <1>2, <2>2
      <3>2. v[i] = t[i - Len(s)] /\ v[j] = t[j - Len(s)]
        BY <1>1, <1>2, <2>2
      <3>3. t[j - Len(s)].first # 0
        BY <1>2, <3>2
      <3>4. t[i - Len(s)].first # 0
        BY <3>1, <3>3 DEF FirstAgain
      <3> QED
        BY <3>2, <3>4
    <2> QED
      BY <1>1, <2>1, <2>2
  <1> QED
    BY <1>2 DEF FirstAgain, v

\* The timers.
LEMMA CheckTimeoutsFits ==
    ASSUME now \in Times, NEW n \in Nat, NEW k \in Nat, Fits(peer, now, n, k)
    PROVE  LET q == CheckTimeouts
           IN  /\ Fits(q, now, n, k)
               /\ q.unreliable = peer.unreliable
               /\ \A x \in Nat : Refers(q, x) = Refers(peer, x)
  <1> DEFINE q == CheckTimeouts
             e == ExpiredOf(peer.sent)
             r == RestOf(peer.sent)
             a == AgainOf(e)
             next == IF Expired(Head(peer.sent)) /\ r # <<>>
                     THEN Expiry(Head(r)) ELSE peer.nextTimeout
             earliest == EarliestBy(e, Len(e))
  <1>1. /\ peer \in PeerType /\ ListsFit(peer, now, n, k) /\ Counted(peer)
        /\ Timed(peer) /\ FirstAgain(peer.outgoing)
        /\ EarliestFits(peer, now, peer.earliestTimeout)
    BY DEF Fits
  <1>2. CASE ~ Due
    <2>1. q = peer
      BY <1>2 DEF CheckTimeouts
    <2> QED
      BY <2>1
  <1>3. CASE Due
    <2>1. /\ peer.sent \in Seq(SentCommands(now, n, k))
          /\ peer.outgoing \in Seq(QueuedCommands(now, n, k))
          /\ peer.sent \in Seq(Outgoing) /\ peer.outgoing \in Seq(Outgoing)
          /\ peer.inTransit \in Int
      BY <1>1, PeerFields DEF ListsFit
    <2>2. /\ e \in Seq(SentCommands(now, n, k))
          /\ r \in Seq(SentCommands(now, n, k))
          /\ Length(e) + Length(r) = Length(peer.sent)
          /\ \A x : Holding(e, x) + Holding(r, x) = Holding(peer.sent, x)
          /\ FirstsOf(e) \subseteq FirstsOf(peer.sent)
          /\ FirstsOf(peer.sent) \subseteq FirstsOf(e) \cup FirstsOf(r)
          /\ peer.sent # <<>> /\ ~ Expired(Head(peer.sent)) =>
                r # <<>> /\ Head(r) = Head(peer.sent)
      BY <2>1, ExpiredParts
    <2>3. e \in Seq(Outgoing) /\ r \in Seq(Outgoing)
      BY <2>2, ListTypes
    <2>4. now \in Nat
      BY Constants DEF Times
    <2>5. /\ a \in Seq(QueuedCommands(now, n, k))
          /\ \A i \in DOMAIN a : a[i].first # 0
          /\ FirstsOf(a) = FirstsOf(e)
          /\ \A x : Holding(a, x) = Holding(e, x)
      BY <2>2, <2>4, AgainFits
    <2>6. a \in Seq(Outgoing)
      BY <2>5, ListTypes
    <2>7. q = [peer EXCEPT !.sent = r, !.outgoing = a \o @,
                           !.inTransit = @ - Length(e),
                           !.earliestTimeout = earliest,
                           !.nextTimeout = IF Expired(Head(peer.sent)) /\ r # <<>>
                                           THEN Expiry(Head(r)) ELSE @]
      BY <1>3 DEF CheckTimeouts, AgainOf
    <2>8. earliest \in Ticks /\ EarliestFits(peer, now, earliest)
      <3>1. Len(e) \in 0 .. Len(e)
        BY <2>3
      <3>2. FirstsOf(e) \subseteq Firsts(peer)
        BY <2>2 DEF Firsts
      <3> HIDE DEF e
      <3> QED
        BY <1>1, <2>2, <3>1, <3>2, EarliestByFits
    <2>9. next \in Ticks
      <3>1. CASE r # <<>>
        <4>1. Head(r) \in Outgoing
          BY <2>3, <3>1
        <4> QED
          BY <1>1, <4>1, ExpiryType, PeerFields
      <3>2. CASE r = <<>>
        BY <1>1, <3>2, PeerFields
      <3> QED
        BY <3>1, <3>2
    <2> HIDE DEF e, r, a, earliest, q
    <2>10. q = [peer EXCEPT !.sent = r, !.outgoing = a \o peer.outgoing,
                            !.inTransit = peer.inTransit - Length(e),
                            !.earliestTimeout = earliest, !.nextTimeout = next]
      BY <1>1, <2>7 DEF PeerType
    <2>11. Length(e) \in Nat /\ Length(r) \in Nat /\ Length(peer.sent) \in Nat
      BY <2>1, <2>3, LengthSteps
    <2>12. peer.inTransit - Length(e) \in Int
      BY <2>1, <2>11
    <2>13. a \o peer.outgoing \in Seq(Outgoing)
      BY <2>1, <2>6
    <2>n. PICK next1 : next1 = next
      OBVIOUS
    <2>m. next1 \in Ticks
      BY <2>9, <2>n
    <2>o. q = [peer EXCEPT !.sent = r, !.outgoing = a \o peer.outgoing,
                           !.inTransit = peer.inTransit - Length(e),
                           !.earliestTimeout = earliest, !.nextTimeout = next1]
      BY <2>10, <2>n
    <2>14. /\ q \in PeerType /\ q.sent = r /\ q.outgoing = a \o peer.outgoing
           /\ q.inTransit = peer.inTransit - Length(e)
           /\ q.earliestTimeout = earliest /\ q.nextTimeout = next1
           /\ q.unreliable = peer.unreliable
      BY ONLY <1>1, <2>3, <2>8, <2>m, <2>o, <2>12, <2>13 DEF PeerType
    <2>15. ListsFit(q, now, n, k)
      <3>1. a \o peer.outgoing \in Seq(QueuedCommands(now, n, k))
        BY <2>1, <2>5
      <3> QED
        BY <1>1, <2>2, <2>14, <3>1 DEF ListsFit
    <2>16. Counted(q)
      <3>1. peer.inTransit = Length(peer.sent)
        BY <1>1 DEF Counted
      <3> QED
        BY <2>2, <2>11, <2>14, <3>1 DEF Counted
    <2>17. Timed(q)
      <3>1. SUFFICES ASSUME r # <<>> PROVE q.nextTimeout = Expiry(Head(r))
        BY <2>14 DEF Timed
      <3>2. peer.sent # <<>>
        BY <1>3 DEF Due
      <3>3. CASE Expired(Head(peer.sent))
        BY <2>14, <2>n, <3>1, <3>3
      <3>4. CASE ~ Expired(Head(peer.sent))
        <4>1. Head(r) = Head(peer.sent)
          BY <2>2, <3>2, <3>4
        <4>2. q.nextTimeout = peer.nextTimeout
          BY <2>14, <2>n, <3>4
        <4> QED
          BY <1>1, <3>2, <4>1, <4>2 DEF Timed
      <3> QED
        BY <3>3, <3>4
    <2>18. FirstAgain(q.outgoing)
      BY <1>1, <2>1, <2>5, <2>6, <2>14, FirstAgainBoth
    <2>19. Firsts(peer) \subseteq Firsts(q)
      <3>1. FirstsOf(q.outgoing) = FirstsOf(a) \cup FirstsOf(peer.outgoing)
        BY <2>1, <2>6, <2>14, FirstsOfSteps
      <3> QED
        BY <2>2, <2>5, <2>14, <3>1 DEF Firsts
    <2>20. EarliestFits(q, now, q.earliestTimeout)
      BY <2>8, <2>14, <2>19 DEF EarliestFits
    <2>21. ASSUME NEW x \in Nat PROVE Refers(q, x) = Refers(peer, x)
      <3>1. Holding(q.outgoing, x) = Holding(a, x) + Holding(peer.outgoing, x)
        BY <2>1, <2>6, <2>14, HoldingBoth
      <3>2. /\ Holding(a, x) = Holding(e, x) /\ Holding(q.sent, x) = Holding(r, x)
            /\ Holding(e, x) + Holding(r, x) = Holding(peer.sent, x)
        BY <2>2, <2>5, <2>14
      <3>3. /\ Holding(e, x) \in Nat /\ Holding(r, x) \in Nat
            /\ Holding(peer.outgoing, x) \in Nat
        BY <2>1, <2>3, HoldingSteps
      <3> QED
        BY <3>1, <3>2, <3>3 DEF Refers
    <2>22. Fits(q, now, n, k)
      BY <2>14, <2>15, <2>16, <2>17, <2>18, <2>20 DEF Fits
    <2> QED
      BY <2>14, <2>21, <2>22 DEF q
  <1> QED
    BY <1>2, <1>3

\* Who is given up has been silent.
LEMMA GivesUpLate ==
    ASSUME now \in Times, NEW n \in Nat, NEW k \in Nat,
           Fits(peer, now, n, k), GivesUp
    PROVE  \E c \in Unacknowledged : c.first # 0 /\ now - c.first >= TimeoutMinimum
  <1> DEFINE e == ExpiredOf(peer.sent)
  <1>1. /\ peer \in PeerType /\ ListsFit(peer, now, n, k)
        /\ EarliestFits(peer, now, peer.earliestTimeout)
    BY DEF Fits
  <1>2. /\ peer.sent \in Seq(SentCommands(now, n, k))
        /\ peer.sent \in Seq(Outgoing) /\ peer.outgoing \in Seq(Outgoing)
    BY <1>1, PeerFields DEF ListsFit
  <1>3. /\ e \in Seq(SentCommands(now, n, k))
        /\ FirstsOf(e) \subseteq FirstsOf(peer.sent)
    BY <1>2, ExpiredParts
  <1>4. PICK i \in DOMAIN e : Hopeless(e, i)
    BY DEF GivesUp
  <1> HIDE DEF e
  <1>5. i \in 0 .. Len(e)
    BY <1>3
  <1> DEFINE earliest == EarliestBy(e, i)
             silence == Difference(serviceTime, earliest)
  <1>6. EarliestFits(peer, now, earliest)
    <2>1. FirstsOf(e) \subseteq Firsts(peer)
      BY <1>3 DEF Firsts
    <2> QED
      BY <1>1, <1>3, <1>5, <2>1, EarliestByFits
  <1>7. earliest # 0 /\ (silence >= TimeoutMaximum \/ silence >= TimeoutMinimum)
    BY <1>4 DEF Hopeless
  <1>8. PICK s \in Start .. now :
           earliest = s % Clock /\ \E f \in Firsts(peer) : f # 0 /\ f <= s
    BY <1>6, <1>7 DEF EarliestFits
  <1>9. PICK f \in Firsts(peer) : f # 0 /\ f <= s
    BY <1>8
  <1>10. now \in Nat /\ s \in Nat /\ s <= now
    BY Constants DEF Times
  <1>11. now - s >= TimeoutMinimum
    <2>1. silence = Difference(now % Clock, s % Clock)
      BY <1>8 DEF serviceTime
    <2>a. PICK z : z = Difference(now % Clock, s % Clock)
      OBVIOUS
    <2>2. z >= TimeoutMaximum \/ z >= TimeoutMinimum
      BY <1>7, <2>1, <2>a
    <2> HIDE DEF silence, earliest
    <2>3. z \in Int
      <3> DEFINE a == now % Clock
                 b == s % Clock
      <3>1. Clock \in Nat \ {0}
        BY Constants
      <3>2. a \in Int /\ b \in Int
        BY <1>10, <3>1, ModRange
      <3> HIDE DEF a, b
      <3>3. Minus(a, b) \in 0 .. Clock - 1 /\ Minus(b, a) \in 0 .. Clock - 1
        BY <3>2, DifferenceIs
      <3>4. Difference(a, b) \in Int
        BY <3>1, <3>3 DEF Difference
      <3> QED
        BY <2>a, <3>4 DEF a, b
    <2>4. z >= TimeoutMinimum
      BY <2>2, <2>3, Constants
    <2> QED
      BY <1>10, <2>4, <2>a, DifferenceAtMost, Constants
  <1>12. PICK c \in Unacknowledged : c.first = f
    <2>1. FirstsOf(Reliable) = Firsts(peer)
      BY <1>2, FirstsOfSteps DEF Reliable, Firsts
    <2> QED
      BY <1>9, <2>1 DEF FirstsOf, Unacknowledged
  <1>13. f \in Nat
    <2>1. \A i1 \in DOMAIN peer.sent : peer.sent[i1].first \in Nat
      BY <1>2, OutgoingFields
    <2>2. \A i1 \in DOMAIN peer.outgoing : peer.outgoing[i1].first \in Nat
      BY <1>2, OutgoingFields
    <2> QED
      BY <1>9, <2>1, <2>2 DEF Firsts, FirstsOf
  <1>14. TimeoutMinimum \in Nat
    BY Constants
  <1> QED
    BY <1>9, <1>10, <1>11, <1>12, <1>13, <1>14

\* The unreliable queue is emptied.
LEMMA SendUnreliableFits ==
    ASSUME NEW t, NEW n, NEW k, NEW p, Fits(p, t, n, k)
    PROVE  LET q == SendUnreliable(p)
           IN  /\ Fits(q, t, n, k)
               /\ q.unreliable = <<>> /\ q.sent = p.sent /\ q.outgoing = p.outgoing
  <1> DEFINE q == SendUnreliable(p)
             m == PacketsIn(p.unreliable)
             x == p.counter + m * ThrottleCounter
  <1>1. /\ p \in PeerType /\ ListsFit(p, t, n, k) /\ Counted(p)
        /\ Timed(p) /\ FirstAgain(p.outgoing)
        /\ EarliestFits(p, t, p.earliestTimeout)
    BY DEF Fits
  <1>2. p.unreliable \in Seq(Outgoing) /\ p.counter \in 0 .. ThrottleScale - 1
    BY <1>1, PeerFields
  <1>3. m \in Nat
    <2> DEFINE M == {i \in DOMAIN p.unreliable : p.unreliable[i].offset = 0}
    <2>1. M \subseteq 1 .. Len(p.unreliable) /\ Len(p.unreliable) \in Nat
      BY <1>2
    <2>2. IsFiniteSet(1 .. Len(p.unreliable))
      BY <2>1, FS_Interval
    <2> HIDE DEF M
    <2>3. IsFiniteSet(M)
      BY <2>1, <2>2, FS_Subset
    <2>4. Cardinality(M) \in Nat
      BY <2>3, FS_CardinalityType
    <2> QED
      BY <2>4 DEF PacketsIn, M
  <1> HIDE DEF m
  <1>4. x \in Int
    <2>1. m * ThrottleCounter \in Int
      BY <1>3, Constants
    <2> QED
      BY <1>2, <2>1, Constants
  <1> DEFINE y == x % ThrottleScale
  <1>5. y \in 0 .. ThrottleScale - 1
    <2> HIDE DEF x
    <2>1. ThrottleScale \in Nat \ {0}
      BY Constants
    <2> QED
      BY <1>4, <2>1, ModRange
  <1>6. q = [p EXCEPT !.unreliable = <<>>, !.counter = y]
    BY <1>1 DEF SendUnreliable, PeerType, m
  <1>7. <<>> \in Seq(Outgoing) /\ <<>> \in Seq(UnreliableCommands(k))
    OBVIOUS
  <1> HIDE DEF q, y
  <1>8. /\ q \in PeerType /\ q.unreliable = <<>> /\ q.sent = p.sent
        /\ q.outgoing = p.outgoing /\ q.inTransit = p.inTransit
        /\ q.nextTimeout = p.nextTimeout /\ q.earliestTimeout = p.earliestTimeout
    BY ONLY <1>1, <1>5, <1>6, <1>7 DEF PeerType
  <1>9. ListsFit(q, t, n, k) /\ Counted(q) /\ Timed(q) /\ FirstAgain(q.outgoing)
    BY <1>1, <1>7, <1>8 DEF ListsFit, Counted, Timed
  <1>10. EarliestFits(q, t, q.earliestTimeout)
    BY <1>1, <1>8 DEF EarliestFits, Firsts
  <1>11. Fits(q, t, n, k)
    BY <1>8, <1>9, <1>10 DEF Fits
  <1> QED
    BY <1>8, <1>11 DEF q

\* What an acknowledgement changes besides the lists and their timers.
Remeasured(p, time, throttle) ==
    [Measured(p, time) EXCEPT !.throttle = throttle, !.earliestTimeout = 0]

\* It leaves the lists as they are.
LEMMA MeasuredFits ==
    ASSUME NEW t, NEW n, NEW k, NEW p, Fits(p, t, n, k),
           NEW time, time \in Nat, NEW throttle, throttle \in Throttles(p.throttle),
           NEW q, q = Remeasured(p, time, throttle)
    PROVE  /\ Fits(q, t, n, k)
           /\ q.unreliable = p.unreliable /\ q.sent = p.sent
           /\ q.outgoing = p.outgoing /\ q.earliestTimeout = 0
  <1>1. /\ p \in PeerType /\ ListsFit(p, t, n, k) /\ Counted(p)
        /\ Timed(p) /\ FirstAgain(p.outgoing)
    BY DEF Fits
  <1>2. /\ p.roundTripTime \in Nat /\ p.variance \in Nat
        /\ p.throttle \in 0 .. ThrottleScale
    BY <1>1, PeerFields
  <1>3. Share \in Nat \ {0} /\ ThrottleScale \in Nat \ {0} /\ ThrottleStep \in Nat
    BY Constants
  <1> DEFINE v == p.variance
             r == p.roundTripTime
             calmer == v - v \div Share
             rtt == IF time >= r THEN r + (time - r) \div Share
                    ELSE r - (r - time) \div Share
             off == IF time >= rtt THEN time - rtt ELSE rtt - time
             variance == calmer + off \div Share
  <1>4. \A a \in Nat : a \div Share \in Nat /\ a \div Share <= a
    BY <1>3, ModAtMost
  <1>5. calmer \in Nat
    BY <1>2, <1>4
  <1>6. rtt \in Nat
    <2>1. CASE time >= r
      <3>1. time - r \in Nat
        BY <1>2, <2>1
      <3>2. (time - r) \div Share \in Nat
        BY <1>4, <3>1
      <3> QED
        BY <1>2, <2>1, <3>2
    <2>2. CASE ~ (time >= r)
      <3>1. r - time \in Nat
        BY <1>2, <2>2
      <3>2. (r - time) \div Share \in Nat /\ (r - time) \div Share <= r - time
        BY <1>4, <3>1
      <3> QED
        BY <1>2, <2>2, <3>2
    <2> QED
      BY <2>1, <2>2
  <1> HIDE DEF rtt
  <1>7. off \in Nat
    BY <1>6
  <1> HIDE DEF off
  <1>8. variance \in Nat
    <2>1. off \div Share \in Nat
      BY <1>4, <1>7
    <2> QED
      BY <1>5, <2>1
  <1>9. throttle \in 0 .. ThrottleScale
    BY <1>2, <1>3 DEF Throttles
  <1>10. Measured(p, time) = [p EXCEPT !.roundTripTime = rtt, !.variance = variance]
    BY DEF Measured, rtt, off
  <1> HIDE DEF variance
  <1>11. q = [p EXCEPT !.roundTripTime = rtt, !.variance = variance,
                       !.throttle = throttle, !.earliestTimeout = 0]
    BY <1>1, <1>10 DEF PeerType, Remeasured
  <1>12. 0 \in Ticks
    BY Constants DEF Ticks
  <1>13. /\ q \in PeerType /\ q.unreliable = p.unreliable /\ q.sent = p.sent
         /\ q.outgoing = p.outgoing /\ q.inTransit = p.inTransit
         /\ q.nextTimeout = p.nextTimeout /\ q.earliestTimeout = 0
    BY ONLY <1>1, <1>6, <1>8, <1>9, <1>11, <1>12 DEF PeerType
  <1>14. ListsFit(q, t, n, k) /\ Counted(q) /\ Timed(q) /\ FirstAgain(q.outgoing)
    BY <1>1, <1>13 DEF ListsFit, Counted, Timed
  <1>15. Fits(q, t, n, k)
    BY <1>13, <1>14 DEF Fits, EarliestFits
  <1> QED
    BY <1>13, <1>15

\* The commands with one number, and the others.
LEMMA NumberedParts ==
    ASSUME NEW S \in SUBSET Outgoing, NEW s \in Seq(S), NEW m
    PROVE  LET o == Numbered(s, m)
               r == Without(s, m)
           IN  /\ o \in Seq(S) /\ r \in Seq(S)
               /\ Length(o) + Length(r) = Length(s)
               /\ \A x : Holding(o, x) + Holding(r, x) = Holding(s, x)
               /\ FirstAgain(s) => FirstAgain(r)
  <1> DEFINE R == Range(s)
             A == {c \in R : c.number = m}
             B == {c \in R : c.number # m}
             o == Those(s, A)
             r == Those(s, B)
  <1>1. s \in Seq(R) /\ R \in SUBSET S
    BY RangeOf
  <1>2. s \in Seq(Outgoing) /\ R \in SUBSET Outgoing
    BY <1>1
  <1>3. \A c \in R : c \in A <=> c \notin B
    OBVIOUS
  <1> HIDE DEF A, B, R
  <1>4. o \in Seq(R \cap A) /\ r \in Seq(R \cap B)
    BY <1>1, <1>2, ThoseIn
  <1>5. o \in Seq(S) /\ r \in Seq(S)
    BY <1>1, <1>4
  <1>6. Length(o) + Length(r) = Length(s)
    BY <1>1, <1>2, <1>3, LengthParts
  <1>7. ASSUME NEW x PROVE Holding(o, x) + Holding(r, x) = Holding(s, x)
    BY <1>1, <1>2, <1>3, HoldingParts
  <1>8. FirstAgain(s) => FirstAgain(r)
    BY <1>2, ThoseFirst
  <1> HIDE DEF o, r
  <1>9. Numbered(s, m) = o /\ Without(s, m) = r
    BY DEF Numbered, Without, o, r, A, B, R
  <1> QED
    BY <1>5, <1>6, <1>7, <1>8, <1>9

\* The command that is acknowledged is taken out of its list.
LEMMA RemoveSentFits ==
    ASSUME NEW t, NEW n, NEW k, NEW m, NEW p, Fits(p, t, n, k),
           p.sent = peer.sent, p.outgoing = peer.outgoing, p.earliestTimeout = 0
    PROVE  LET q == RemoveSent(p, m)
           IN  /\ Fits(q, t, n, k)
               /\ q.unreliable = p.unreliable
               /\ \A x \in Nat : /\ Holding(Found(m), x) \in Nat
                                 /\ Refers(q, x) + Holding(Found(m), x)
                                       = Refers(p, x)
  <1> DEFINE q == RemoveSent(p, m)
  <1>1. /\ p \in PeerType /\ ListsFit(p, t, n, k) /\ Counted(p)
        /\ Timed(p) /\ FirstAgain(p.outgoing)
    BY DEF Fits
  <1>2. /\ p.sent \in Seq(SentCommands(t, n, k))
        /\ p.outgoing \in Seq(QueuedCommands(t, n, k))
        /\ p.sent \in Seq(Outgoing) /\ p.outgoing \in Seq(Outgoing)
        /\ p.inTransit \in Int /\ p.nextTimeout \in Ticks
    BY <1>1, PeerFields DEF ListsFit
  <1>3. /\ SentCommands(t, n, k) \in SUBSET Outgoing
        /\ QueuedCommands(t, n, k) \in SUBSET Outgoing
    BY ListTypes
  <1>4. \A s \in Seq(Outgoing) : s # <<>> => Expiry(Head(s)) \in Ticks
    <2>1. \A s \in Seq(Outgoing) : s # <<>> => Head(s) \in Outgoing
      OBVIOUS
    <2> QED
      BY <2>1, ExpiryType
  <1>5. ASSUME NEW u, u \in PeerType, ListsFit(u, t, n, k), Counted(u),
               FirstAgain(u.outgoing), u.earliestTimeout = 0,
               q = IF u.sent = <<>> THEN u
                   ELSE [u EXCEPT !.nextTimeout = Expiry(Head(u.sent))]
        PROVE  /\ Fits(q, t, n, k) /\ q.unreliable = u.unreliable
               /\ q.sent = u.sent /\ q.outgoing = u.outgoing
    <2> HIDE DEF q
    <2>1. CASE u.sent = <<>>
      <3>1. Timed(u)
        BY <2>1 DEF Timed
      <3> QED
        BY <1>5, <2>1, <3>1 DEF Fits, EarliestFits
    <2>2. CASE u.sent # <<>>
      <3>1. Expiry(Head(u.sent)) \in Ticks
        BY <1>4, <1>5, <2>2, PeerFields
      <3>2. q = [u EXCEPT !.nextTimeout = Expiry(Head(u.sent))]
        BY <1>5, <2>2
      <3>3. /\ q \in PeerType /\ q.unreliable = u.unreliable /\ q.sent = u.sent
            /\ q.outgoing = u.outgoing /\ q.inTransit = u.inTransit
            /\ q.earliestTimeout = u.earliestTimeout
            /\ q.nextTimeout = Expiry(Head(u.sent))
        BY ONLY <1>5, <3>1, <3>2 DEF PeerType
      <3>4. ListsFit(q, t, n, k) /\ Counted(q) /\ Timed(q) /\ FirstAgain(q.outgoing)
        BY <1>5, <3>3 DEF ListsFit, Counted, Timed
      <3> QED
        BY <1>5, <3>3, <3>4 DEF Fits, EarliestFits
    <2> QED
      BY <2>1, <2>2
  <1>6. CASE IsSent(m)
    <2> DEFINE o == Numbered(p.sent, m)
               r == Without(p.sent, m)
               u == [p EXCEPT !.sent = r, !.inTransit = p.inTransit - Length(o)]
    <2>1. /\ o \in Seq(SentCommands(t, n, k)) /\ r \in Seq(SentCommands(t, n, k))
          /\ Length(o) + Length(r) = Length(p.sent)
          /\ \A x : Holding(o, x) + Holding(r, x) = Holding(p.sent, x)
      <3>1. PICK S : S = SentCommands(t, n, k)
        OBVIOUS
      <3>2. S \in SUBSET Outgoing /\ p.sent \in Seq(S)
        BY <1>2, <1>3, <3>1
      <3> HIDE DEF o, r
      <3>3. /\ o \in Seq(S) /\ r \in Seq(S)
            /\ Length(o) + Length(r) = Length(p.sent)
            /\ \A x : Holding(o, x) + Holding(r, x) = Holding(p.sent, x)
        BY <3>2, NumberedParts DEF o, r
      <3> QED
        BY <3>1, <3>3
    <2>2. o \in Seq(Outgoing) /\ r \in Seq(Outgoing)
      BY <2>1, ListTypes
    <2>3. Found(m) = o
      BY <1>6 DEF Found
    <2>4. [p EXCEPT !.sent = Without(@, m), !.inTransit = @ - Length(o)] = u
      BY <1>1 DEF PeerType
    <2>5. q = IF u.sent = <<>> THEN u
              ELSE [u EXCEPT !.nextTimeout = Expiry(Head(u.sent))]
      BY <1>6, <2>4 DEF RemoveSent
    <2> HIDE DEF o, r, q
    <2>6. Length(o) \in Nat /\ Length(r) \in Nat /\ Length(p.sent) \in Nat
      BY <1>2, <2>2, LengthSteps
    <2>7. p.inTransit - Length(o) \in Int
      BY <1>2, <2>6
    <2>8. /\ u \in PeerType /\ u.unreliable = p.unreliable /\ u.sent = r
          /\ u.outgoing = p.outgoing /\ u.inTransit = p.inTransit - Length(o)
          /\ u.earliestTimeout = p.earliestTimeout
      BY ONLY <1>1, <2>2, <2>7 DEF PeerType
    <2> HIDE DEF u
    <2>9. ListsFit(u, t, n, k) /\ FirstAgain(u.outgoing)
      BY <1>1, <2>1, <2>8 DEF ListsFit
    <2>10. Counted(u)
      BY <1>1, <2>1, <2>6, <2>8 DEF Counted
    <2>11. /\ Fits(q, t, n, k) /\ q.unreliable = u.unreliable
           /\ q.sent = u.sent /\ q.outgoing = u.outgoing
      BY <1>5, <2>5, <2>8, <2>9, <2>10
    <2>12. ASSUME NEW x \in Nat
           PROVE  /\ Holding(Found(m), x) \in Nat
                  /\ Refers(q, x) + Holding(Found(m), x) = Refers(p, x)
      <3>1. /\ Holding(o, x) \in Nat /\ Holding(r, x) \in Nat
            /\ Holding(p.outgoing, x) \in Nat
        BY <1>2, <2>2, HoldingSteps
      <3>2. Holding(o, x) + Holding(r, x) = Holding(p.sent, x)
        BY <2>1
      <3> QED
        BY <2>3, <2>8, <2>11, <3>1, <3>2 DEF Refers
    <2> QED
      BY <2>8, <2>11, <2>12 DEF q
  <1>7. CASE ~ IsSent(m) /\ IsWaiting(m)
    <2> DEFINE o == Numbered(p.outgoing, m)
               r == Without(p.outgoing, m)
               u == [p EXCEPT !.outgoing = r]
    <2>1. /\ o \in Seq(QueuedCommands(t, n, k)) /\ r \in Seq(QueuedCommands(t, n, k))
          /\ \A x : Holding(o, x) + Holding(r, x) = Holding(p.outgoing, x)
          /\ FirstAgain(p.outgoing) => FirstAgain(r)
      <3>1. PICK S : S = QueuedCommands(t, n, k)
        OBVIOUS
      <3>2. S \in SUBSET Outgoing /\ p.outgoing \in Seq(S)
        BY <1>2, <1>3, <3>1
      <3> HIDE DEF o, r
      <3>3. /\ o \in Seq(S) /\ r \in Seq(S)
            /\ \A x : Holding(o, x) + Holding(r, x) = Holding(p.outgoing, x)
            /\ FirstAgain(p.outgoing) => FirstAgain(r)
        BY <3>2, NumberedParts DEF o, r
      <3> QED
        BY <3>1, <3>3
    <2>2. o \in Seq(Outgoing) /\ r \in Seq(Outgoing)
      BY <2>1, ListTypes
    <2>3. Found(m) = o
      BY <1>7 DEF Found
    <2>4. [p EXCEPT !.outgoing = Without(@, m)] = u
      BY <1>1 DEF PeerType
    <2>5. q = IF u.sent = <<>> THEN u
              ELSE [u EXCEPT !.nextTimeout = Expiry(Head(u.sent))]
      BY <1>7, <2>4 DEF RemoveSent
    <2> HIDE DEF o, r, q
    <2>8. /\ u \in PeerType /\ u.unreliable = p.unreliable /\ u.sent = p.sent
          /\ u.outgoing = r /\ u.inTransit = p.inTransit
          /\ u.earliestTimeout = p.earliestTimeout
      BY ONLY <1>1, <2>2 DEF PeerType
    <2> HIDE DEF u
    <2>9. ListsFit(u, t, n, k) /\ FirstAgain(u.outgoing)
      BY <1>1, <2>1, <2>8 DEF ListsFit
    <2>10. Counted(u)
      BY <1>1, <2>8 DEF Counted
    <2>11. /\ Fits(q, t, n, k) /\ q.unreliable = u.unreliable
           /\ q.sent = u.sent /\ q.outgoing = u.outgoing
      BY <1>5, <2>5, <2>8, <2>9, <2>10
    <2>12. ASSUME NEW x \in Nat
           PROVE  /\ Holding(Found(m), x) \in Nat
                  /\ Refers(q, x) + Holding(Found(m), x) = Refers(p, x)
      <3>1. /\ Holding(o, x) \in Nat /\ Holding(r, x) \in Nat
            /\ Holding(p.sent, x) \in Nat
        BY <1>2, <2>2, HoldingSteps
      <3>2. Holding(o, x) + Holding(r, x) = Holding(p.outgoing, x)
        BY <2>1
      <3> QED
        BY <2>3, <2>8, <2>11, <3>1, <3>2 DEF Refers
    <2> QED
      BY <2>8, <2>11, <2>12 DEF q
  <1>8. CASE ~ IsSent(m) /\ ~ IsWaiting(m)
    <2>1. q = p
      BY <1>8 DEF RemoveSent
    <2>2. Found(m) = Numbered(<<>>, m)
      BY <1>8 DEF Found
    <2>3. Numbered(<<>>, m) = <<>>
      BY ThoseSteps DEF Numbered
    <2>4. ASSUME NEW x \in Nat
          PROVE  /\ Holding(Found(m), x) \in Nat
                 /\ Refers(q, x) + Holding(Found(m), x) = Refers(p, x)
      <3>1. Holding(Found(m), x) = 0
        BY <2>2, <2>3, HoldingSteps
      <3>2. Holding(p.sent, x) \in Nat /\ Holding(p.outgoing, x) \in Nat
        BY <1>2, HoldingSteps
      <3> HIDE DEF q
      <3> QED
        BY <2>1, <3>1, <3>2 DEF Refers
    <2> QED
      BY <2>1, <2>4
  <1> QED
    BY <1>6, <1>7, <1>8

\* What fits stays so.
LEMMA FitsLater ==
    ASSUME NEW t \in Nat, NEW n \in Nat, NEW k \in Nat,
           NEW u \in Nat, NEW m \in Nat, NEW l \in Nat, t <= u, n <= m, k <= l,
           NEW p, Fits(p, t, n, k)
    PROVE  Fits(p, u, m, l)
  <1>1. /\ p \in PeerType /\ ListsFit(p, t, n, k) /\ Counted(p)
        /\ Timed(p) /\ FirstAgain(p.outgoing)
        /\ EarliestFits(p, t, p.earliestTimeout)
    BY DEF Fits
  <1>2. \A s \in Start .. t : s \in Start .. u
    BY Constants
  <1>3. SentCommands(t, n, k) \subseteq SentCommands(u, m, l)
    BY <1>2, OutgoingFields DEF SentCommands
  <1>4. QueuedCommands(t, n, k) \subseteq QueuedCommands(u, m, l)
    BY OutgoingFields DEF QueuedCommands
  <1>5. UnreliableCommands(k) \subseteq UnreliableCommands(l)
    BY OutgoingFields DEF UnreliableCommands
  <1>6. \A S, T : S \subseteq T => Seq(S) \subseteq Seq(T)
    OBVIOUS
  <1>7. ListsFit(p, u, m, l)
    BY <1>1, <1>3, <1>4, <1>5, <1>6 DEF ListsFit
  <1>8. EarliestFits(p, u, p.earliestTimeout)
    BY <1>1, <1>2 DEF EarliestFits
  <1> QED
    BY <1>1, <1>7, <1>8 DEF Fits

\* What was never sent may come behind anything.
LEMMA FirstAgainFresh ==
    ASSUME NEW s \in Seq(Outgoing), NEW t \in Seq(Outgoing),
           \A i \in DOMAIN t : t[i].first = 0, FirstAgain(s)
    PROVE  FirstAgain(s \o t)
  <1> DEFINE v == s \o t
  <1>1. /\ DOMAIN v = 1 .. Len(s) + Len(t)
        /\ \A i \in 1 .. Len(s) : v[i] = s[i]
        /\ \A i \in 1 .. Len(v) : i > Len(s) => v[i] = t[i - Len(s)]
        /\ DOMAIN s = 1 .. Len(s) /\ DOMAIN t = 1 .. Len(t)
        /\ Len(s) \in Nat /\ Len(t) \in Nat /\ Len(v) = Len(s) + Len(t)
    OBVIOUS
  <1> HIDE DEF v
  <1>2. ASSUME NEW i \in DOMAIN v, NEW j \in DOMAIN v, i < j, v[j].first # 0
        PROVE  v[i].first # 0
    <2>1. j <= Len(s)
      <3>1. SUFFICES ASSUME j > Len(s) PROVE FALSE
        BY <1>1
      <3>2. j - Len(s) \in DOMAIN t /\ v[j] = t[j - Len(s)]
        BY <1>1, <3>1
      <3> QED
        BY <1>2, <3>2
    <2>2. i \in DOMAIN s /\ j \in DOMAIN s /\ v[i] = s[i] /\ v[j] = s[j]
      BY <1>1, <1>2, <2>1
    <2> QED
      BY <1>2, <2>2 DEF FirstAgain
  <1> QED
    BY <1>2 DEF FirstAgain, v

\* New commands behind the others.
Enqueued(p, s) == [p EXCEPT !.outgoing = @ \o s]

\* The peer that has them.
LEMMA QueueFits ==
    ASSUME NEW t, NEW n, NEW k, NEW p, Fits(p, t, n, k),
           NEW s \in Seq(QueuedCommands(t, n, k)),
           \A i \in DOMAIN s : s[i].first = 0,
           NEW q, q = Enqueued(p, s)
    PROVE  /\ Fits(q, t, n, k)
           /\ q.unreliable = p.unreliable
           /\ \A x \in Nat : Refers(q, x) = Refers(p, x) + Holding(s, x)
  <1> DEFINE v == p.outgoing \o s
  <1>1. /\ p \in PeerType /\ ListsFit(p, t, n, k) /\ Counted(p)
        /\ Timed(p) /\ FirstAgain(p.outgoing)
        /\ EarliestFits(p, t, p.earliestTimeout)
    BY DEF Fits
  <1>2. /\ p.outgoing \in Seq(QueuedCommands(t, n, k))
        /\ p.outgoing \in Seq(Outgoing) /\ p.sent \in Seq(Outgoing)
        /\ s \in Seq(Outgoing)
    BY <1>1, PeerFields, ListTypes DEF ListsFit
  <1>3. v \in Seq(QueuedCommands(t, n, k)) /\ v \in Seq(Outgoing)
    BY <1>2
  <1>4. FirstAgain(v)
    BY <1>1, <1>2, FirstAgainFresh
  <1>5. FirstsOf(v) = FirstsOf(p.outgoing) \cup FirstsOf(s)
    BY <1>2, FirstsOfSteps
  <1>6. ASSUME NEW x \in Nat
        PROVE  Holding(v, x) = Holding(p.outgoing, x) + Holding(s, x)
    BY <1>2, HoldingBoth
  <1>7. q = [p EXCEPT !.outgoing = v]
    BY <1>1 DEF PeerType, Enqueued
  <1> HIDE DEF v
  <1>8. /\ q \in PeerType /\ q.outgoing = v /\ q.sent = p.sent
        /\ q.unreliable = p.unreliable /\ q.inTransit = p.inTransit
        /\ q.nextTimeout = p.nextTimeout /\ q.earliestTimeout = p.earliestTimeout
    BY ONLY <1>1, <1>3, <1>7 DEF PeerType
  <1>9. ListsFit(q, t, n, k) /\ Counted(q) /\ Timed(q) /\ FirstAgain(q.outgoing)
    BY <1>1, <1>3, <1>4, <1>8 DEF ListsFit, Counted, Timed
  <1>10. EarliestFits(q, t, q.earliestTimeout)
    BY <1>1, <1>5, <1>8 DEF EarliestFits, Firsts
  <1>11. Fits(q, t, n, k)
    BY <1>8, <1>9, <1>10 DEF Fits
  <1>12. ASSUME NEW x \in Nat PROVE Refers(q, x) = Refers(p, x) + Holding(s, x)
    <2>1. /\ Holding(p.sent, x) \in Nat /\ Holding(p.outgoing, x) \in Nat
          /\ Holding(s, x) \in Nat
      BY <1>2, HoldingSteps
    <2> QED
      BY ONLY <1>6, <1>8, <1>12, <2>1 DEF Refers
  <1> QED
    BY <1>8, <1>11, <1>12

\* The counts are counts, and 0 for a packet that is not there yet.
LEMMA RefersType ==
    ASSUME NEW t, NEW n, NEW k \in Nat, NEW p, Fits(p, t, n, k), NEW x \in Nat
    PROVE  /\ Refers(p, x) \in Nat /\ Holding(p.unreliable, x) \in Nat
           /\ x > k => Refers(p, x) = 0 /\ Holding(p.unreliable, x) = 0
  <1>1. p \in PeerType /\ ListsFit(p, t, n, k)
    BY DEF Fits
  <1>2. /\ p.outgoing \in Seq(Outgoing) /\ p.sent \in Seq(Outgoing)
        /\ p.unreliable \in Seq(Outgoing)
    BY <1>1, PeerFields
  <1>3. /\ Holding(p.sent, x) \in Nat /\ Holding(p.outgoing, x) \in Nat
        /\ Holding(p.unreliable, x) \in Nat
    BY <1>2, HoldingSteps
  <1>4. ASSUME x > k
        PROVE  /\ Holding(p.sent, x) = 0 /\ Holding(p.outgoing, x) = 0
               /\ Holding(p.unreliable, x) = 0
    <2>1. /\ \A i \in DOMAIN p.sent : p.sent[i] \in SentCommands(t, n, k)
          /\ \A i \in DOMAIN p.outgoing : p.outgoing[i] \in QueuedCommands(t, n, k)
          /\ \A i \in DOMAIN p.unreliable : p.unreliable[i] \in UnreliableCommands(k)
      BY <1>1 DEF ListsFit
    <2>2. \A i \in DOMAIN p.sent : p.sent[i].packet # x
      BY <1>4, <2>1, OutgoingFields DEF SentCommands
    <2>3. \A i \in DOMAIN p.outgoing : p.outgoing[i].packet # x
      BY <1>4, <2>1, OutgoingFields DEF QueuedCommands
    <2>4. \A i \in DOMAIN p.unreliable : p.unreliable[i].packet # x
      BY <1>4, <2>1, OutgoingFields DEF UnreliableCommands
    <2> QED
      BY <2>2, <2>3, <2>4, HoldingNone
  <1> QED
    BY <1>3, <1>4 DEF Refers

\* A peer that was reset.
LEMMA FreshFits ==
    ASSUME NEW t \in Nat, NEW n \in Nat, NEW k \in Nat
    PROVE  /\ Fits(FreshPeer, t, n, k)
           /\ \A x : Refers(FreshPeer, x) + Holding(FreshPeer.unreliable, x) = 0
           /\ FreshPeer.sent = <<>> /\ FreshPeer.outgoing = <<>>
  <1> DEFINE p == FreshPeer
  <1>1. /\ p.sent = <<>> /\ p.outgoing = <<>> /\ p.unreliable = <<>>
        /\ p.inTransit = 0 /\ p.earliestTimeout = 0
    BY DEF FreshPeer
  <1>2. p \in PeerType
    <2>1. <<>> \in Seq(Outgoing) /\ 0 \in Ticks /\ 0 \in Nat
      BY Constants DEF Ticks
    <2>2. /\ DefaultRoundTripTime \in Nat /\ ThrottleScale \in 0 .. ThrottleScale
          /\ 0 \in 0 .. ThrottleScale - 1
      BY Constants
    <2> QED
      BY <2>1, <2>2 DEF PeerType, FreshPeer
  <1> HIDE DEF p
  <1>3. ListsFit(p, t, n, k)
    <2>1. /\ <<>> \in Seq(SentCommands(t, n, k))
          /\ <<>> \in Seq(QueuedCommands(t, n, k))
          /\ <<>> \in Seq(UnreliableCommands(k))
      OBVIOUS
    <2> QED
      BY <1>1, <2>1 DEF ListsFit
  <1>4. Counted(p)
    BY <1>1, LengthSteps DEF Counted
  <1>5. Timed(p) /\ EarliestFits(p, t, p.earliestTimeout)
    BY <1>1 DEF Timed, EarliestFits
  <1>6. FirstAgain(p.outgoing)
    BY <1>1 DEF FirstAgain
  <1>7. Fits(p, t, n, k)
    BY <1>2, <1>3, <1>4, <1>5, <1>6 DEF Fits
  <1>8. ASSUME NEW x PROVE Refers(p, x) + Holding(p.unreliable, x) = 0
    <2>1. Holding(<<>>, x) = 0
      BY HoldingSteps
    <2> QED
      BY <1>1, <2>1 DEF Refers
  <1> QED
    BY <1>1, <1>7, <1>8 DEF p

-----------------------------------------------------------------------------
(***************************************************************************)
(* The invariant.                                                          *)
(***************************************************************************)

\* What the invariant says of each variable.
LEMMA Given ==
    ASSUME IInv
    PROVE  /\ now \in Times /\ now \in Nat /\ now >= Start /\ now <= End
           /\ numbers \in Nat /\ numbers <= 2 * Len(references) + pings
           /\ pings \in 0 .. MaxPings /\ idle \in 0 .. MaxIdle
           /\ references \in Seq(Nat) /\ Len(references) \in Nat
           /\ Len(references) <= MaxPackets
           /\ flights \subseteq [number : Numbers, sent : Times]
           /\ \A f \in flights : f.sent <= now
           /\ Fits(peer, now, numbers, Len(references))
           /\ \A q \in DOMAIN references :
                 references[q] = Refers(peer, q) + Holding(peer.unreliable, q)
  <1>1. /\ now \in Times /\ idle \in 0 .. MaxIdle /\ pings \in 0 .. MaxPings
        /\ numbers \in 0 .. 2 * MaxPackets + MaxPings
        /\ references \in Seq(Nat) /\ Len(references) <= MaxPackets
        /\ flights \subseteq [number : Numbers, sent : Times]
    BY DEF IInv, TypeOK
  <1>2. now \in Nat /\ now >= Start /\ now <= End /\ numbers \in Nat
    BY <1>1, Constants DEF Times
  <1>3. Len(references) \in Nat
    BY <1>1
  <1> QED
    BY <1>1, <1>2, <1>3 DEF IInv

\* The counts of the packets after some commands are freed.
LEMMA Released ==
    ASSUME NEW refs \in Seq(Nat), NEW commands,
           \A q \in DOMAIN refs : refs[q] - Holding(commands, q) \in Nat
    PROVE  /\ Release(refs, commands) \in Seq(Nat)
           /\ Len(Release(refs, commands)) = Len(refs)
           /\ DOMAIN Release(refs, commands) = DOMAIN refs
           /\ \A q \in DOMAIN refs :
                 Release(refs, commands)[q] = refs[q] - Holding(commands, q)
  <1> DEFINE v == [q \in 1 .. Len(refs) |-> refs[q] - Holding(commands, q)]
  <1>1. DOMAIN refs = 1 .. Len(refs) /\ Len(refs) \in Nat
    OBVIOUS
  <1>2. \A q \in 1 .. Len(refs) : refs[q] - Holding(commands, q) \in Nat
    BY <1>1
  <1>3. v \in Seq(Nat) /\ Len(v) = Len(refs)
    BY <1>1, <1>2
  <1>4. Release(refs, commands) = v
    BY <1>1 DEF Release
  <1>5. \A q \in DOMAIN refs : v[q] = refs[q] - Holding(commands, q)
    BY <1>1
  <1> HIDE DEF v
  <1> QED
    BY <1>1, <1>3, <1>4, <1>5

\* The invariant in the first state.
LEMMA InitFits ==
    ASSUME Init
    PROVE  IInv
  <1>1. Fits(FreshPeer, Start, 0, 0)
    BY FreshFits, Constants
  <1>2. Len(references) = 0 /\ references \in Seq(Nat) /\ DOMAIN references = {}
    BY DEF Init
  <1>3. FreshPeer \in PeerType
    BY <1>1 DEF Fits
  <1>4. TypeOK
    BY <1>2, <1>3, Constants DEF Init, TypeOK, Times
  <1> QED
    BY <1>1, <1>2, <1>4, Constants DEF Init, IInv

\* enet_peer_send.
LEMMA SendKeeps ==
    ASSUME IInv, NEW reliable \in BOOLEAN, NEW fragments \in 1 .. 2,
           Send(reliable, fragments)
    PROVE  IInv'
  <1> DEFINE p == Len(references) + 1
             F(i) == Queued(p, IF reliable THEN numbers + i ELSE 0, i - 1)
             s == [i \in 1 .. fragments |-> F(i)]
             m == IF reliable THEN numbers + fragments ELSE numbers
  <1>1. PICK k : k = p
    OBVIOUS
  <1>2. PICK n : n = m
    OBVIOUS
  <1>3. /\ k \in Nat /\ n \in Nat /\ k <= MaxPackets /\ k = Len(references) + 1
        /\ numbers <= n /\ n <= 2 * k + pings /\ n <= 2 * MaxPackets + MaxPings
        /\ Len(references) \in Nat /\ pings \in Nat
    <2>1. /\ Len(references) \in Nat /\ pings \in Nat /\ pings <= MaxPings
          /\ numbers \in Nat /\ numbers <= 2 * Len(references) + pings
          /\ MaxPings \in Nat /\ MaxPackets \in Nat
      BY Given, Constants
    <2>2. p <= MaxPackets
      BY DEF Send
    <2>3. n = numbers \/ n = numbers + fragments
      BY <1>2
    <2>4. k = Len(references) + 1
      BY <1>1
    <2> HIDE DEF m
    <2> QED
      BY <1>1, <2>1, <2>2, <2>3, <2>4
  <1>4. Fits(peer, now, n, k)
    <2>1. /\ now \in Nat /\ numbers \in Nat
          /\ Fits(peer, now, numbers, Len(references))
      BY Given
    <2>2. PICK l : l = Len(references)
      OBVIOUS
    <2>3. PICK n0 : n0 = numbers
      OBVIOUS
    <2>4. PICK t : t = now
      OBVIOUS
    <2>5. PICK r : r = peer
      OBVIOUS
    <2>6. t \in Nat /\ n0 \in Nat /\ l \in Nat /\ k \in Nat /\ n \in Nat
      BY <1>3, <2>1, <2>2, <2>3, <2>4, <2>5
    <2>8. t <= t /\ n0 <= n /\ l <= k
      BY <1>3, <2>1, <2>2, <2>3, <2>4, <2>5
    <2>9. Fits(r, t, n0, l)
      BY <1>3, <2>1, <2>2, <2>3, <2>4, <2>5
    <2>7. Fits(r, t, n, k)
      BY <2>6, <2>8, <2>9, FitsLater
    <2> QED
      BY <2>4, <2>5, <2>7
  <1>5. /\ fragments \in Nat /\ s \in Seq(Outgoing) /\ DOMAIN s = 1 .. fragments
        /\ \A i \in DOMAIN s : s[i] = F(i)
    <2>1. ASSUME NEW i \in 1 .. fragments PROVE F(i) \in Outgoing
      <3>1. 0 \in Ticks
        BY Constants DEF Ticks
      <3>2. p \in 0 .. MaxPackets /\ i - 1 \in 0 .. 1 /\ Mtu \in 0 .. Mtu
        BY <1>1, <1>3, Constants
      <3>3. (IF reliable THEN numbers + i ELSE 0) \in 0 .. 2 * MaxPackets + MaxPings
        <4>1. numbers \in Nat /\ MaxPackets \in Nat /\ MaxPings \in Nat
          BY Given, Constants
        <4>2. CASE reliable
          <5>1. n = numbers + fragments
            BY <1>2, <4>2
          <5>2. numbers + i \in 0 .. 2 * MaxPackets + MaxPings
            <6> HIDE DEF m, p
            <6> QED
              BY <1>3, <4>1, <5>1
          <5> QED
            BY <4>2, <5>2
        <4>3. CASE ~ reliable
          <5>1. 0 \in 0 .. 2 * MaxPackets + MaxPings
            BY <4>1
          <5> QED
            BY <4>3, <5>1
        <4> QED
          BY <4>2, <4>3
      <3>4. (IF p = NoPacket THEN 0 ELSE Mtu) \in 0 .. Mtu
        BY <3>2
      <3> HIDE DEF p
      <3> QED
        BY <3>1, <3>2, <3>3, <3>4 DEF Queued, Outgoing
    <2> HIDE DEF F
    <2> QED
      BY <2>1
  <1>6. ASSUME NEW i \in DOMAIN s
        PROVE  /\ s[i].packet = k /\ s[i].first = 0
               /\ reliable => s[i].number = numbers + i
    BY <1>1, <1>5 DEF Queued
  <1>7. Holding(s, k) = fragments
    <2> HIDE DEF s
    <2> QED
      BY <1>5, <1>6, HoldingAll
  <1>8. \A x \in Nat : x # k => Holding(s, x) = 0
    <2> HIDE DEF s
    <2> QED
      BY <1>6, HoldingNone
  <1>9. /\ references' = Append(references, fragments) /\ numbers' = n
        /\ UNCHANGED <<now, idle, flights, fate, pings>>
        /\ peer' = IF reliable THEN [peer EXCEPT !.outgoing = @ \o s]
                   ELSE [peer EXCEPT !.unreliable = @ \o s]
    BY <1>2 DEF Send
  <1> HIDE DEF s, F, m, p
  <1>10. PICK q : q = peer'
    OBVIOUS
  <1>11. /\ Fits(q, now, n, k)
         /\ \A x \in Nat : Refers(q, x) + Holding(q.unreliable, x)
                            = Refers(peer, x) + Holding(peer.unreliable, x)
                                 + Holding(s, x)
    <2>0. ASSUME NEW x \in Nat
          PROVE  /\ Refers(peer, x) \in Nat /\ Holding(peer.unreliable, x) \in Nat
                 /\ Holding(s, x) \in Nat
      BY <1>3, <1>4, <1>5, RefersType, HoldingSteps
    <2>1. CASE reliable
      <3>1. ASSUME NEW i \in DOMAIN s PROVE s[i] \in QueuedCommands(now, n, k)
        <4>1. numbers + i \in 1 .. n
          BY <1>2, <1>3, <1>5, <2>1, Given DEF m
        <4> QED
          BY <1>3, <1>5, <1>6, <2>1, <4>1, Given DEF QueuedCommands
      <3>2. s \in Seq(QueuedCommands(now, n, k))
        BY <1>5, <3>1
      <3>3. q = [peer EXCEPT !.outgoing = @ \o s]
        BY <1>9, <1>10, <2>1
      <3>4. /\ Fits(q, now, n, k) /\ q.unreliable = peer.unreliable
            /\ \A x \in Nat : Refers(q, x) = Refers(peer, x) + Holding(s, x)
        <4>1. PICK t : t = now
          OBVIOUS
        <4>2. PICK r : r = peer
          OBVIOUS
        <4>3. PICK u : u = s
          OBVIOUS
        <4>5. u \in Seq(QueuedCommands(t, n, k))
          BY <3>2, <4>1, <4>3
        <4>9. \A i \in DOMAIN u : u[i].first = 0
          BY <1>6, <4>3
        <4>6. Fits(r, t, n, k)
          BY <1>4, <4>1, <4>2
        <4>7. q = Enqueued(r, u)
          BY <3>3, <4>2, <4>3 DEF Enqueued
        <4>8. /\ Fits(q, t, n, k) /\ q.unreliable = r.unreliable
              /\ \A x \in Nat : Refers(q, x) = Refers(r, x) + Holding(u, x)
          BY <4>5, <4>6, <4>7, <4>9, QueueFits
        <4> QED
          BY <4>1, <4>2, <4>3, <4>8
      <3> QED
        BY <2>0, <3>4
    <2>2. CASE ~ reliable
      <3>1. ASSUME NEW i \in DOMAIN s PROVE s[i] \in UnreliableCommands(k)
        BY <1>3, <1>5, <1>6 DEF UnreliableCommands
      <3>2. s \in Seq(UnreliableCommands(k))
        BY <1>5, <3>1
      <3>3. q = [peer EXCEPT !.unreliable = @ \o s]
        BY <1>9, <1>10, <2>2
      <3>4. /\ peer \in PeerType /\ ListsFit(peer, now, n, k) /\ Counted(peer)
            /\ Timed(peer) /\ FirstAgain(peer.outgoing)
            /\ EarliestFits(peer, now, peer.earliestTimeout)
        BY <1>4 DEF Fits
      <3>5. peer.unreliable \in Seq(Outgoing)
        BY <3>4, PeerFields
      <3> DEFINE v == peer.unreliable \o s
      <3>6. v \in Seq(UnreliableCommands(k)) /\ v \in Seq(Outgoing)
        BY <1>5, <3>2, <3>4, <3>5 DEF ListsFit
      <3>7. ASSUME NEW x \in Nat
            PROVE  Holding(v, x) = Holding(peer.unreliable, x) + Holding(s, x)
        BY <1>5, <3>5, HoldingBoth
      <3>8. q = [peer EXCEPT !.unreliable = v]
        BY <3>3, <3>4 DEF PeerType
      <3> HIDE DEF v
      <3>9. /\ q \in PeerType /\ q.outgoing = peer.outgoing /\ q.sent = peer.sent
            /\ q.unreliable = v /\ q.inTransit = peer.inTransit
            /\ q.nextTimeout = peer.nextTimeout
            /\ q.earliestTimeout = peer.earliestTimeout
        BY ONLY <3>4, <3>6, <3>8 DEF PeerType
      <3>10. /\ ListsFit(q, now, n, k) /\ Counted(q) /\ Timed(q)
             /\ FirstAgain(q.outgoing)
        BY <3>4, <3>6, <3>9 DEF ListsFit, Counted, Timed
      <3>11. EarliestFits(q, now, q.earliestTimeout)
        BY <3>4, <3>9 DEF EarliestFits, Firsts
      <3>12. Fits(q, now, n, k)
        BY <3>9, <3>10, <3>11 DEF Fits
      <3>13. \A x \in Nat : Refers(q, x) = Refers(peer, x)
        BY <3>9 DEF Refers
      <3> QED
        BY <2>0, <3>7, <3>9, <3>12, <3>13
    <2> QED
      BY <2>1, <2>2
  <1>12. /\ references' \in Seq(Nat) /\ Len(references') = k
         /\ DOMAIN references' = 1 .. k /\ references'[k] = fragments
         /\ \A x \in 1 .. k : x # k => x \in DOMAIN references
                                        /\ references'[x] = references[x]
    <2>1. /\ references \in Seq(Nat) /\ fragments \in Nat
          /\ references' = Append(references, fragments)
          /\ k = Len(references) + 1
      BY <1>3, <1>5, <1>9, Given
    <2> QED
      BY ONLY <2>1
  <1>13. ASSUME NEW x \in DOMAIN references'
         PROVE  references'[x] = Refers(q, x) + Holding(q.unreliable, x)
    <2>1. x \in Nat /\ x \in 1 .. k
      BY <1>3, <1>12
    <2>2. CASE x = k
      <3>1. Refers(peer, x) = 0 /\ Holding(peer.unreliable, x) = 0
        <4>1. Fits(peer, now, numbers, Len(references)) /\ x > Len(references)
          BY <1>3, <2>2, Given
        <4> QED
          BY <1>3, <2>1, <4>1, RefersType
      <3> QED
        BY <1>7, <1>5, <1>11, <1>12, <2>1, <2>2, <3>1
    <2>3. CASE x # k
      <3>1. /\ references'[x] = references[x] /\ x \in DOMAIN references
            /\ references[x] = Refers(peer, x) + Holding(peer.unreliable, x)
        BY <1>12, <2>1, <2>3, Given
      <3>2. Holding(s, x) = 0
        BY <1>8, <2>1, <2>3
      <3>3. Refers(peer, x) \in Nat /\ Holding(peer.unreliable, x) \in Nat
        BY <1>3, <1>4, <2>1, RefersType
      <3> QED
        BY <1>11, <2>1, <3>1, <3>2, <3>3
    <2> QED
      BY <2>2, <2>3
  <1>14. q \in PeerType
    BY <1>11 DEF Fits
  <1>15. TypeOK'
    <2>1. TypeOK
      BY DEF IInv
    <2>2. n \in 0 .. 2 * MaxPackets + MaxPings
      BY <1>3, Constants
    <2> QED
      BY <1>3, <1>9, <1>10, <1>12, <1>14, <2>1, <2>2 DEF TypeOK
  <1> QED
    BY <1>3, <1>9, <1>10, <1>11, <1>12, <1>13, <1>15, Given DEF IInv

\* A pass over the peer, with or without the timers.
LEMMA PassResult ==
    ASSUME IInv, NEW check \in BOOLEAN, Pass(check)
    PROVE  /\ Fits(peer', now, numbers', Len(references))
           /\ peer'.unreliable = <<>>
           /\ \A x \in Nat : x # NoPacket => Refers(peer', x) = Refers(peer, x)
           /\ peer'.outgoing # <<>> => peer'.sent # <<>>
           /\ numbers' \in Nat /\ numbers' <= 2 * Len(references) + pings'
           /\ pings' \in 0 .. MaxPings
  <1> DEFINE checked == IF check THEN CheckTimeouts ELSE peer
             sent == SendReliable(checked)
             z == Queued(NoPacket, numbers + 1, 0)
             more == [sent EXCEPT !.outgoing = Append(@, z)]
             pinged == SendReliable(more)
  <1>1. \/ peer' = SendUnreliable(sent) /\ numbers' = numbers /\ pings' = pings
        \/ /\ pings < MaxPings /\ peer' = SendUnreliable(pinged)
           /\ numbers' = numbers + 1 /\ pings' = pings + 1
    BY DEF Pass
  <1>2. PICK l : l = Len(references)
    OBVIOUS
  <1>3. PICK n : n = numbers
    OBVIOUS
  <1>4. PICK t : t = now
    OBVIOUS
  <1>5. t \in Nat /\ l \in Nat /\ n \in Nat
    BY <1>2, <1>3, <1>4, Given
  <1>6. now \in Times /\ n <= 2 * l + pings /\ pings \in 0 .. MaxPings
    BY <1>2, <1>3, Given
  <1>7. Fits(peer, now, n, l)
    BY <1>2, <1>3, Given
  <1> HIDE DEF checked, sent, z, more, pinged
  <1>8. /\ Fits(checked, now, n, l)
        /\ \A x \in Nat : Refers(checked, x) = Refers(peer, x)
    <2>1. CASE check
      <3>1. checked = CheckTimeouts
        BY <2>1 DEF checked
      <3> QED
        BY <1>5, <1>6, <1>7, <3>1, CheckTimeoutsFits
    <2>2. CASE ~ check
      BY <1>7, <2>2 DEF checked
    <2> QED
      BY <2>1, <2>2
  <1>9. PICK c : c = checked
    OBVIOUS
  <1>10. PICK a : a = sent
    OBVIOUS
  <1>11. /\ Fits(a, now, n, l)
         /\ \A x \in Nat : Refers(a, x) = Refers(peer, x)
         /\ a.outgoing # <<>> => a.sent # <<>>
    <2>1. Fits(c, now, n, l)
      BY <1>8, <1>9
    <2>2. a = SendReliable(c)
      BY <1>9, <1>10 DEF sent
    <2>3. /\ Fits(a, now, n, l)
          /\ \A x \in Nat : Refers(a, x) = Refers(c, x)
          /\ a.outgoing # <<>> => a.sent # <<>>
      BY <1>5, <1>6, <2>1, <2>2, SendReliableFits
    <2> QED
      BY <1>8, <1>9, <2>3
  <1>12. ASSUME NEW b, NEW m, Fits(b, now, m, l),
                \A x \in Nat : x # NoPacket => Refers(b, x) = Refers(peer, x),
                b.outgoing # <<>> => b.sent # <<>>,
                peer' = SendUnreliable(b), numbers' = m
         PROVE  /\ Fits(peer', now, numbers', l) /\ peer'.unreliable = <<>>
                /\ \A x \in Nat : x # NoPacket => Refers(peer', x) = Refers(peer, x)
                /\ peer'.outgoing # <<>> => peer'.sent # <<>>
    <2>1. PICK q : q = peer'
      OBVIOUS
    <2>2. q = SendUnreliable(b)
      BY <1>12, <2>1
    <2>3. /\ Fits(q, now, m, l) /\ q.unreliable = <<>> /\ q.sent = b.sent
          /\ q.outgoing = b.outgoing
      BY <1>12, <2>2, SendUnreliableFits
    <2>4. \A x \in Nat : Refers(q, x) = Refers(b, x)
      BY <2>3 DEF Refers
    <2> QED
      BY <1>12, <2>1, <2>3, <2>4
  <1>13. CASE peer' = SendUnreliable(sent) /\ numbers' = numbers /\ pings' = pings
    <2>1. peer' = SendUnreliable(a) /\ numbers' = n
      BY <1>3, <1>10, <1>13
    <2>2. /\ Fits(peer', now, numbers', l) /\ peer'.unreliable = <<>>
          /\ \A x \in Nat : x # NoPacket => Refers(peer', x) = Refers(peer, x)
          /\ peer'.outgoing # <<>> => peer'.sent # <<>>
      BY <1>11, <1>12, <2>1
    <2> QED
      BY <1>2, <1>3, <1>5, <1>6, <1>13, <2>2
  <1>14. CASE /\ pings < MaxPings /\ peer' = SendUnreliable(pinged)
              /\ numbers' = numbers + 1 /\ pings' = pings + 1
    <2>1. PICK m : m = n + 1
      OBVIOUS
    <2>2. /\ m \in Nat /\ n <= m /\ t <= t /\ l <= l /\ m = numbers + 1
          /\ m <= 2 * l + pings + 1 /\ m \in 1 .. m /\ pings + 1 \in 0 .. MaxPings
      BY <1>3, <1>5, <1>6, <1>14, <2>1, Constants
    <2>3. Fits(a, t, m, l)
      <3>1. Fits(a, t, n, l)
        BY <1>4, <1>11
      <3>2. m \in Nat
        BY <2>2
      <3>3. n <= m /\ t <= t /\ l <= l
        BY <2>2
      <3> QED
        BY <1>5, <3>1, <3>2, <3>3, FitsLater
    <2>4. PICK s : s = <<z>>
      OBVIOUS
    <2>5. /\ z \in Outgoing /\ z.first = 0 /\ z.packet = 0 /\ z.number = m
      <3>1. 0 \in Ticks /\ 0 \in 0 .. MaxPackets /\ 0 \in 0 .. 1 /\ 0 \in 0 .. Mtu
        BY Constants DEF Ticks
      <3>2. m \in 0 .. 2 * MaxPackets + MaxPings
        BY <1>2, <1>6, <2>2, Given, Constants
      <3> QED
        BY <2>2, <3>1, <3>2 DEF z, Queued, Outgoing, NoPacket
    <2>6. z \in QueuedCommands(t, m, l)
      BY <1>5, <2>2, <2>5 DEF QueuedCommands
    <2>7. /\ s \in Seq(QueuedCommands(t, m, l)) /\ s \in Seq(Outgoing)
          /\ DOMAIN s = {1} /\ s[1] = z
      BY <2>4, <2>5, <2>6
    <2>8. \A i \in DOMAIN s : s[i].first = 0
      BY <2>5, <2>7
    <2>9. \A x \in Nat : x # NoPacket => Holding(s, x) = 0
      BY <2>5, <2>7, HoldingNone DEF NoPacket
    <2>10. PICK b : b = more
      OBVIOUS
    <2>11. b = Enqueued(a, s)
      <3>1. a \in PeerType
        BY <1>11 DEF Fits
      <3>2. a.outgoing \in Seq(Outgoing)
        BY <3>1, PeerFields
      <3>3. Append(a.outgoing, z) = a.outgoing \o s
        BY <2>4, <2>5, <3>2
      <3> QED
        BY <1>10, <2>10, <3>3 DEF more, Enqueued
    <2>12. /\ Fits(b, t, m, l)
           /\ \A x \in Nat : Refers(b, x) = Refers(a, x) + Holding(s, x)
      <3>1. s \in Seq(QueuedCommands(t, m, l))
        BY <2>7
      <3> QED
        BY <2>3, <2>8, <2>11, <3>1, QueueFits
    <2>13. \A x \in Nat : x # NoPacket => Refers(b, x) = Refers(peer, x)
      <3>1. \A x \in Nat : Refers(a, x) \in Nat
        BY <1>5, <2>3, RefersType
      <3> QED
        BY <1>11, <2>9, <2>12, <3>1
    <2>14. PICK d : d = pinged
      OBVIOUS
    <2>15. /\ Fits(d, now, m, l)
           /\ \A x \in Nat : Refers(d, x) = Refers(b, x)
           /\ d.outgoing # <<>> => d.sent # <<>>
      <3>1. Fits(b, now, m, l)
        BY <1>4, <2>12
      <3>2. d = SendReliable(b)
        BY <2>10, <2>14 DEF pinged
      <3>3. m \in Nat /\ l \in Nat
        BY <1>5, <2>2
      <3> QED
        BY <1>6, <3>1, <3>2, <3>3, SendReliableFits
    <2>16. peer' = SendUnreliable(d) /\ numbers' = m
      BY <1>14, <2>2, <2>14
    <2>17. \A x \in Nat : x # NoPacket => Refers(d, x) = Refers(peer, x)
      BY <2>13, <2>15
    <2>18. /\ Fits(peer', now, numbers', l) /\ peer'.unreliable = <<>>
           /\ \A x \in Nat : x # NoPacket => Refers(peer', x) = Refers(peer, x)
           /\ peer'.outgoing # <<>> => peer'.sent # <<>>
      BY <1>12, <2>15, <2>16, <2>17
    <2> QED
      BY <1>2, <1>5, <1>6, <1>14, <2>2, <2>16, <2>18
  <1> QED
    BY <1>1, <1>13, <1>14

\* The invariant after a step that makes no packet: the counts are right when
\* what is freed is what is no longer referred to.
LEMMA Together ==
    ASSUME IInv, NEW n \in Nat, NEW q,
           peer' = q, Fits(q, now', n, Len(references)), numbers' = n,
           now' \in Times, idle' \in 0 .. MaxIdle, pings' \in 0 .. MaxPings,
           n <= 2 * Len(references) + pings',
           fate' \in {"connected", "closed", "abandoned"},
           references' \in Seq(Nat), Len(references') = Len(references),
           \A x \in DOMAIN references :
              references'[x] = Refers(q, x) + Holding(q.unreliable, x),
           flights' \subseteq [number : Numbers, sent : Times],
           \A f \in flights' : f.sent <= now'
    PROVE  IInv'
  <1>1. q \in PeerType
    BY DEF Fits
  <1>2. n \in 0 .. 2 * MaxPackets + MaxPings
    <2>1. /\ Len(references) \in Nat /\ Len(references) <= MaxPackets
          /\ MaxPackets \in Nat /\ MaxPings \in Nat
      BY Given, Constants
    <2>2. pings' \in Nat /\ pings' <= MaxPings
      BY <2>1
    <2> QED
      BY <2>1, <2>2
  <1>3. DOMAIN references' = DOMAIN references
    <2>1. references \in Seq(Nat)
      BY Given
    <2> QED
      BY <2>1
  <1>4. TypeOK'
    BY <1>1, <1>2, Given DEF TypeOK
  <1> QED
    BY <1>3, <1>4 DEF IInv

\* enet_protocol_send_outgoing_commands.
LEMMA PassKeeps ==
    ASSUME IInv, NEW check \in BOOLEAN, Pass(check)
    PROVE  IInv'
  <1>1. PICK q : q = peer'
    OBVIOUS
  <1>2. PICK n : n = numbers'
    OBVIOUS
  <1>3. PICK l : l = Len(references)
    OBVIOUS
  <1>4. /\ Fits(q, now, n, l) /\ q.unreliable = <<>>
        /\ \A x \in Nat : x # NoPacket => Refers(q, x) = Refers(peer, x)
        /\ n \in Nat /\ n <= 2 * l + pings' /\ pings' \in 0 .. MaxPings
    BY <1>1, <1>2, <1>3, PassResult
  <1>5. l \in Nat /\ now \in Times /\ idle \in 0 .. MaxIdle /\ 0 \in 0 .. MaxIdle
    BY <1>3, Given, Constants
  <1>6. UNCHANGED <<now, fate>> /\ idle' \in 0 .. MaxIdle
    BY <1>5 DEF Pass
  <1>7. \A x \in DOMAIN references :
           /\ x \in Nat /\ x # NoPacket
           /\ references[x] = Refers(peer, x) + Holding(peer.unreliable, x)
           /\ Refers(peer, x) \in Nat /\ Holding(peer.unreliable, x) \in Nat
    <2>1. \A x \in DOMAIN references : x \in Nat /\ x # NoPacket
      BY Given DEF NoPacket
    <2>2. ASSUME NEW x \in Nat
          PROVE  Refers(peer, x) \in Nat /\ Holding(peer.unreliable, x) \in Nat
      <3>1. PICK m : m = numbers
        OBVIOUS
      <3>2. Fits(peer, now, m, l)
        BY <1>3, <3>1, Given
      <3> QED
        BY <1>5, <3>2, RefersType
    <2> QED
      BY <2>1, <2>2, Given
  <1>8. references' = Release(references, peer.unreliable)
    BY DEF Pass
  <1>9. \A x \in DOMAIN references :
           references[x] - Holding(peer.unreliable, x) \in Nat
    BY <1>7
  <1>10. /\ references' \in Seq(Nat) /\ Len(references') = Len(references)
         /\ \A x \in DOMAIN references :
               references'[x] = references[x] - Holding(peer.unreliable, x)
    BY <1>8, <1>9, Released, Given
  <1>11. ASSUME NEW x \in DOMAIN references
         PROVE  references'[x] = Refers(q, x) + Holding(q.unreliable, x)
    <2>1. Holding(<<>>, x) = 0
      BY HoldingSteps
    <2> QED
      BY <1>4, <1>7, <1>10, <2>1
  <1>12. ASSUME NEW f \in Flights(q)
         PROVE  f \in [number : Numbers, sent : Times] /\ f.sent = now
    <2>1. PICK i \in DOMAIN q.sent : f = [number |-> q.sent[i].number, sent |-> now]
      BY DEF Flights
    <2>2. q.sent \in Seq(SentCommands(now, n, l))
      BY <1>4 DEF Fits, ListsFit
    <2>3. q.sent[i].number \in 1 .. n
      BY <2>1, <2>2 DEF SentCommands
    <2>4. n <= 2 * MaxPackets + MaxPings
      BY <1>3, <1>4, <1>5, Given, Constants
    <2>5. q.sent[i].number \in Numbers
      BY <1>4, <2>3, <2>4, Constants DEF Numbers
    <2> QED
      BY <1>5, <2>1, <2>5
  <1>13. flights' = flights \cup Flights(q)
    BY <1>1 DEF Pass
  <1>14. /\ flights' \subseteq [number : Numbers, sent : Times]
         /\ \A f \in flights' : f.sent <= now
    <2>1. now <= now
      BY Given
    <2> QED
      BY <1>12, <1>13, <2>1, Given
  <1>15. fate \in {"connected", "closed", "abandoned"}
    BY DEF IInv, TypeOK
  <1> QED
    BY <1>1, <1>2, <1>3, <1>4, <1>5, <1>6, <1>10, <1>11, <1>14, <1>15, Together

\* enet_peer_reset.
LEMMA ResetKeeps ==
    ASSUME IInv, NEW how \in {"closed", "abandoned"}, Reset(how)
    PROVE  IInv'
  <1>1. PICK q : q = FreshPeer
    OBVIOUS
  <1>2. PICK n : n = numbers
    OBVIOUS
  <1>3. PICK l : l = Len(references)
    OBVIOUS
  <1>4. /\ l \in Nat /\ n \in Nat /\ now \in Times /\ now \in Nat
        /\ 0 \in 0 .. MaxIdle /\ n <= 2 * l + pings /\ pings \in 0 .. MaxPings
        /\ references \in Seq(Nat) /\ now <= now
    <2>1. 0 \in 0 .. MaxIdle
      BY Constants
    <2>2. now \in Nat /\ now \in Times /\ now <= now
      BY Given
    <2> QED
      BY <1>2, <1>3, <2>1, <2>2, Given
  <1>5. /\ Fits(q, now, n, l)
        /\ \A x : Refers(q, x) + Holding(q.unreliable, x) = 0
    BY <1>1, <1>4, FreshFits
  <1> DEFINE a(x) == Holding(peer.sent, x)
             b(x) == Holding(peer.outgoing, x)
             c(x) == Holding(peer.unreliable, x)
             r1 == Release(references, peer.sent)
             r2 == Release(r1, peer.outgoing)
             r3 == Release(r2, peer.unreliable)
  <1>6. /\ peer' = q /\ references' = r3 /\ flights' = {} /\ fate' = how
        /\ idle' = 0 /\ UNCHANGED <<now, numbers, pings>>
    BY <1>1 DEF Reset
  <1>7. ASSUME NEW x \in DOMAIN references
        PROVE  /\ a(x) \in Nat /\ b(x) \in Nat /\ c(x) \in Nat
               /\ references[x] = a(x) + b(x) + c(x)
    <2>1. peer \in PeerType
      BY Given DEF Fits
    <2>2. /\ peer.sent \in Seq(Outgoing) /\ peer.outgoing \in Seq(Outgoing)
          /\ peer.unreliable \in Seq(Outgoing)
      BY <2>1, PeerFields
    <2>3. a(x) \in Nat /\ b(x) \in Nat /\ c(x) \in Nat
      BY <2>2, HoldingSteps
    <2> QED
      BY <2>3, Given DEF Refers
  <1>8. /\ r1 \in Seq(Nat) /\ Len(r1) = Len(references)
        /\ DOMAIN r1 = DOMAIN references
        /\ \A x \in DOMAIN references : r1[x] = references[x] - a(x)
    <2>1. \A x \in DOMAIN references : references[x] - a(x) \in Nat
      <3> HIDE DEF a, b, c
      <3> QED
        BY <1>7
    <2> QED
      BY <1>4, <2>1, Released
  <1>9. /\ r2 \in Seq(Nat) /\ Len(r2) = Len(references)
        /\ DOMAIN r2 = DOMAIN references
        /\ \A x \in DOMAIN references : r2[x] = r1[x] - b(x)
    <2> HIDE DEF r1
    <2>1. \A x \in DOMAIN r1 : r1[x] - b(x) \in Nat
      <3> HIDE DEF a, b, c
      <3>1. SUFFICES ASSUME NEW x \in DOMAIN references PROVE r1[x] - b(x) \in Nat
        BY <1>8
      <3>2. /\ a(x) \in Nat /\ b(x) \in Nat /\ c(x) \in Nat
            /\ references[x] = a(x) + b(x) + c(x)
        BY <1>7
      <3>3. r1[x] = references[x] - a(x)
        BY <1>8
      <3> QED
        BY ONLY <3>2, <3>3
    <2> QED
      BY <1>8, <2>1, Released
  <1>10. /\ r3 \in Seq(Nat) /\ Len(r3) = Len(references)
         /\ \A x \in DOMAIN references : r3[x] = r2[x] - c(x)
    <2> HIDE DEF r1, r2
    <2>1. \A x \in DOMAIN r2 : r2[x] - c(x) \in Nat
      <3> HIDE DEF a, b, c
      <3>1. SUFFICES ASSUME NEW x \in DOMAIN references PROVE r2[x] - c(x) \in Nat
        BY <1>9
      <3>2. /\ a(x) \in Nat /\ b(x) \in Nat /\ c(x) \in Nat
            /\ references[x] = a(x) + b(x) + c(x)
        BY <1>7
      <3>3. r1[x] = references[x] - a(x) /\ r2[x] = r1[x] - b(x)
        BY <1>8, <1>9
      <3> QED
        BY ONLY <3>2, <3>3
    <2> QED
      BY <1>9, <2>1, Released
  <1> HIDE DEF a, b, c, r1, r2, r3
  <1>11. ASSUME NEW x \in DOMAIN references
         PROVE  r3[x] = 0
    <2>1. /\ a(x) \in Nat /\ b(x) \in Nat /\ c(x) \in Nat
          /\ references[x] = a(x) + b(x) + c(x)
      BY <1>7
    <2>2. /\ r1[x] = references[x] - a(x) /\ r2[x] = r1[x] - b(x)
          /\ r3[x] = r2[x] - c(x)
      BY <1>8, <1>9, <1>10
    <2> QED
      BY ONLY <2>1, <2>2
  <1>12. \A x \in DOMAIN references :
            references'[x] = Refers(q, x) + Holding(q.unreliable, x)
    BY <1>5, <1>6, <1>11
  <1> QED
    BY <1>2, <1>3, <1>4, <1>5, <1>6, <1>10, <1>12, Together

\* enet_protocol_handle_acknowledge.
LEMMA AcknowledgeKeeps ==
    ASSUME IInv, NEW f \in flights, HandleAcknowledge(f)
    PROVE  IInv'
  <1>1. PICK time : time = RoundTrip(f)
    OBVIOUS
  <1>2. PICK throttle \in Throttles(peer.throttle) :
           peer' = RemoveSent([Measured(peer, RoundTrip(f)) EXCEPT
                                 !.throttle = throttle, !.earliestTimeout = 0],
                              f.number)
    BY DEF HandleAcknowledge
  <1>3. PICK p : p = Remeasured(peer, time, throttle)
    OBVIOUS
  <1>4. PICK q : q = peer'
    OBVIOUS
  <1>5. PICK n : n = numbers
    OBVIOUS
  <1>6. PICK l : l = Len(references)
    OBVIOUS
  <1>7. /\ l \in Nat /\ n \in Nat /\ now \in Times /\ now \in Nat
        /\ idle \in 0 .. MaxIdle /\ n <= 2 * l + pings /\ pings \in 0 .. MaxPings
        /\ references \in Seq(Nat)
    BY <1>5, <1>6, Given, Constants
  <1>8. time \in Nat
    <2>1. f.sent \in Nat /\ f.sent <= now /\ Half \in Nat \ {0}
      BY Given, Constants DEF Times
    <2>2. Counts(f)
      BY DEF HandleAcknowledge
    <2>3. PICK x : x = now - f.sent
      OBVIOUS
    <2>4. x \in Int
      BY <1>7, <2>1, <2>3
    <2>5. time = x % Half
      BY <1>1, <1>7, <2>1, <2>2, <2>3, Measurement
    <2> QED
      BY <2>1, <2>4, <2>5, ModRange
  <1>9. Fits(peer, now, n, l)
    BY <1>5, <1>6, Given
  <1>10. /\ Fits(p, now, n, l) /\ p.unreliable = peer.unreliable
         /\ p.sent = peer.sent /\ p.outgoing = peer.outgoing
         /\ p.earliestTimeout = 0
    BY <1>2, <1>3, <1>8, <1>9, MeasuredFits
  <1>11. q = RemoveSent(p, f.number)
    BY <1>1, <1>2, <1>3, <1>4 DEF Remeasured
  <1>12. /\ Fits(q, now, n, l) /\ q.unreliable = p.unreliable
         /\ \A x \in Nat : /\ Holding(Found(f.number), x) \in Nat
                           /\ Refers(q, x) + Holding(Found(f.number), x)
                                 = Refers(p, x)
    BY <1>10, <1>11, RemoveSentFits
  <1>13. /\ references' = Release(references, Found(f.number))
         /\ UNCHANGED <<now, idle, flights, fate, numbers, pings>>
    BY DEF HandleAcknowledge
  <1>14. \A x \in DOMAIN references :
            /\ references[x] = Refers(q, x) + Holding(Found(f.number), x)
                                  + Holding(q.unreliable, x)
            /\ Refers(q, x) \in Nat /\ Holding(Found(f.number), x) \in Nat
            /\ Holding(q.unreliable, x) \in Nat
    <2>1. \A x \in DOMAIN references : x \in Nat
      BY <1>7
    <2>2. \A x \in Nat : Refers(q, x) \in Nat /\ Holding(q.unreliable, x) \in Nat
      BY <1>7, <1>12, RefersType
    <2>3. \A x : Refers(p, x) = Refers(peer, x)
      BY <1>10 DEF Refers
    <2> QED
      BY <1>10, <1>12, <2>1, <2>2, <2>3, Given
  <1>15. \A x \in DOMAIN references :
            references[x] - Holding(Found(f.number), x) \in Nat
    BY <1>14
  <1>16. /\ references' \in Seq(Nat) /\ Len(references') = Len(references)
         /\ \A x \in DOMAIN references :
               references'[x] = references[x] - Holding(Found(f.number), x)
    BY <1>7, <1>13, <1>15, Released
  <1>17. \A x \in DOMAIN references :
            references'[x] = Refers(q, x) + Holding(q.unreliable, x)
    BY <1>14, <1>16
  <1>18. fate \in {"connected", "closed", "abandoned"}
    BY DEF IInv, TypeOK
  <1>19. /\ flights' \subseteq [number : Numbers, sent : Times]
         /\ \A g \in flights' : g.sent <= now
    BY <1>13, Given
  <1> QED
    BY <1>4, <1>5, <1>6, <1>7, <1>12, <1>13, <1>16, <1>17, <1>18, <1>19, Together

\* Time.
LEMMA TickKeeps ==
    ASSUME IInv, Tick
    PROVE  IInv'
  <1>1. PICK n : n = numbers
    OBVIOUS
  <1>2. PICK l : l = Len(references)
    OBVIOUS
  <1>3. PICK t : t = now
    OBVIOUS
  <1>4. PICK u : u = now'
    OBVIOUS
  <1>5. PICK q : q = peer
    OBVIOUS
  <1>6. l \in Nat /\ n \in Nat /\ t \in Nat /\ u \in Nat
    BY <1>1, <1>2, <1>3, <1>4, Given DEF Tick
  <1>7. t <= u /\ n <= n /\ l <= l
    BY <1>3, <1>4, <1>6 DEF Tick
  <1>8. Fits(q, t, n, l)
    BY <1>1, <1>2, <1>3, <1>5, Given
  <1>9. Fits(q, u, n, l)
    BY <1>6, <1>7, <1>8, FitsLater
  <1>10. /\ now' \in Times /\ idle' \in 0 .. MaxIdle
         /\ n <= 2 * l + pings /\ pings \in 0 .. MaxPings
    BY <1>1, <1>2, Given, Constants DEF Tick, Times
  <1>11. /\ flights' \subseteq flights
         /\ UNCHANGED <<peer, references, fate, numbers, pings>>
    BY DEF Tick
  <1>12. /\ flights' \subseteq [number : Numbers, sent : Times]
         /\ \A f \in flights' : f.sent <= now'
    <2>1. \A f \in flights : f.sent \in Nat /\ f.sent <= now
      BY Given, Constants DEF Times
    <2> QED
      BY <1>3, <1>4, <1>6, <1>7, <1>11, <2>1, Given
  <1>13. fate \in {"connected", "closed", "abandoned"} /\ references \in Seq(Nat)
    BY DEF IInv, TypeOK
  <1>14. \A x \in DOMAIN references :
            references'[x] = Refers(q, x) + Holding(q.unreliable, x)
    BY <1>5, <1>11, Given
  <1> QED
    BY <1>1, <1>2, <1>4, <1>5, <1>6, <1>9, <1>10, <1>11, <1>12, <1>13, <1>14,
       Together

\* Every step.
LEMMA NextKeeps ==
    ASSUME IInv, [Next]_vars
    PROVE  IInv'
  <1>1. ASSUME NEW packet \in Packets, Send(packet[1], packet[2]) PROVE IInv'
    <2>1. packet[1] \in BOOLEAN /\ packet[2] \in 1 .. 2
      BY BoundsAssumption
    <2> QED
      BY <1>1, <2>1, SendKeeps
  <1>2. ASSUME NEW check \in BOOLEAN, Pass(check) PROVE IInv'
    BY <1>2, PassKeeps
  <1>3. ASSUME NEW f \in flights, HandleAcknowledge(f) PROVE IInv'
    BY <1>3, AcknowledgeKeeps
  <1>4. CASE GiveUp
    BY <1>4, ResetKeeps DEF GiveUp
  <1>5. CASE Close
    BY <1>5, ResetKeeps DEF Close
  <1>6. CASE Tick
    BY <1>6, TickKeeps
  <1>7. CASE UNCHANGED vars
    <2>1. PICK q : q = peer
      OBVIOUS
    <2>2. PICK n : n = numbers
      OBVIOUS
    <2>3. /\ peer' = q /\ numbers' = n /\ n \in Nat
          /\ Fits(q, now', n, Len(references)) /\ n <= 2 * Len(references) + pings'
          /\ UNCHANGED <<references, now, idle, flights, fate, pings>>
      BY <1>7, <2>1, <2>2, Given DEF vars
    <2>4. \A x \in DOMAIN references :
             references'[x] = Refers(q, x) + Holding(q.unreliable, x)
      BY <2>1, <2>3, Given
    <2>5. fate \in {"connected", "closed", "abandoned"} /\ references \in Seq(Nat)
      BY DEF IInv, TypeOK
    <2> QED
      BY <2>3, <2>4, <2>5, Given, Together
  <1> QED
    BY <1>1, <1>2, <1>3, <1>4, <1>5, <1>6, <1>7 DEF Next

\* The invariant holds for every size of the clock, of the window and of the
\* application's packets.
THEOREM Invariance == Spec => []IInv
  <1>1. Init => IInv
    BY InitFits
  <1>2. IInv /\ [Next]_vars => IInv'
    BY NextKeeps
  <1> QED
    BY <1>1, <1>2, PTL DEF Spec

\* The data in transit, the references to the packets, the timer and the order
\* of the queue are right in every state (enet_protocol_check_timeouts,
\* enet_protocol_send_reliable_outgoing_commands,
\* enet_protocol_remove_sent_reliable_command, enet_peer_reset).
THEOREM AccountedAlways == Spec => []Accounted
  <1>1. IInv => Accounted
    <2>1. SUFFICES ASSUME IInv PROVE Accounted
      OBVIOUS
    <2>2. /\ peer \in PeerType /\ Counted(peer) /\ Timed(peer)
          /\ FirstAgain(peer.outgoing)
      BY <2>1, Given DEF Fits
    <2>3. InTransitExact /\ TimerExact /\ RetransmitsFirst
      BY <2>2 DEF Counted, Timed, FirstAgain, InTransitExact, TimerExact,
                  RetransmitsFirst
    <2>4. ReferencesExact
      <3>1. peer.sent \in Seq(Outgoing) /\ peer.outgoing \in Seq(Outgoing)
        BY <2>2, PeerFields
      <3>2. \A x : Holding(Reliable, x) = Refers(peer, x)
        BY <3>1, HoldingBoth DEF Reliable, Refers
      <3> QED
        BY <2>1, <3>2, Given DEF ReferencesExact
    <2> QED
      BY <2>3, <2>4 DEF Accounted
  <1> QED
    BY <1>1, Invariance, PTL

\* What an acknowledgement measures, from 16 bits of a sent time, is the round
\* trip when that is shorter than half of their range, and never too long.
THEOREM RoundTripsRight == Spec => []RoundTripRight
  <1>1. IInv => RoundTripRight
    <2>1. SUFFICES ASSUME IInv PROVE RoundTripRight
      OBVIOUS
    <2>2. \A f \in flights : f.sent \in Nat /\ f.sent <= now
      BY <2>1, Given, Constants DEF Times
    <2> QED
      BY <2>1, <2>2, Given, MeasuredRight
  <1> QED
    BY <1>1, Invariance, PTL

\* Nobody is given up who has not been silent for TimeoutMinimum, however often
\* the clock wraps and the sent times and timers with it.
THEOREM Patient == Spec => Patience
  <1>1. IInv /\ [Next]_vars
        => [fate' = "abandoned" =>
              \E c \in Unacknowledged :
                 c.first # 0 /\ now - c.first >= TimeoutMinimum]_vars
    <2>1. SUFFICES ASSUME IInv, Next, fate' = "abandoned"
                   PROVE  \E c \in Unacknowledged :
                             c.first # 0 /\ now - c.first >= TimeoutMinimum
      OBVIOUS
    <2>2. GivesUp
      BY <2>1 DEF Next, Send, Pass, HandleAcknowledge, GiveUp, Close, Reset, Tick
    <2>3. PICK n : n = numbers
      OBVIOUS
    <2>4. PICK k : k = Len(references)
      OBVIOUS
    <2>5. n \in Nat /\ k \in Nat /\ now \in Times
      BY <2>1, <2>3, <2>4, Given
    <2>6. Fits(peer, now, n, k)
      BY <2>1, <2>3, <2>4, Given
    <2> QED
      BY <2>2, <2>5, <2>6, GivesUpLate
  <1> QED
    BY <1>1, Invariance, PTL DEF Spec, Patience

\* After a pass, commands are left in the queue only when others are on their
\* way, however small the throttle makes the window.
THEOREM GoesOn == Spec => SendingGoesOn
  <1>1. IInv => (peer'.outgoing # <<>> /\ peer'.sent = <<>>
                 => ~ \E check \in BOOLEAN : Pass(check))
    BY PassResult
  <1> QED
    BY <1>1, Invariance, PTL DEF Spec, SendingGoesOn

=============================================================================
