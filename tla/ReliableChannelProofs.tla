----------------------- MODULE ReliableChannelProofs -----------------------
(***************************************************************************)
(* The reliable channel for any sizes of its windows: how commands, which  *)
(* are numbered without bound, relate to the numbers of 16 bits that the   *)
(* code sees of them, and what the sender's windows are worth.             *)
(***************************************************************************)
EXTENDS ReliableChannel, Integers, FiniteSetTheorems, SequenceTheorems,
        WellFoundedInduction, TLAPS

\* The window a command would have if numbers did not wrap, and how often they
\* had wrapped before it.
Span(command) == command \div ReliableWindowSize
Round(command) == command \div (ReliableWindows * ReliableWindowSize)

-----------------------------------------------------------------------------
(***************************************************************************)
(* Arithmetic.                                                             *)
(***************************************************************************)

\* What the constants are known to be.
LEMMA Constants ==
    /\ ReliableWindowSize \in Nat /\ ReliableWindowSize >= 1
    /\ FreeReliableWindows \in Nat /\ FreeReliableWindows >= 3
    /\ ReliableWindows \in Nat
    /\ ReliableWindows >= FreeReliableWindows + FreeReliableWindows
    /\ Lifetime \in Nat /\ Lifetime <= ReliableWindowSize
    /\ InTransit \in Nat /\ MaxCommands \in Nat
  <1>1. FreeReliableWindows \in Nat /\ FreeReliableWindows >= 3
    BY WindowsAssumption
  <1>2. 2 * FreeReliableWindows = FreeReliableWindows + FreeReliableWindows
    BY <1>1
  <1> QED
    BY <1>1, <1>2, WindowsAssumption, LimitsAssumption, BoundsAssumption

\* A set of natural numbers has a least one.
LEMMA Least ==
    ASSUME NEW T \in SUBSET Nat, T # {}
    PROVE  \E x \in T : \A y \in T : x <= y
  <1> DEFINE R == {ss \in Nat \X Nat : ss[1] < ss[2]}
  <1>1. IsWellFoundedOn(R, Nat)
    BY NatLessThanWellFounded DEF OpToRel
  <1>2. \A x, y \in Nat : ~(<<y, x>> \in R) => x <= y
    OBVIOUS
  <1> HIDE DEF R
  <1>3. T \subseteq Nat
    OBVIOUS
  <1>4. \E x \in T : \A y \in T : ~(<<y, x>> \in R)
    BY <1>1, <1>3, WFMin
  <1>5. PICK x \in T : \A y \in T : ~(<<y, x>> \in R)
    BY <1>4
  <1>6. \A y \in T : x <= y
    BY <1>2, <1>3, <1>5, Zenon
  <1> QED
    BY <1>6

\* So a bounded one has a greatest one.
LEMMA Greatest ==
    ASSUME NEW b \in Nat, NEW T \in SUBSET (0 .. b), T # {}
    PROVE  /\ Max(T) \in T
           /\ \A y \in T : Max(T) >= y
  <1> DEFINE U == {b - x : x \in T}
  <1>1. U \in SUBSET Nat /\ U # {}
    <2>1. \A x \in T : b - x \in Nat
      OBVIOUS
    <2> QED
      BY <2>1
  <1>2. PICK u \in U : \A y \in U : u <= y
    BY <1>1, Least
  <1>3. PICK x \in T : u = b - x
    BY <1>2
  <1>4. \A y \in T : b - y \in U
    OBVIOUS
  <1> HIDE DEF U
  <1>5. \A y \in T : b - x <= b - y
    BY <1>2, <1>3, <1>4
  <1>6. \A y \in T : x >= y
    BY <1>5
  <1> QED
    BY <1>6 DEF Max

\* Quotient and remainder.
LEMMA DivMod ==
    ASSUME NEW a \in Nat, NEW b \in Nat \ {0}
    PROVE  /\ a \div b \in Nat /\ a % b \in 0 .. b - 1
           /\ a = b * (a \div b) + (a % b)
  OBVIOUS

\* They are the only ones.
LEMMA DivUnique ==
    ASSUME NEW b \in Nat \ {0}, NEW q \in Nat, NEW r \in 0 .. b - 1
    PROVE  (b * q + r) \div b = q /\ (b * q + r) % b = r
  <1> DEFINE a == b * q + r
  <1>1. a \in Nat
    OBVIOUS
  <1>2. ASSUME NEW q1 \in Nat, NEW q2 \in Nat, NEW r1 \in 0 .. b - 1,
               NEW r2 \in 0 .. b - 1, b * q1 + r1 = b * q2 + r2
        PROVE  q1 <= q2
    <2>1. SUFFICES ASSUME q1 > q2 PROVE FALSE
      OBVIOUS
    <2>2. PICK d \in Nat : q1 = q2 + d /\ d >= 1
      BY <2>1
    <2>3. b * q1 = b * q2 + b * d
      BY <2>2
    <2>4. b * d >= b
      BY <2>2
    <2> QED
      BY <1>2, <2>3, <2>4
  <1>3. /\ a \div b \in Nat /\ a % b \in 0 .. b - 1
        /\ a = b * (a \div b) + (a % b)
    BY <1>1, DivMod
  <1> DEFINE q3 == a \div b
             r3 == a % b
  <1>4. b * q + r = b * q3 + r3 /\ q3 \in Nat /\ r3 \in 0 .. b - 1
    BY <1>3
  <1> HIDE DEF a, q3, r3
  <1>5. q <= q3 /\ q3 <= q
    BY <1>2, <1>4
  <1>6. q3 = q
    BY <1>4, <1>5
  <1>7. r3 = r
    BY <1>4, <1>6
  <1> QED
    BY <1>6, <1>7 DEF a, q3, r3

\* A larger number has no smaller quotient; one divisor more is one more.
LEMMA DivMonotone ==
    ASSUME NEW a \in Nat, NEW c \in Nat, NEW b \in Nat \ {0}
    PROVE  /\ a <= c => a \div b <= c \div b
           /\ a <= c + b => a \div b <= (c \div b) + 1
           /\ a > c + b => a \div b > c \div b
  <1>1. /\ a \div b \in Nat /\ a % b \in 0 .. b - 1
        /\ a = b * (a \div b) + (a % b)
    BY DivMod
  <1>2. /\ c \div b \in Nat /\ c % b \in 0 .. b - 1
        /\ c = b * (c \div b) + (c % b)
    BY DivMod
  <1> DEFINE p == a \div b
             q == c \div b
  <1> HIDE DEF p, q
  <1>3. ASSUME NEW x \in Nat, NEW y \in Nat, x > y
        PROVE  b * x >= b * y + b
    <2>1. PICK d \in Nat : x = y + 1 + d
      BY <1>3
    <2>2. b * x = b * y + b + b * d
      BY <2>1
    <2>3. b * d >= 0
      OBVIOUS
    <2> QED
      BY <2>2, <2>3
  <1>4. /\ p \in Nat /\ q \in Nat /\ q + 1 \in Nat
        /\ a < b * p + b /\ a >= b * p
        /\ c < b * q + b /\ c >= b * q
    BY <1>1, <1>2 DEF p, q
  <1>5. ASSUME a <= c PROVE p <= q
    <2>1. p > q => b * p >= b * q + b
      BY <1>3, <1>4
    <2> QED
      BY <1>4, <1>5, <2>1
  <1>6. ASSUME a <= c + b PROVE p <= q + 1
    <2>1. p > q + 1 => b * p >= b * (q + 1) + b
      BY <1>3, <1>4
    <2>2. b * (q + 1) = b * q + b
      BY <1>4
    <2> QED
      BY <1>4, <1>6, <2>1, <2>2
  <1>7. ASSUME a > c + b PROVE p > q
    <2>1. q > p => b * q >= b * p + b
      BY <1>3, <1>4
    <2>2. q = p => b * q = b * p
      OBVIOUS
    <2> QED
      BY <1>4, <1>7, <2>1, <2>2
  <1> QED
    BY <1>5, <1>6, <1>7 DEF p, q

-----------------------------------------------------------------------------
(***************************************************************************)
(* Commands and their numbers.                                             *)
(***************************************************************************)

\* The number of a command, its window and its round: number and window wrap
\* together.
LEMMA NumberOf ==
    ASSUME NEW c \in Nat
    PROVE  /\ Number(c) \in Numbers /\ Number(c) \in Nat
           /\ Round(c) \in Nat /\ Span(c) \in Nat
           /\ c = (ReliableWindows * ReliableWindowSize) * Round(c) + Number(c)
           /\ Window(Number(c)) \in Windows
           /\ Span(c) = ReliableWindows * Round(c) + Window(Number(c))
           /\ Number(c) % ReliableWindowSize = c % ReliableWindowSize
  <1> DEFINE s == ReliableWindowSize
             w == ReliableWindows
             m == w * s
             n == Number(c)
             k == n \div s
             r == n % s
             q == Round(c)
  <1>1. s \in Nat \ {0} /\ w \in Nat \ {0}
    BY Constants
  <1>2. m \in Nat \ {0}
    <2>1. \A a, b \in Nat \ {0} : a * b \in Nat /\ a * b >= 1
      OBVIOUS
    <2> QED
      BY <1>1, <2>1
  <1>3. q \in Nat /\ n \in 0 .. m - 1 /\ c = m * q + n
    BY <1>2, DivMod DEF Round, Number
  <1> HIDE DEF n
  <1>15. n \in Nat
    <2> HIDE DEF m, q
    <2> QED
      BY <1>2, <1>3
  <1>4. k \in Nat /\ r \in 0 .. s - 1 /\ n = s * k + r
    <2> HIDE DEF s
    <2> QED
      BY <1>1, <1>15, DivMod
  <1> HIDE DEF k, r, q
  <1>5. k < w
    <2>1. SUFFICES ASSUME k >= w PROVE FALSE
      BY <1>1, <1>4
    <2>2. PICK d \in Nat : k = w + d
      BY <1>1, <1>4, <2>1
    <2>3. s * k = s * w + s * d
      BY <1>1, <2>2
    <2>4. s * d >= 0 /\ s * w = m
      BY <1>1
    <2> HIDE DEF m, s, w
    <2> QED
      BY <1>1, <1>2, <1>3, <1>4, <2>3, <2>4
  <1>6. c = s * (w * q + k) + r
    <2>1. s * (w * q + k) = m * q + s * k
      BY <1>1, <1>3, <1>4
    <2>2. w * q \in Nat /\ s * (w * q + k) \in Nat /\ m * q \in Nat /\ s * k \in Nat
      BY <1>1, <1>2, <1>3, <1>4
    <2> HIDE DEF m, s, w
    <2> QED
      BY <1>3, <1>4, <2>1, <2>2
  <1>7. w * q + k \in Nat
    BY <1>1, <1>3, <1>4
  <1>8. Span(c) = w * q + k /\ c % s = r
    BY <1>1, <1>4, <1>6, <1>7, DivUnique DEF Span
  <1>9. Number(c) \in Numbers
    BY <1>3 DEF Numbers, n
  <1>10. Window(Number(c)) = k /\ k \in Windows
    BY <1>1, <1>4, <1>5 DEF Window, Windows, k, n
  <1>11. Number(c) % s = r
    BY DEF r, n
  <1>12. Number(c) \in Nat /\ Round(c) \in Nat /\ c = m * Round(c) + Number(c)
    BY <1>2, <1>3 DEF n, q
  <1>13. Span(c) \in Nat /\ Span(c) = w * Round(c) + Window(Number(c))
    BY <1>7, <1>8, <1>10 DEF q
  <1>14. Window(Number(c)) \in Windows /\ Number(c) % s = c % s
    BY <1>8, <1>10, <1>11
  <1> QED
    BY <1>9, <1>12, <1>13, <1>14

\* Windows follow the commands.
LEMMA SpanMonotone ==
    ASSUME NEW c \in Nat, NEW d \in Nat
    PROVE  /\ Span(c) \in Nat /\ Span(d) \in Nat
           /\ c <= d => Span(c) <= Span(d)
           /\ c <= d + ReliableWindowSize => Span(c) <= Span(d) + 1
           /\ c > d + ReliableWindowSize => Span(c) > Span(d)
  BY Constants, DivMonotone, DivMod DEF Span

\* The first command of a window, and the one before it.
LEMMA SpanSteps ==
    ASSUME NEW c \in Nat \ {0}
    PROVE  /\ c % ReliableWindowSize = 0 => Span(c) = Span(c - 1) + 1
           /\ c % ReliableWindowSize # 0 => Span(c) = Span(c - 1)
           /\ Number(c) % ReliableWindowSize = c % ReliableWindowSize
  <1> DEFINE s == ReliableWindowSize
             q == c \div s
             r == c % s
  <1>1. s \in Nat \ {0}
    BY Constants
  <1>2. q \in Nat /\ r \in 0 .. s - 1 /\ c = s * q + r
    BY <1>1, DivMod
  <1>3. q = Span(c)
    BY DEF Span
  <1>4. Number(c) % s = r
    BY NumberOf
  <1> HIDE DEF q, r
  <1>5. CASE r # 0
    <2>1. c - 1 = s * q + (r - 1) /\ r - 1 \in 0 .. s - 1
      BY <1>1, <1>2, <1>5
    <2>2. (c - 1) \div s = q
      BY <1>1, <1>2, <2>1, DivUnique
    <2> QED
      BY <1>3, <1>4, <1>5, <2>2 DEF Span, r
  <1>6. CASE r = 0
    <2>1. q >= 1
      <3>1. q = 0 => s * q = 0
        BY <1>1
      <3> QED
        BY <1>2, <1>6, <3>1
    <2>2. PICK p \in Nat : q = p + 1
      BY <1>2, <2>1
    <2>3. s * q = s * p + s
      BY <1>1, <2>2
    <2>4. c - 1 = s * p + (s - 1) /\ s - 1 \in 0 .. s - 1
      BY <1>1, <1>2, <1>6, <2>2, <2>3
    <2>5. (c - 1) \div s = p
      BY <1>1, <2>2, <2>4, DivUnique
    <2> QED
      BY <1>3, <1>4, <1>6, <2>2, <2>5 DEF Span, r
  <1> QED
    BY <1>5, <1>6

\* Less than a round apart, a command in the same round or in the next.
LEMMA Rounds ==
    ASSUME NEW e \in Nat, NEW c \in Nat, e <= c,
           Span(c) < Span(e) + ReliableWindows
    PROVE  \/ /\ Round(c) = Round(e)
              /\ Number(c) - Number(e) = c - e
              /\ Window(Number(c)) - Window(Number(e)) = Span(c) - Span(e)
           \/ /\ Round(c) = Round(e) + 1
              /\ Number(c) < Number(e)
              /\ Window(Number(c)) + ReliableWindows - Window(Number(e))
                    = Span(c) - Span(e)
  <1> DEFINE w == ReliableWindows
             m == w * ReliableWindowSize
             p == Round(c)
             q == Round(e)
             x == Number(c)
             y == Number(e)
             u == Window(x)
             v == Window(y)
             sc == Span(c)
             se == Span(e)
  <1>1. /\ p \in Nat /\ q \in Nat /\ x \in 0 .. m - 1 /\ y \in 0 .. m - 1
        /\ c = m * p + x /\ e = m * q + y
        /\ u \in 0 .. w - 1 /\ v \in 0 .. w - 1
        /\ sc = w * p + u /\ se = w * q + v
    BY NumberOf DEF Numbers, Windows
  <1>2. w \in Nat /\ m \in Nat /\ sc < se + w /\ e <= c
    BY Constants
  <1>3. Span(e) <= Span(c)
    BY SpanMonotone
  <1>4. sc >= se
    BY <1>3
  <1>5. (c - e >= m) => sc >= se + w
    <2>1. SUFFICES ASSUME c - e >= m PROVE sc >= se + w
      OBVIOUS
    <2>2. e + m \in Nat /\ e + m <= c
      BY <1>2, <2>1
    <2>3. Span(e + m) = se + w
      <3>1. m * (q + 1) = m * q + m
        BY <1>1, <1>2
      <3>2. m * q \in Nat
        BY <1>1, <1>2
      <3> DEFINE g == e + m
      <3>3. g = m * (q + 1) + y /\ m \in Nat \ {0} /\ q + 1 \in Nat
        <4> HIDE DEF m, q, y
        <4> QED
          BY <1>1, <1>2, <3>1, <3>2
      <3>4. Number(g) = g % m /\ Round(g) = g \div m
        BY DEF Number, Round
      <3>5. g % m = y /\ g \div m = q + 1
        <4> HIDE DEF m, q, y, g
        <4> QED
          BY <1>1, <3>3, DivUnique
      <3>6. Span(g) = w * Round(g) + Window(Number(g))
        BY <2>2, NumberOf
      <3>7. w * (q + 1) = w * q + w
        BY <1>1, <1>2
      <3>8. Span(g) = w * (q + 1) + v
        <4> HIDE DEF m, q, y, g
        <4> QED
          BY <3>4, <3>5, <3>6
      <3>9. Span(g) = se + w
        <4> HIDE DEF m, q, y, v, w, se, g
        <4> QED
          BY <1>1, <1>2, <3>7, <3>8
      <3> QED
        BY <3>9
    <2>4. Span(e + m) <= Span(c)
      BY <2>2, SpanMonotone
    <2> QED
      BY <2>3, <2>4
  <1>6. c - e < m
    BY <1>1, <1>2, <1>5, SpanMonotone
  <1> HIDE DEF w, m, p, q, x, y, u, v, sc, se
  <1>7. p >= q
    <2>1. SUFFICES ASSUME q > p PROVE FALSE
      BY <1>1
    <2>2. PICK d \in Nat : q = p + 1 + d
      BY <1>1, <2>1
    <2>3. m * q = m * p + m + m * d /\ m * d >= 0
      BY <1>1, <1>2, <2>2
    <2> QED
      BY <1>1, <1>2, <2>3
  <1>8. p <= q + 1
    <2>1. SUFFICES ASSUME p > q + 1 PROVE FALSE
      BY <1>1
    <2>2. PICK d \in Nat : p = q + 2 + d
      BY <1>1, <2>1
    <2>3. m * p = m * q + m + m + m * d /\ m * d >= 0
      BY <1>1, <1>2, <2>2
    <2> QED
      BY <1>1, <1>2, <1>6, <2>3
  <1>9. CASE p = q
    <2>1. m * p = m * q /\ w * p = w * q
      BY <1>9
    <2>2. x - y = c - e /\ u - v = sc - se
      BY <1>1, <1>2, <2>1
    <2> QED
      BY <1>9, <2>2 DEF p, q, x, y, u, v, sc, se
  <1>10. CASE p = q + 1
    <2>1. m * p = m * q + m /\ w * p = w * q + w
      BY <1>1, <1>2, <1>10
    <2>2. x < y /\ u + w - v = sc - se
      BY <1>1, <1>2, <1>6, <2>1
    <2> QED
      BY <1>10, <2>2 DEF p, q, x, y, u, v, sc, se, w
  <1> QED
    BY <1>1, <1>7, <1>8, <1>9, <1>10

\* Two commands less than a round of windows apart have different numbers.
LEMMA SameNumber ==
    ASSUME NEW c \in Nat, NEW d \in Nat, Number(c) = Number(d),
           Span(c) < Span(d) + ReliableWindows,
           Span(d) < Span(c) + ReliableWindows
    PROVE  c = d
  <1>1. Number(c) \in Nat /\ Number(d) \in Nat
    BY NumberOf
  <1>2. ASSUME NEW x \in Nat, NEW y \in Nat, x <= y, Number(x) = Number(y),
               Span(y) < Span(x) + ReliableWindows
        PROVE  x = y
    <2>1. Number(x) \in Nat
      BY NumberOf
    <2>2. Number(y) - Number(x) = y - x
      BY <1>2, <2>1, Rounds
    <2> QED
      BY <1>2, <2>1, <2>2
  <1> QED
    BY <1>2

\* How far ahead a number seems, of a command that comes after the expected one
\* or is it, and of one that comes before: then it seems almost a round ahead.
LEMMA AheadOf ==
    ASSUME NEW e \in Nat, NEW c \in Nat
    PROVE  /\ e <= c /\ Span(c) < Span(e) + ReliableWindows
                 => Ahead(Number(c), Number(e)) = Span(c) - Span(e)
           /\ c < e /\ Span(e) < Span(c) + ReliableWindows
                 => Ahead(Number(c), Number(e))
                       = Span(c) + ReliableWindows - Span(e)
  <1>1. /\ Number(c) \in Nat /\ Number(e) \in Nat
        /\ Window(Number(c)) \in Nat /\ Window(Number(e)) \in Nat
        /\ Span(c) \in Nat /\ Span(e) \in Nat /\ ReliableWindows \in Nat
    BY NumberOf, Constants DEF Windows
  <1>2. CASE e <= c /\ Span(c) < Span(e) + ReliableWindows
    <2>1. CASE Number(c) - Number(e) = c - e
               /\ Window(Number(c)) - Window(Number(e)) = Span(c) - Span(e)
      BY <1>1, <1>2, <2>1 DEF Ahead
    <2>2. CASE Number(c) < Number(e)
               /\ Window(Number(c)) + ReliableWindows - Window(Number(e))
                    = Span(c) - Span(e)
      BY <1>1, <1>2, <2>2 DEF Ahead
    <2> QED
      BY <1>2, <2>1, <2>2, Rounds
  <1>3. CASE c < e /\ Span(e) < Span(c) + ReliableWindows
    <2>1. CASE Number(e) - Number(c) = e - c
               /\ Window(Number(e)) - Window(Number(c)) = Span(e) - Span(c)
      BY <1>1, <1>3, <2>1 DEF Ahead
    <2>2. CASE Number(e) < Number(c)
               /\ Window(Number(e)) + ReliableWindows - Window(Number(c))
                    = Span(e) - Span(c)
      BY <1>1, <1>3, <2>2 DEF Ahead
    <2> QED
      BY <1>3, <2>1, <2>2, Rounds
  <1> QED
    BY <1>2, <1>3

\* The number that follows a number is that of the next command.
LEMMA FollowingIsNext ==
    ASSUME NEW e \in Nat
    PROVE  Following(Number(e), 1) = Number(e + 1)
  <1> DEFINE m == ReliableWindows * ReliableWindowSize
             x == Number(e)
             q == Round(e)
  <1>1. m \in Nat \ {0}
    <2>1. \A a, b \in Nat \ {0} : a * b \in Nat /\ a * b >= 1
      OBVIOUS
    <2> QED
      BY <2>1, Constants
  <1>2. q \in Nat /\ x \in 0 .. m - 1 /\ e = m * q + x
    BY NumberOf DEF Numbers
  <1>3. /\ Following(Number(e), 1) = (x + 1) % m
        /\ Number(e + 1) = (e + 1) % m
    BY DEF Following, Number
  <1> HIDE DEF m, x, q
  <1>4. CASE x + 1 < m
    <2>1. e + 1 = m * q + (x + 1) /\ x + 1 \in 0 .. m - 1
      BY <1>1, <1>2, <1>4
    <2>2. x + 1 = m * 0 + (x + 1)
      BY <1>1, <1>2
    <2>3. (e + 1) % m = x + 1
      BY <1>1, <1>2, <2>1, DivUnique
    <2>4. (x + 1) % m = x + 1
      BY <1>1, <2>1, <2>2, DivUnique
    <2> QED
      BY <1>3, <2>3, <2>4
  <1>5. CASE x + 1 = m
    <2>1. m * (q + 1) = m * q + m
      BY <1>1, <1>2
    <2>2. e + 1 = m * (q + 1) + 0 /\ 0 \in 0 .. m - 1 /\ q + 1 \in Nat
      BY <1>1, <1>2, <1>5, <2>1
    <2>3. m = m * 1 + 0
      BY <1>1
    <2>4. (e + 1) % m = 0
      BY <1>1, <2>2, DivUnique
    <2>5. (x + 1) % m = 0
      BY <1>1, <1>5, <2>2, <2>3, DivUnique
    <2> QED
      BY <1>3, <2>4, <2>5
  <1> QED
    BY <1>1, <1>2, <1>4, <1>5

\* Ahead of the expected command, less than a round, the comparison of numbers
\* with its two cases is the comparison of the commands.
LEMMA PastIsAfter ==
    ASSUME NEW e \in Nat, incoming = Number(e), NEW x \in Nat, NEW y \in Nat,
           e < x, e < y, Span(x) < Span(e) + ReliableWindows,
           Span(y) < Span(e) + ReliableWindows
    PROVE  Past(Number(x), Number(y)) <=> x > y
  <1>1. /\ Number(e) \in Nat /\ Number(x) \in Nat /\ Number(y) \in Nat
        /\ Round(e) \in Nat
    BY NumberOf
  <1>2. ASSUME NEW c \in {x, y}
        PROVE  \/ /\ Round(c) = Round(e) /\ Number(c) - Number(e) = c - e
                  /\ Number(c) > Number(e)
               \/ Round(c) = Round(e) + 1 /\ Number(c) < Number(e)
    <2>1. /\ c \in Nat /\ e < c /\ e <= c /\ Number(c) \in Nat
          /\ Span(c) < Span(e) + ReliableWindows
      BY <1>1
    <2>2. Number(c) - Number(e) = c - e => Number(c) > Number(e)
      BY <1>1, <2>1
    <2> QED
      BY <2>1, <2>2, Rounds
  <1>3. ASSUME NEW c \in Nat, NEW d \in Nat, Round(c) = Round(d)
        PROVE  Number(c) - Number(d) = c - d
    <2> DEFINE g == (ReliableWindows * ReliableWindowSize) * Round(c)
    <2>1. c = g + Number(c) /\ d = g + Number(d) /\ Round(c) \in Nat
          /\ Number(c) \in Nat /\ Number(d) \in Nat
      BY <1>3, NumberOf
    <2>2. g \in Nat
      BY <2>1, Constants
    <2> HIDE DEF g
    <2> QED
      BY <2>1, <2>2
  <1>4. Round(x) = Round(y) => (Number(x) > Number(y) <=> x > y)
    BY <1>1, <1>3
  <1>5. CASE Round(x) = Round(y)
    <2>1. \/ Number(x) > Number(e) /\ Number(y) > Number(e)
          \/ Number(x) < Number(e) /\ Number(y) < Number(e)
      <3> HIDE DEF Past
      <3> QED
        BY <1>1, <1>2, <1>5
    <2> QED
      BY <1>1, <1>4, <1>5, <2>1 DEF Past
  <1>6. ASSUME NEW c \in {x, y}, NEW d \in {x, y},
               Round(c) = Round(e), Round(d) = Round(e) + 1
        PROVE  c < d
    <2> DEFINE m == ReliableWindows * ReliableWindowSize
               g == m * Round(e)
               h == m * Round(d)
    <2>1. h = g + m
      BY <1>1, <1>6, Constants
    <2>2. c = g + Number(c) /\ Number(c) \in 0 .. m - 1
      BY <1>6, NumberOf DEF Numbers
    <2>3. d = h + Number(d) /\ Number(d) \in Nat
      BY <1>6, NumberOf
    <2>4. m \in Nat /\ g \in Nat
      BY <1>1, Constants
    <2> HIDE DEF g, h, m
    <2> QED
      BY <2>1, <2>2, <2>3, <2>4
  <1>7. CASE Round(x) = Round(e) /\ Round(y) = Round(e) + 1
    <2>1. Number(x) > Number(e) /\ Number(y) < Number(e)
      BY <1>1, <1>2, <1>7
    <2>2. x < y
      BY <1>6, <1>7
    <2> QED
      BY <1>1, <2>1, <2>2 DEF Past
  <1>8. CASE Round(y) = Round(e) /\ Round(x) = Round(e) + 1
    <2>1. Number(y) > Number(e) /\ Number(x) < Number(e)
      BY <1>1, <1>2, <1>8
    <2>2. y < x
      BY <1>6, <1>8
    <2> QED
      BY <1>1, <2>1, <2>2 DEF Past
  <1> QED
    BY <1>2, <1>5, <1>7, <1>8

-----------------------------------------------------------------------------
(***************************************************************************)
(* Packets.                                                                *)
(***************************************************************************)

\* A packet lies in two windows at most: 4097 commands, more than 5 MB.
ShortPackets ==
    \A workload \in Workloads : \A n \in DOMAIN workload :
        workload[n] <= ReliableWindowSize + 1

\* The packets that were sent follow one another and leave no command out.
PacketsInv ==
    /\ lengths \in Workloads
    /\ ends \in Seq(Commands)
    /\ Len(ends) <= Len(lengths)
    /\ \A m, n \in 0 .. Len(ends) : m < n => End(m) < End(n)
    /\ \A n \in DOMAIN ends : End(n) <= End(n - 1) + ReliableWindowSize + 1
    /\ \A c \in 1 .. queued : \E n \in DOMAIN ends : c \in Content(n)

\* The last commands of packets are commands, in order.
LEMMA EndsInOrder ==
    ASSUME PacketsInv
    PROVE  /\ Len(ends) \in Nat /\ DOMAIN ends = 1 .. Len(ends)
           /\ queued \in Nat /\ queued <= MaxCommands
           /\ End(0) = 0
           /\ \A n \in 0 .. Len(ends) : End(n) \in Nat /\ End(n) <= queued
           /\ \A m, n \in 0 .. Len(ends) : m <= n => End(m) <= End(n)
  <1>1. ends \in Seq(Commands)
    BY DEF PacketsInv
  <1>2. Len(ends) \in Nat /\ DOMAIN ends = 1 .. Len(ends)
    BY <1>1
  <1>3. \A n \in 1 .. Len(ends) : ends[n] \in 1 .. MaxCommands
    BY <1>1, ElementOfSeq DEF Commands
  <1>4. \A n \in 0 .. Len(ends) : End(n) \in Nat /\ End(n) <= MaxCommands
    BY <1>2, <1>3, Constants DEF End
  <1>5. \A m, n \in 0 .. Len(ends) : m <= n => End(m) <= End(n)
    <2> SUFFICES ASSUME NEW m \in 0 .. Len(ends), NEW n \in 0 .. Len(ends), m <= n
                 PROVE  End(m) <= End(n)
      OBVIOUS
    <2>1. m = n \/ m < n
      BY <1>2
    <2>2. m < n => End(m) < End(n)
      BY DEF PacketsInv
    <2> QED
      BY <1>4, <2>1, <2>2
  <1>6. Len(ends) \in 0 .. Len(ends)
    BY <1>2
  <1>7. \A n \in 0 .. Len(ends) : n <= Len(ends)
    BY <1>2
  <1>8. queued = End(Len(ends))
    BY DEF queued
  <1> QED
    BY <1>2, <1>4, <1>5, <1>6, <1>7, <1>8 DEF End

\* The commands of a packet: some, not more than there are, in two windows.
LEMMA ContentOf ==
    ASSUME PacketsInv, NEW n \in DOMAIN ends
    PROVE  /\ First(n) \in Nat /\ End(n) \in Nat /\ First(n) = End(n - 1) + 1
           /\ 1 <= First(n) /\ First(n) <= End(n) /\ End(n) <= queued
           /\ First(n) \in Content(n) /\ End(n) \in Content(n)
           /\ Content(n) \subseteq 1 .. queued
           /\ Content(n) \subseteq Commands
           /\ IsFiniteSet(Content(n)) /\ Cardinality(Content(n)) \in Nat \ {0}
           /\ Cardinality(Content(n)) = 1 => Content(n) = {First(n)}
           /\ \A c \in Content(n) :
                 /\ c \in Nat /\ First(n) <= c /\ c <= End(n)
                 /\ Span(First(n)) <= Span(c) /\ Span(c) <= Span(First(n)) + 1
  <1>1. /\ n \in 1 .. Len(ends) /\ n - 1 \in 0 .. Len(ends)
        /\ n \in 0 .. Len(ends) /\ n - 1 < n
    BY EndsInOrder
  <1>2. /\ End(n) \in Nat /\ End(n) <= queued /\ End(n - 1) \in Nat
        /\ End(n - 1) < End(n)
        /\ End(n) <= End(n - 1) + ReliableWindowSize + 1
        /\ queued \in Nat /\ queued <= MaxCommands
    BY <1>1, EndsInOrder DEF PacketsInv
  <1>3. Content(n) = First(n) .. End(n) /\ First(n) = End(n - 1) + 1
    BY DEF Content, First
  <1> DEFINE a == First(n)
             b == End(n)
  <1>4. a \in Nat /\ b \in Nat /\ 1 <= a /\ a <= b /\ b <= a + ReliableWindowSize
        /\ b <= queued
    BY <1>2, <1>3, Constants
  <1>5. \A c \in a .. b : Span(a) <= Span(c) /\ Span(c) <= Span(a) + 1
    <2> SUFFICES ASSUME NEW c \in a .. b
                 PROVE  Span(a) <= Span(c) /\ Span(c) <= Span(a) + 1
      OBVIOUS
    <2>1. c \in Nat /\ a <= c /\ c <= a + ReliableWindowSize
      BY <1>4, Constants
    <2> QED
      BY <1>4, <2>1, SpanMonotone
  <1>6. IsFiniteSet(a .. b) /\ Cardinality(a .. b) = b - a + 1
    BY <1>4, FS_Interval
  <1>7. b - a + 1 \in Nat \ {0} /\ (b - a + 1 = 1 => a .. b = {a})
    BY <1>4
  <1>8. \A c \in a .. b : c \in 1 .. queued /\ c \in Commands
    BY <1>2, <1>4, Constants DEF Commands
  <1> HIDE DEF a, b
  <1>9. a \in a .. b /\ b \in a .. b
    BY <1>4
  <1>10. \A c \in a .. b : c \in Nat /\ a <= c /\ c <= b
    BY <1>4
  <1> QED
    BY <1>3, <1>4, <1>5, <1>6, <1>7, <1>8, <1>9, <1>10 DEF a, b

\* The packets are in the order of their numbers.
LEMMA PacketsApart ==
    ASSUME PacketsInv, NEW m \in DOMAIN ends, NEW n \in DOMAIN ends
    PROVE  /\ m < n => End(m) < First(n) /\ First(m) < First(n)
           /\ m < n => \A c \in Content(m) : c \notin Content(n)
           /\ m < n <=> First(m) < First(n)
           /\ m = n <=> First(m) = First(n)
  <1>1. ASSUME NEW x \in DOMAIN ends, NEW y \in DOMAIN ends, x < y
        PROVE  /\ End(x) < First(y) /\ First(x) < First(y)
               /\ \A c \in Content(x) : c \notin Content(y)
    <2>1. x \in 0 .. Len(ends) /\ y - 1 \in 0 .. Len(ends) /\ x <= y - 1
      BY <1>1, EndsInOrder
    <2>2. End(x) <= End(y - 1) /\ End(x) \in Nat /\ End(y - 1) \in Nat
      BY <2>1, EndsInOrder
    <2>3. First(y) = End(y - 1) + 1 /\ First(x) \in Nat /\ First(x) <= End(x)
      BY ContentOf
    <2>4. \A c \in Content(x) : c \in Nat /\ c <= End(x)
      BY ContentOf
    <2>5. \A c \in Content(y) : c \in Nat /\ First(y) <= c
      BY ContentOf
    <2>6. End(x) < First(y) /\ First(x) < First(y) /\ First(y) \in Nat
      BY <2>2, <2>3
    <2>7. ASSUME NEW c \in Content(x), c \in Content(y) PROVE FALSE
      <3>1. c \in Nat /\ c <= End(x) /\ First(y) <= c
        BY <2>4, <2>5, <2>7
      <3> QED
        BY <2>2, <2>6, <3>1
    <2> QED
      BY <2>6, <2>7
  <1>2. m \in Nat /\ n \in Nat
    BY EndsInOrder
  <1>3. m < n \/ m = n \/ n < m
    BY <1>2
  <1>4. First(m) \in Nat /\ First(n) \in Nat
    BY ContentOf
  <1> QED
    BY <1>1, <1>2, <1>3, <1>4

\* A command belongs to one packet.
LEMMA PacketOfContent ==
    ASSUME PacketsInv
    PROVE  /\ \A n \in DOMAIN ends : \A c \in Content(n) : PacketOf(c) = n
           /\ \A c \in 1 .. queued :
                 PacketOf(c) \in DOMAIN ends /\ c \in Content(PacketOf(c))
  <1>1. \A n : Content(n) = End(n - 1) + 1 .. End(n)
    BY DEF Content, First
  <1>2. \A c : PacketOf(c) = CHOOSE n \in DOMAIN ends : c \in Content(n)
    BY <1>1 DEF PacketOf
  <1>3. \A m, n \in DOMAIN ends : m # n => \A c \in Content(m) : c \notin Content(n)
    <2> SUFFICES ASSUME NEW m \in DOMAIN ends, NEW n \in DOMAIN ends, m # n
                 PROVE  \A c \in Content(m) : c \notin Content(n)
      OBVIOUS
    <2>1. m \in Nat /\ n \in Nat
      BY EndsInOrder
    <2>2. m < n \/ n < m
      BY <2>1
    <2> QED
      BY <2>2, PacketsApart
  <1>4. ASSUME NEW n \in DOMAIN ends, NEW c \in Content(n)
        PROVE  PacketOf(c) = n
    <2>1. \A m \in DOMAIN ends : c \in Content(m) => m = n
      BY <1>3
    <2> QED
      BY <1>2, <2>1
  <1>5. \A c \in 1 .. queued : \E n \in DOMAIN ends : c \in Content(n)
    BY DEF PacketsInv
  <1> QED
    BY <1>4, <1>5

-----------------------------------------------------------------------------
(***************************************************************************)
(* The sender.                                                             *)
(***************************************************************************)

\* Windows are freed in time: what is outstanding is less than a round of
\* windows, short of FreeReliableWindows, behind what was sent last.
OutstandingNear ==
    \A c \in outstanding :
        Span(attempted) + FreeReliableWindows <= Span(c) + ReliableWindows

\* A copy that is late left when it was so, and at most a window ago; its packet
\* begins in its own window.
LateNear ==
    \A c \in Commands : late[c] # 0 =>
        /\ c <= late[c] /\ attempted <= late[c] + Lifetime
        /\ Span(late[c]) + FreeReliableWindows <= Span(c) + ReliableWindows
        /\ Span(First(PacketOf(c))) = Span(c)

\* So an acknowledgement on its way is of a command at most a window older.
AcksNear ==
    \A c \in acks :
        Span(attempted) + FreeReliableWindows <= Span(c) + ReliableWindows + 1

\* A command of the window before was acknowledged: the sender follows the
\* receiver.
Follows ==
    \/ Span(attempted) <= 1
    \/ \E c \in (1 .. attempted) \ outstanding : Span(c) = Span(attempted) - 1

\* What the sender keeps: its types, and the four above.
SenderInv ==
    /\ attempted \in 0 .. queued
    /\ outstanding \in SUBSET (1 .. attempted)
    /\ reliableWindows \in [Windows -> Nat]
    /\ usedReliableWindows \in SUBSET Windows
    /\ late \in [Commands -> 0 .. attempted]
    /\ acks \in SUBSET (1 .. attempted)
    /\ WindowsCounted
    /\ OutstandingNear /\ LateNear /\ AcksNear /\ Follows

\* The commands outstanding of a window.
InWindowOf(w) == {c \in outstanding : Window(Number(c)) = w}

\* Two commands less than a round of windows apart, whose windows have the same
\* index, are of the same window.
LEMMA SameSpan ==
    ASSUME NEW c \in Nat, NEW d \in Nat, Window(Number(c)) = Window(Number(d)),
           Span(c) < Span(d) + ReliableWindows,
           Span(d) < Span(c) + ReliableWindows
    PROVE  Span(c) = Span(d)
  <1> DEFINE w == ReliableWindows
             p == Round(c)
             q == Round(d)
             u == Window(Number(c))
             sc == Span(c)
             sd == Span(d)
  <1>1. /\ p \in Nat /\ q \in Nat /\ u \in Nat /\ w \in Nat
        /\ sc = w * p + u /\ sd = w * q + u
        /\ sc < sd + w /\ sd < sc + w
    BY NumberOf, Constants DEF Windows
  <1> HIDE DEF w, p, q, u, sc, sd
  <1>2. ASSUME NEW x \in Nat, NEW y \in Nat, x > y PROVE w * x >= w * y + w
    <2>1. PICK z \in Nat : x = y + 1 + z
      BY <1>2
    <2>2. w * x = w * y + w + w * z /\ w * z >= 0
      BY <1>1, <2>1
    <2> QED
      BY <1>1, <2>2
  <1>3. p = q
    <2>1. p > q => w * p >= w * q + w
      BY <1>1, <1>2
    <2>2. q > p => w * q >= w * p + w
      BY <1>1, <1>2
    <2> QED
      BY <1>1, <2>1, <2>2
  <1>4. sc = sd
    BY <1>1, <1>3
  <1> QED
    BY <1>4 DEF sc, sd

\* The windows of what the sender keeps.
LEMMA OutstandingSpans ==
    ASSUME SenderInv, PacketsInv
    PROVE  /\ attempted \in Nat /\ Span(attempted) \in Nat
           /\ \A c \in outstanding :
                 /\ c \in Nat /\ c <= attempted /\ Span(c) \in Nat
                 /\ Span(c) <= Span(attempted)
                 /\ Span(attempted) + FreeReliableWindows
                       <= Span(c) + ReliableWindows
                 /\ Window(Number(c)) \in Windows
           /\ IsFiniteSet(outstanding)
  <1>1. attempted \in Nat /\ outstanding \in SUBSET (1 .. attempted)
    BY EndsInOrder DEF SenderInv
  <1>2. IsFiniteSet(outstanding)
    <2>1. IsFiniteSet(1 .. attempted)
      BY <1>1, FS_Interval
    <2> QED
      BY <1>1, <2>1, FS_Subset
  <1>3. ASSUME NEW c \in outstanding
        PROVE  /\ c \in Nat /\ c <= attempted
               /\ Span(attempted) + FreeReliableWindows
                     <= Span(c) + ReliableWindows
    BY <1>1 DEF SenderInv, OutstandingNear
  <1>4. ASSUME NEW c \in outstanding
        PROVE  /\ Span(c) \in Nat /\ Span(c) <= Span(attempted)
               /\ Window(Number(c)) \in Windows
    BY <1>1, <1>3, SpanMonotone, NumberOf
  <1> QED
    BY <1>1, <1>2, <1>3, <1>4, SpanMonotone

\* Outstanding commands whose windows have the same index are of the same window.
LEMMA OneSpanPerWindow ==
    ASSUME SenderInv, PacketsInv, NEW w \in Windows,
           NEW c \in InWindowOf(w), NEW d \in InWindowOf(w)
    PROVE  Span(c) = Span(d)
  <1>1. c \in outstanding /\ d \in outstanding
        /\ Window(Number(c)) = Window(Number(d))
    BY DEF InWindowOf
  <1>2. /\ Span(c) < Span(d) + ReliableWindows
        /\ Span(d) < Span(c) + ReliableWindows
    BY <1>1, OutstandingSpans, Constants
  <1> QED
    BY <1>1, <1>2, OutstandingSpans, SameSpan

\* A window of outstanding commands has no more than its size.
LEMMA WindowBound ==
    ASSUME SenderInv, PacketsInv, NEW w \in Windows
    PROVE  /\ IsFiniteSet(InWindowOf(w)) /\ Cardinality(InWindowOf(w)) \in Nat
           /\ Cardinality(InWindowOf(w)) <= ReliableWindowSize
           /\ reliableWindows[w] = Cardinality(InWindowOf(w))
           /\ w \in usedReliableWindows <=> InWindowOf(w) # {}
  <1>1. InWindowOf(w) \in SUBSET outstanding
    BY DEF InWindowOf
  <1>2. IsFiniteSet(InWindowOf(w)) /\ Cardinality(InWindowOf(w)) \in Nat
    BY <1>1, OutstandingSpans, FS_Subset, FS_CardinalityType
  <1>3. /\ reliableWindows[w] = Cardinality(InWindowOf(w))
        /\ w \in usedReliableWindows <=> reliableWindows[w] # 0
    BY DEF SenderInv, WindowsCounted, InWindowOf
  <1>4. InWindowOf(w) = {} <=> Cardinality(InWindowOf(w)) = 0
    BY <1>2, FS_EmptySet
  <1>5. CASE InWindowOf(w) = {}
    BY <1>2, <1>3, <1>4, <1>5, Constants
  <1>6. CASE InWindowOf(w) # {}
    <2>1. PICK d \in InWindowOf(w) : TRUE
      BY <1>6
    <2> DEFINE s == ReliableWindowSize
               k == Span(d)
               T == s * k .. s * k + (s - 1)
    <2>2. s \in Nat \ {0} /\ k \in Nat /\ s * k \in Nat
      <3>1. s \in Nat \ {0} /\ k \in Nat
        BY <1>1, <2>1, OutstandingSpans, Constants
      <3> QED
        BY <3>1
    <2>3. InWindowOf(w) \in SUBSET T
      <3> SUFFICES ASSUME NEW c \in InWindowOf(w) PROVE c \in T
        OBVIOUS
      <3>1. c \in Nat /\ Span(c) = k
        BY <1>1, <2>1, OutstandingSpans, OneSpanPerWindow
      <3>2. c = s * (c \div s) + (c % s) /\ c % s \in 0 .. s - 1
        BY <2>2, <3>1, DivMod
      <3>3. c \div s = k
        BY <3>1 DEF Span
      <3> DEFINE r == c % s
      <3>4. c = s * k + r /\ r \in 0 .. s - 1
        BY <3>2, <3>3
      <3> HIDE DEF s, k, r
      <3> QED
        BY <2>2, <3>4
    <2>4. IsFiniteSet(T) /\ Cardinality(T) = s
      <3> HIDE DEF s, k
      <3>1. IsFiniteSet(T) /\ Cardinality(T) = s * k + (s - 1) - s * k + 1
        BY <2>2, FS_Interval
      <3> QED
        BY <2>2, <3>1
    <2>5. Cardinality(InWindowOf(w)) <= Cardinality(T)
      BY <2>3, <2>4, FS_Subset
    <2> QED
      BY <1>2, <1>3, <1>4, <1>6, <2>4, <2>5
  <1> QED
    BY <1>5, <1>6


\* What the first command of a window finds: the window before it acknowledged
\* in part, and FreeReliableWindows ahead of it all acknowledged.
LEMMA WindowOpens ==
    ASSUME SenderInv, PacketsInv, NEW c, c = attempted + 1,
           c % ReliableWindowSize = 0, ~WindowWrap(Number(c))
    PROVE  /\ Span(c) = Span(attempted) + 1
           /\ \A o \in outstanding :
                 Span(c) + FreeReliableWindows <= Span(o) + ReliableWindows
           /\ Span(c) >= 2 => \E d \in (1 .. attempted) \ outstanding :
                                 Span(d) = Span(attempted)
  <1>1. /\ attempted \in Nat /\ c \in Nat \ {0} /\ c - 1 = attempted
        /\ Span(attempted) \in Nat
    BY OutstandingSpans
  <1>2. /\ Span(c) = Span(attempted) + 1
        /\ Number(c) % ReliableWindowSize = 0
    BY <1>1, SpanSteps
  <1> DEFINE w == ReliableWindows
             f == FreeReliableWindows
             s == ReliableWindowSize
             u == Window(Number(c))
             prior == Window(Number(attempted))
             p == Round(c)
             pa == Round(attempted)
             sc == Span(c)
             sa == Span(attempted)
  <1>3. /\ sc = w * p + u /\ p \in Nat /\ u \in 0 .. w - 1 /\ u \in Nat
        /\ sa = w * pa + prior /\ pa \in Nat /\ prior \in 0 .. w - 1
        /\ w \in Nat \ {0} /\ f \in Nat /\ f >= 3 /\ w >= f + f /\ s \in Nat \ {0}
        /\ sc = sa + 1 /\ sa \in Nat
    BY SMTT(30), <1>1, <1>2, NumberOf, Constants DEF Windows
  <1>8. /\ w \in Nat \ {0} /\ f \in Nat /\ f >= 3 /\ s \in Nat \ {0}
        /\ sc = sa + 1 /\ sa \in Nat /\ sc \in Nat
    BY <1>3
  <1>4. ASSUME NEW i \in 0 .. f - 1
        PROVE  (u + i) % w \notin usedReliableWindows
    BY <1>2, <1>4 DEF WindowWrap
  <1>5. reliableWindows[(u + w - 1) % w] < s
    <2>1. ~(reliableWindows[(u + w - 1) % w] >= s)
      BY <1>2 DEF WindowWrap
    <2>2. (u + w - 1) % w \in Windows
      <3>1. u + w - 1 \in Nat
        BY <1>3
      <3> QED
        BY <1>3, <3>1, DivMod DEF Windows
    <2>3. reliableWindows[(u + w - 1) % w] \in Nat
      BY <2>2 DEF SenderInv
    <2> QED
      BY <1>3, <2>1, <2>3
  <1>6. ASSUME NEW o \in outstanding
        PROVE  Span(c) + f <= Span(o) + w
    <2> DEFINE v == Window(Number(o))
               q == Round(o)
               so == Span(o)
    <2>1. /\ o \in Nat /\ so \in Nat /\ sa + f <= so + w /\ so <= sa
          /\ v \in Windows
      BY OutstandingSpans
    <2>2. so = w * q + v /\ q \in Nat /\ v \in 0 .. w - 1 /\ v \in Nat
      BY <2>1, NumberOf DEF Windows
    <2>3. SUFFICES ASSUME sc + f = so + w + 1 PROVE FALSE
      <3>1. sc + f # so + w + 1 => sc + f <= so + w
        <4> HIDE DEF sc, sa, so, w, f
        <4> QED
          BY <1>8, <2>1
      <3> QED
        BY <2>3, <3>1
    <2>4. v \in usedReliableWindows
      <3>1. o \in InWindowOf(v)
        BY DEF InWindowOf
      <3> QED
        BY <2>1, <3>1, WindowBound
    <2>5. (u + (f - 1)) % w = v
      <3> HIDE DEF u, v, p, q, sc, so, w, f
      <3>1. w * p + u + (f - 1) = w * q + w + v
        BY <1>3, <2>2, <2>3
      <3>2. \E k \in Nat : u + (f - 1) = w * k + v
        <4>1. CASE q + 1 >= p
          <5>1. PICK k \in Nat : q + 1 = p + k
            BY <1>3, <2>2, <4>1
          <5>2. w * (q + 1) = w * q + w /\ w * (q + 1) = w * p + w * k
            BY <1>3, <2>2, <5>1
          <5>3. u + (f - 1) = w * k + v
            BY <1>3, <2>2, <3>1, <5>2
          <5> QED
            BY <5>3
        <4>2. CASE q + 1 < p
          <5>1. PICK k \in Nat : p = q + 1 + 1 + k
            BY <1>3, <2>2, <4>2
          <5>2. w * p = w * q + w + w + w * k /\ w * k >= 0
            BY <1>3, <2>2, <5>1
          <5> QED
            BY <1>3, <2>2, <3>1, <5>2
        <4> QED
          BY <1>3, <2>2, <4>1, <4>2
      <3>3. PICK k \in Nat : u + (f - 1) = w * k + v
        BY <3>2
      <3>4. (w * k + v) % w = v
        BY <1>8, <2>2, DivUnique
      <3> QED
        BY <3>3, <3>4
    <2>6. f - 1 \in 0 .. f - 1
      BY <1>3
    <2> QED
      BY <1>4, <2>4, <2>5, <2>6
  <1>7. ASSUME Span(c) >= 2
        PROVE  \E d \in (1 .. attempted) \ outstanding : Span(d) = Span(attempted)
    <2>1. SUFFICES ASSUME \A d \in 1 .. attempted :
                             Span(d) = Span(attempted) => d \in outstanding
                   PROVE  FALSE
      OBVIOUS
    <2> DEFINE T == c - s .. attempted
    <2>2. c = s * sc
      <3>1. c = s * (c \div s) + (c % s)
        BY <1>1, <1>3, DivMod
      <3> QED
        BY <1>1, <1>3, <3>1 DEF Span
    <2>3. s * sc >= s + s
      <3>3. sc >= 2 /\ sc \in Nat
        BY <1>7, <1>8
      <3> HIDE DEF s, sc
      <3>1. PICK k \in Nat : sc = 1 + 1 + k
        BY <3>3
      <3>2. s * sc = s + s + s * k /\ s * k >= 0
        BY <1>3, <3>1
      <3> QED
        BY <1>3, <3>2
    <2>4. c - s \in Nat /\ c - s >= 1 /\ c - s <= attempted
      BY <1>1, <1>3, <2>2, <2>3
    <2>5. T \subseteq InWindowOf(prior)
      <3> SUFFICES ASSUME NEW d \in T PROVE d \in InWindowOf(prior)
        OBVIOUS
      <3>1. d \in Nat /\ d <= attempted /\ c <= d + s /\ d \in 1 .. attempted
        BY <1>1, <1>3, <2>4
      <3>2. Span(d) <= Span(attempted) /\ Span(c) <= Span(d) + 1 /\ Span(d) \in Nat
        BY <1>1, <3>1, SpanMonotone
      <3>3. Span(d) = Span(attempted)
        BY <1>1, <1>2, <3>2
      <3>4. d \in outstanding
        BY <2>1, <3>1, <3>3
      <3>5. Window(Number(d)) = prior
        <4> DEFINE vd == Window(Number(d))
                   qd == Round(d)
        <4>1. sa = w * qd + vd /\ qd \in Nat /\ vd \in 0 .. w - 1
          BY <3>1, <3>3, NumberOf DEF Windows
        <4> HIDE DEF vd, qd, w, sa, pa, prior
        <4>2. (w * qd + vd) % w = vd
          BY <1>8, <4>1, DivUnique
        <4>3. (w * pa + prior) % w = prior
          BY <1>3, DivUnique
        <4>4. sa = w * pa + prior
          BY <1>3
        <4> QED
          BY <4>1, <4>2, <4>3, <4>4 DEF vd
      <3> QED
        BY <3>4, <3>5 DEF InWindowOf
    <2>6. prior \in Windows
      BY <1>3 DEF Windows
    <2>7. Cardinality(T) = s /\ IsFiniteSet(T)
      <3>1. IsFiniteSet(T) /\ Cardinality(T) = attempted - (c - s) + 1
        BY <1>1, <2>4, FS_Interval
      <3> QED
        BY <1>1, <1>3, <3>1
    <2>8. reliableWindows[prior] >= s
      <3>1. T \in SUBSET InWindowOf(prior)
        BY <2>5
      <3>2. Cardinality(T) <= Cardinality(InWindowOf(prior))
        BY <2>6, <3>1, WindowBound, FS_Subset
      <3> QED
        BY <1>3, <2>6, <2>7, <3>2, WindowBound
    <2>9. (u + w - 1) % w = prior
      <3> HIDE DEF u, p, sc, sa, pa, prior, w
      <3>1. w * p + u = w * pa + prior + 1
        BY <1>3
      <3>2. \E k \in Nat : u + w - 1 = w * k + prior
        <4>1. CASE pa + 1 >= p
          <5>1. PICK k \in Nat : pa + 1 = p + k
            BY <1>3, <4>1
          <5>2. w * (pa + 1) = w * pa + w /\ w * (pa + 1) = w * p + w * k
            BY <1>3, <5>1
          <5>3. u + w - 1 = w * k + prior
            BY <1>3, <3>1, <5>2
          <5> QED
            BY <5>3
        <4>2. CASE pa + 1 < p
          <5>1. PICK k \in Nat : p = pa + 1 + 1 + k
            BY <1>3, <4>2
          <5>2. w * p = w * pa + w + w + w * k /\ w * k >= 0
            BY <1>3, <5>1
          <5> QED
            BY <1>3, <3>1, <5>2
        <4> QED
          BY <1>3, <4>1, <4>2
      <3>3. PICK k \in Nat : u + w - 1 = w * k + prior
        BY <3>2
      <3>4. (w * k + prior) % w = prior
        BY <1>3, DivUnique
      <3> QED
        BY <3>3, <3>4
    <2>10. reliableWindows[prior] \in Nat
      BY <2>6 DEF SenderInv
    <2> QED
      BY <1>3, <1>5, <2>8, <2>9, <2>10
  <1> QED
    BY <1>2, <1>6, <1>7

\* While nothing is sent anew, the packets are the same.
LEMMA SamePackets ==
    ASSUME UNCHANGED ends
    PROVE  /\ \A n : End(n)' = End(n)
           /\ \A n : First(n)' = First(n)
           /\ \A n : Content(n)' = Content(n)
           /\ \A c : PacketOf(c)' = PacketOf(c)
           /\ \A c : IsFragment(c)' = IsFragment(c)
           /\ queued' = queued
  BY DEF End, First, Content, PacketOf, IsFragment, queued

\* And what is said of them.
LEMMA SamePacketsInv ==
    ASSUME PacketsInv, UNCHANGED <<lengths, ends>>
    PROVE  PacketsInv'
  <1>1. /\ \A n : End(n)' = End(n)
        /\ \A n : Content(n)' = Content(n)
        /\ queued' = queued
    BY SamePackets
  <1> QED
    BY <1>1 DEF PacketsInv

\* A packet that is sent comes after all the others, which stay as they are.
LEMMA SendAppends ==
    ASSUME PacketsInv, Send
    PROVE  /\ ends' = Append(ends, queued + lengths[Len(ends) + 1])
           /\ ends' \in Seq(Commands)
           /\ Len(ends') = Len(ends) + 1 /\ Len(ends') <= Len(lengths)
           /\ queued' = queued + lengths[Len(ends) + 1]
           /\ lengths[Len(ends) + 1] \in Nat \ {0}
           /\ \A n \in 0 .. Len(ends) : End(n)' = End(n)
           /\ \A n \in DOMAIN ends : First(n)' = First(n) /\ Content(n)' = Content(n)
  <1> DEFINE l == lengths[Len(ends) + 1]
             e == queued + l
  <1>1. /\ Len(ends) < Len(lengths) /\ e <= MaxCommands /\ ends' = Append(ends, e)
        /\ lengths' = lengths
    BY DEF Send
  <1>2. /\ Len(ends) \in Nat /\ DOMAIN ends = 1 .. Len(ends) /\ queued \in Nat
        /\ End(Len(ends)) = queued
    BY EndsInOrder DEF queued
  <1>3. lengths \in Seq(Nat \ {0}) /\ ends \in Seq(Commands)
    BY BoundsAssumption DEF PacketsInv
  <1>4. l \in Nat \ {0}
    BY <1>1, <1>2, <1>3, ElementOfSeq
  <1> HIDE DEF l
  <1>5. e \in Commands
    BY <1>1, <1>2, <1>4, Constants DEF Commands
  <1> HIDE DEF e
  <1>6. /\ ends' \in Seq(Commands) /\ Len(ends') = Len(ends) + 1
        /\ ends'[Len(ends) + 1] = e
        /\ \A n \in 1 .. Len(ends) : ends'[n] = ends[n]
    BY <1>1, <1>3, <1>5, AppendProperties
  <1>7. \A n \in 0 .. Len(ends) : End(n)' = End(n)
    BY <1>2, <1>6 DEF End
  <1>8. \A n \in DOMAIN ends : First(n)' = First(n) /\ Content(n)' = Content(n)
    <2> SUFFICES ASSUME NEW n \in DOMAIN ends
                 PROVE  First(n)' = First(n) /\ Content(n)' = Content(n)
      OBVIOUS
    <2>1. n \in 0 .. Len(ends) /\ n - 1 \in 0 .. Len(ends)
      BY <1>2
    <2> QED
      BY <1>7, <2>1 DEF First, Content
  <1>9. queued' = e
    BY <1>2, <1>6 DEF queued, End
  <1>10. Len(ends') <= Len(lengths)
    <2>1. Len(lengths) \in Nat
      BY <1>3
    <2> QED
      BY <1>1, <1>2, <1>6, <2>1
  <1> QED
    BY <1>1, <1>4, <1>6, <1>7, <1>8, <1>9, <1>10 DEF e, l

\* The packet is short, so the packets stay in order, and complete.
LEMMA SendKeepsPackets ==
    ASSUME ShortPackets, PacketsInv, Send
    PROVE  PacketsInv'
  <1>10. PICK k : k = Len(ends)
    OBVIOUS
  <1>11. PICK l : l = lengths[k + 1]
    OBVIOUS
  <1>1. /\ ends' \in Seq(Commands) /\ Len(ends') = k + 1 /\ Len(ends') <= Len(lengths)
        /\ queued' = queued + l /\ l \in Nat \ {0}
        /\ \A n \in 0 .. k : End(n)' = End(n)
        /\ \A n \in DOMAIN ends : Content(n)' = Content(n)
        /\ lengths' = lengths
    BY <1>10, <1>11, SendAppends DEF Send
  <1>2. /\ k \in Nat /\ DOMAIN ends = 1 .. k /\ queued \in Nat /\ End(k) = queued
        /\ \A n \in 0 .. k : End(n) \in Nat /\ End(n) <= queued
    BY <1>10, EndsInOrder DEF queued
  <1>3. lengths \in Workloads /\ lengths \in Seq(Nat \ {0})
    BY BoundsAssumption DEF PacketsInv
  <1>4. l <= ReliableWindowSize + 1
    <2>1. k + 1 \in DOMAIN lengths
      BY <1>1, <1>2, <1>3
    <2> QED
      BY <1>3, <1>11, <2>1 DEF ShortPackets
  <1>5. End(k + 1)' = queued + l
    BY <1>1 DEF queued
  <1>6. DOMAIN ends' = 1 .. k + 1
    BY <1>1
  <1>7. \A m, n \in 0 .. k + 1 : m < n => End(m)' < End(n)'
    <2> SUFFICES ASSUME NEW m \in 0 .. k + 1, NEW n \in 0 .. k + 1, m < n
                 PROVE  End(m)' < End(n)'
      OBVIOUS
    <2>1. m \in 0 .. k /\ End(m)' = End(m) /\ End(m) \in Nat /\ End(m) <= queued
      <3>1. m \in 0 .. k
        BY <1>2
      <3> QED
        BY <1>1, <1>2, <3>1
    <2>2. CASE n = k + 1
      BY <1>1, <1>2, <1>5, <2>1, <2>2
    <2>3. CASE n # k + 1
      <3>1. n \in 0 .. k
        BY <1>2, <2>3
      <3>2. End(m) < End(n)
        BY <1>10, <2>1, <3>1 DEF PacketsInv
      <3> QED
        BY <1>1, <2>1, <3>1, <3>2
    <2> QED
      BY <2>2, <2>3
  <1>8. ASSUME NEW n \in 1 .. k + 1
        PROVE  End(n)' <= End(n - 1)' + ReliableWindowSize + 1
    <2>1. CASE n = k + 1
      <3>1. n - 1 = k /\ k \in 0 .. k
        BY <1>2, <2>1
      <3>2. End(n - 1)' = queued
        BY <1>1, <1>2, <3>1
      <3> QED
        BY <1>1, <1>2, <1>4, <1>5, <2>1, <3>2, Constants
    <2>2. CASE n # k + 1
      <3>1. n \in DOMAIN ends /\ n \in 0 .. k /\ n - 1 \in 0 .. k
        BY <1>2, <2>2
      <3>2. End(n) <= End(n - 1) + ReliableWindowSize + 1
        BY <3>1 DEF PacketsInv
      <3> QED
        BY <1>1, <3>1, <3>2
    <2> QED
      BY <2>1, <2>2
  <1>9. ASSUME NEW c \in 1 .. queued'
        PROVE  \E n \in 1 .. k + 1 : c \in Content(n)'
    <2>1. CASE c <= queued
      <3>1. c \in 1 .. queued
        BY <1>1, <1>2, <2>1
      <3>2. PICK n \in DOMAIN ends : c \in Content(n)
        BY <3>1 DEF PacketsInv
      <3>3. n \in 1 .. k + 1 /\ c \in Content(n)'
        BY <1>1, <1>2, <3>2
      <3> QED
        BY <3>3
    <2>2. CASE c > queued
      <3>1. Content(k + 1)' = End(k)' + 1 .. End(k + 1)'
        <4>1. \A m, n \in Nat : m = n - 1 => Content(n)' = End(m)' + 1 .. End(n)'
          BY DEF Content, First
        <4>2. k \in Nat /\ k + 1 \in Nat /\ k = (k + 1) - 1
          BY <1>2
        <4> QED
          BY <4>1, <4>2, Zenon
      <3>2. k \in 0 .. k /\ k + 1 \in 1 .. k + 1
        BY <1>2
      <3>3. Content(k + 1)' = queued + 1 .. queued + l
        BY <1>1, <1>2, <1>5, <3>1, <3>2
      <3>4. c \in Content(k + 1)'
        BY <1>1, <1>2, <2>2, <3>3
      <3> QED
        BY <3>2, <3>4
    <2> QED
      BY <1>1, <1>2, <2>1, <2>2
  <1> QED
    BY <1>1, <1>3, <1>6, <1>7, <1>8, <1>9 DEF PacketsInv

\* The same facts of the packets after a step.
LEMMA PacketsAfter ==
    /\ PacketsInv' =>
          /\ DOMAIN ends' = 1 .. Len(ends')
          /\ \A n \in DOMAIN ends' : \A c \in Content(n)' : PacketOf(c)' = n
    /\ PacketsInv' => queued' \in Nat /\ Len(ends') \in Nat
  <1> DEFINE A == /\ DOMAIN ends = 1 .. Len(ends)
                  /\ \A n \in DOMAIN ends : \A c \in Content(n) : PacketOf(c) = n
             B == queued \in Nat /\ Len(ends) \in Nat
  <1>1. PacketsInv => A /\ B
    BY EndsInOrder, PacketOfContent
  <1>2. (PacketsInv => A /\ B)'
    BY <1>1, PTL
  <1> QED
    BY <1>2

\* A send leaves the packet of a command that was sent before.
LEMMA SendKeepsPacketOf ==
    ASSUME PacketsInv, PacketsInv', Send, NEW c \in 1 .. queued
    PROVE  PacketOf(c)' = PacketOf(c) /\ First(PacketOf(c))' = First(PacketOf(c))
  <1>1. PICK n \in DOMAIN ends : n = PacketOf(c) /\ c \in Content(n)
    BY PacketOfContent
  <1>2. n \in DOMAIN ends' /\ Content(n)' = Content(n) /\ First(n)' = First(n)
    BY SendAppends, EndsInOrder, PacketsAfter
  <1>3. PacketOf(c)' = n
    BY <1>1, <1>2, PacketsAfter
  <1> QED
    BY <1>1, <1>2, <1>3

\* A send changes nothing of what the sender keeps.
LEMMA SendKeepsSender ==
    ASSUME PacketsInv, PacketsInv', SenderInv, Send
    PROVE  SenderInv'
  <1>1. UNCHANGED <<attempted, outstanding, reliableWindows, usedReliableWindows,
                    late, acks>>
    BY DEF Send
  <1>2. /\ queued' = queued + lengths[Len(ends) + 1]
        /\ lengths[Len(ends) + 1] \in Nat \ {0}
    BY SendAppends
  <1>3. queued \in Nat /\ attempted \in Nat /\ attempted <= queued
    BY EndsInOrder DEF SenderInv
  <1>4. attempted' \in 0 .. queued'
    BY <1>1, <1>2, <1>3
  <1>5. WindowsCounted' /\ OutstandingNear' /\ AcksNear' /\ Follows'
    BY <1>1 DEF SenderInv, WindowsCounted, OutstandingNear, AcksNear, Follows
  <1>6. \A c \in Commands : late[c] # 0 =>
           First(PacketOf(c))' = First(PacketOf(c))
    <2> SUFFICES ASSUME NEW c \in Commands, late[c] # 0
                 PROVE  First(PacketOf(c))' = First(PacketOf(c))
      OBVIOUS
    <2>1. c \in Nat /\ c >= 1 /\ late[c] \in 0 .. attempted /\ c <= late[c]
      BY DEF SenderInv, LateNear, Commands
    <2>2. c \in 1 .. queued
      BY <1>3, <2>1
    <2> QED
      BY <2>2, SendKeepsPacketOf
  <1>7. LateNear'
    BY <1>1, <1>6 DEF SenderInv, LateNear
  <1> QED
    BY <1>1, <1>4, <1>5, <1>7 DEF SenderInv

\* A command that leaves for the first time.
LEMMA TransmitKeepsSender ==
    ASSUME PacketsInv, SenderInv, Transmit
    PROVE  SenderInv'
  <1>1. PICK c : c = attempted + 1
    OBVIOUS
  <1>2. PICK w : w = Window(Number(c))
    OBVIOUS
  <1>3. /\ attempted < queued /\ ~WindowWrap(Number(c))
        /\ attempted' = c
        /\ outstanding' = outstanding \cup {c}
        /\ usedReliableWindows' = usedReliableWindows \cup {w}
        /\ reliableWindows' = [reliableWindows EXCEPT ![w] = @ + 1]
        /\ late' = [x \in Commands |-> IF c - late[x] > Lifetime THEN 0 ELSE late[x]]
        /\ acks' = {x \in acks : x \in outstanding \/ late'[x] # 0}
        /\ UNCHANGED <<lengths, ends>>
    BY <1>1, <1>2 DEF Transmit
  <1>4. /\ attempted \in Nat /\ Span(attempted) \in Nat /\ c \in Nat \ {0}
        /\ c - 1 = attempted /\ queued \in Nat
    BY <1>1, OutstandingSpans, EndsInOrder
  <1>5. Span(c) \in Nat /\ w \in Windows
    BY <1>2, <1>4, NumberOf
  <1>6. /\ queued' = queued /\ \A x : PacketOf(x)' = PacketOf(x)
        /\ \A n : First(n)' = First(n)
    BY <1>3, SamePackets
  <1>7. /\ Span(c) = Span(attempted) \/ Span(c) = Span(attempted) + 1
        /\ \A o \in outstanding :
              Span(c) + FreeReliableWindows <= Span(o) + ReliableWindows
        /\ \/ Span(c) <= 1
           \/ \E d \in (1 .. attempted) \ outstanding : Span(d) = Span(c) - 1
    <2>1. CASE c % ReliableWindowSize = 0
      <3>1. /\ Span(c) = Span(attempted) + 1
            /\ \A o \in outstanding :
                  Span(c) + FreeReliableWindows <= Span(o) + ReliableWindows
            /\ Span(c) >= 2 => \E d \in (1 .. attempted) \ outstanding :
                                  Span(d) = Span(attempted)
        BY <1>1, <1>3, <2>1, WindowOpens
      <3>2. Span(c) - 1 = Span(attempted) /\ (Span(c) <= 1 \/ Span(c) >= 2)
        BY <1>4, <3>1
      <3> QED
        BY <3>1, <3>2
    <2>2. CASE c % ReliableWindowSize # 0
      <3>1. Span(c) = Span(attempted)
        BY <1>4, <2>2, SpanSteps
      <3> QED
        BY <3>1, OutstandingSpans DEF SenderInv, Follows
    <2> QED
      BY <2>1, <2>2
  <1>8. OutstandingNear'
    <2>1. Span(c) + FreeReliableWindows <= Span(c) + ReliableWindows
      BY <1>5, Constants
    <2> QED
      BY <1>3, <1>7, <2>1 DEF OutstandingNear
  <1>9. \A x \in Commands : late[x] \in 0 .. attempted
    BY DEF SenderInv
  <1>10. LateNear'
    <2> SUFFICES ASSUME NEW x \in Commands, late'[x] # 0
                 PROVE  /\ x <= late'[x] /\ c <= late'[x] + Lifetime
                        /\ Span(late'[x]) + FreeReliableWindows
                              <= Span(x) + ReliableWindows
                        /\ Span(First(PacketOf(x))) = Span(x)
      BY <1>3, <1>6 DEF LateNear
    <2>1. late'[x] = late[x] /\ late[x] # 0 /\ ~(c - late[x] > Lifetime)
      BY <1>3
    <2>2. c <= late[x] + Lifetime
      BY <1>4, <1>9, <2>1, Constants
    <2> QED
      BY <2>1, <2>2 DEF SenderInv, LateNear
  <1>11. AcksNear'
    <2> SUFFICES ASSUME NEW x \in acks', x \in acks
                 PROVE  Span(c) + FreeReliableWindows
                           <= Span(x) + ReliableWindows + 1
      BY <1>3 DEF AcksNear
    <2>1. x \in Nat /\ x \in Commands /\ Span(x) \in Nat
      <3>1. x \in 1 .. attempted
        BY DEF SenderInv
      <3>2. x \in Nat /\ x \in Commands
        BY <1>3, <1>4, <3>1, EndsInOrder, Constants DEF Commands
      <3> QED
        BY <3>2, SpanMonotone
    <2>2. CASE x \in outstanding
      BY <1>5, <1>7, <2>1, <2>2, Constants
    <2>3. CASE late'[x] # 0
      <3> DEFINE y == late'[x]
      <3>1. /\ y \in Nat /\ c <= y + Lifetime
            /\ Span(y) + FreeReliableWindows <= Span(x) + ReliableWindows
        <4>1. late'[x] = late[x]
          BY <1>3, <2>1, <2>3
        <4> QED
          BY <1>3, <1>9, <1>10, <2>1, <2>3, <4>1 DEF LateNear
      <3> HIDE DEF y
      <3>2. c <= y + ReliableWindowSize
        BY <1>4, <3>1, Constants
      <3>3. Span(c) <= Span(y) + 1 /\ Span(y) \in Nat
        BY <1>4, <3>1, <3>2, SpanMonotone
      <3> QED
        BY <1>5, <2>1, <3>1, <3>3, Constants
    <2> QED
      BY <1>3, <2>2, <2>3
  <1>12. Follows'
    <2>1. ASSUME NEW d \in (1 .. attempted) \ outstanding
          PROVE  d \in (1 .. c) \ (outstanding \cup {c})
      BY <1>1, <1>4
    <2> QED
      BY <1>3, <1>7, <2>1 DEF Follows
  <1>13. WindowsCounted'
    <2> SUFFICES ASSUME NEW v \in Windows
                 PROVE  /\ reliableWindows'[v] = Cardinality(InWindowOf(v)')
                        /\ v \in usedReliableWindows' <=> reliableWindows'[v] # 0
      BY DEF WindowsCounted, InWindowOf
    <2>1. /\ IsFiniteSet(InWindowOf(v)) /\ Cardinality(InWindowOf(v)) \in Nat
          /\ reliableWindows[v] = Cardinality(InWindowOf(v))
      BY WindowBound
    <2>2. v \in usedReliableWindows <=> reliableWindows[v] # 0
      BY DEF SenderInv, WindowsCounted
    <2>3. reliableWindows \in [Windows -> Nat]
      BY DEF SenderInv
    <2>4. CASE v = w
      <3>1. InWindowOf(v)' = InWindowOf(v) \cup {c}
        BY <1>2, <1>3, <2>4 DEF InWindowOf
      <3>2. c \notin InWindowOf(v)
        <4>1. c \notin outstanding
          BY <1>1, <1>4 DEF SenderInv
        <4> QED
          BY <4>1 DEF InWindowOf
      <3>3. Cardinality(InWindowOf(v)') = Cardinality(InWindowOf(v)) + 1
        BY <2>1, <3>1, <3>2, FS_AddElement
      <3>4. reliableWindows'[v] = reliableWindows[v] + 1 /\ v \in usedReliableWindows'
        BY <1>3, <2>3, <2>4
      <3> QED
        BY <2>1, <3>3, <3>4
    <2>5. CASE v # w
      <3>1. InWindowOf(v)' = InWindowOf(v)
        BY <1>2, <1>3, <2>5 DEF InWindowOf
      <3>2. reliableWindows'[v] = reliableWindows[v]
        BY <1>3, <2>3, <2>5
      <3> QED
        BY <1>3, <2>1, <2>2, <2>5, <3>1, <3>2
    <2> QED
      BY <2>4, <2>5
  <1>14. late' \in [Commands -> 0 .. attempted']
    <2>1. \A x \in Commands :
             (IF c - late[x] > Lifetime THEN 0 ELSE late[x]) \in 0 .. c
      BY <1>1, <1>4, <1>9
    <2> QED
      BY <1>3, <2>1
  <1>15. /\ attempted' \in 0 .. queued'
         /\ outstanding' \in SUBSET (1 .. attempted')
         /\ acks' \in SUBSET (1 .. attempted')
    <2>1. outstanding \in SUBSET (1 .. attempted) /\ acks \in SUBSET (1 .. attempted)
      BY DEF SenderInv
    <2>2. 1 .. attempted \subseteq 1 .. c /\ c \in 1 .. c /\ c \in 0 .. queued
      BY <1>1, <1>3, <1>4
    <2> QED
      BY <1>3, <1>6, <2>1, <2>2
  <1>16. /\ reliableWindows' \in [Windows -> Nat]
         /\ usedReliableWindows' \in SUBSET Windows
    BY <1>3, <1>5 DEF SenderInv
  <1> QED
    BY <1>8, <1>10, <1>11, <1>12, <1>13, <1>14, <1>15, <1>16 DEF SenderInv

\* An acknowledgement removes one outstanding command, which is counted.
LEMMA AcknowledgeKeepsSender ==
    ASSUME PacketsInv, SenderInv, NEW command \in Commands,
           ReceiveAcknowledge(command)
    PROVE  SenderInv'
  <1>1. PICK c \in outstanding :
           /\ RemoveSent(c)
           /\ late' = IF StartsEarlier(c) THEN late
                      ELSE [late EXCEPT ![c] = attempted]
    BY DEF ReceiveAcknowledge
  <1>2. UNCHANGED <<lengths, ends, attempted, acks>>
    BY DEF ReceiveAcknowledge
  <1>3. PICK w : w = Window(Number(c))
    OBVIOUS
  <1>4. /\ queued' = queued /\ \A x : PacketOf(x)' = PacketOf(x)
        /\ \A n : First(n)' = First(n)
    BY <1>2, SamePackets
  <1>5. /\ attempted \in Nat /\ c \in Nat /\ c <= attempted /\ Span(c) \in Nat
        /\ Span(attempted) + FreeReliableWindows <= Span(c) + ReliableWindows
        /\ w \in Windows
    BY <1>3, OutstandingSpans
  <1>6. c \in InWindowOf(w)
    BY <1>3 DEF InWindowOf
  <1>7. /\ IsFiniteSet(InWindowOf(w)) /\ Cardinality(InWindowOf(w)) \in Nat
        /\ reliableWindows[w] = Cardinality(InWindowOf(w))
        /\ w \in usedReliableWindows
    BY <1>5, <1>6, WindowBound
  <1>8. Cardinality(InWindowOf(w) \ {c}) = Cardinality(InWindowOf(w)) - 1
        /\ Cardinality(InWindowOf(w) \ {c}) \in Nat
    <2>1. /\ IsFiniteSet(InWindowOf(w) \ {c})
          /\ Cardinality(InWindowOf(w) \ {c}) = Cardinality(InWindowOf(w)) - 1
      BY <1>6, <1>7, FS_RemoveElement
    <2> QED
      BY <2>1, FS_CardinalityType
  <1>9. reliableWindows[w] > 0
    BY <1>7, <1>8
  <1>10. /\ outstanding' = outstanding \ {c}
         /\ reliableWindows' = [reliableWindows EXCEPT ![w] = reliableWindows[w] - 1]
         /\ usedReliableWindows' = IF reliableWindows[w] - 1 = 0
                                   THEN usedReliableWindows \ {w}
                                   ELSE usedReliableWindows
    BY <1>1, <1>3, <1>9 DEF RemoveSent
  <1>11. WindowsCounted'
    <2> SUFFICES ASSUME NEW v \in Windows
                 PROVE  /\ reliableWindows'[v] = Cardinality(InWindowOf(v)')
                        /\ v \in usedReliableWindows' <=> reliableWindows'[v] # 0
      BY DEF WindowsCounted, InWindowOf
    <2>1. /\ reliableWindows \in [Windows -> Nat]
          /\ reliableWindows[v] = Cardinality(InWindowOf(v))
          /\ v \in usedReliableWindows <=> reliableWindows[v] # 0
      BY WindowBound DEF SenderInv, WindowsCounted
    <2>2. CASE v = w
      <3>1. InWindowOf(v)' = InWindowOf(v) \ {c}
        BY <1>10, <2>2 DEF InWindowOf
      <3>2. reliableWindows'[v] = reliableWindows[v] - 1
        BY <1>10, <2>1, <2>2
      <3>3. reliableWindows'[v] = Cardinality(InWindowOf(v)')
        BY <1>7, <1>8, <2>2, <3>1, <3>2
      <3> QED
        BY <1>7, <1>10, <2>2, <3>2, <3>3
    <2>3. CASE v # w
      <3>1. InWindowOf(v)' = InWindowOf(v)
        BY <1>3, <1>10, <2>3 DEF InWindowOf
      <3>2. reliableWindows'[v] = reliableWindows[v]
        BY <1>10, <2>1, <2>3
      <3> QED
        BY <1>10, <2>1, <2>3, <3>1, <3>2
    <2> QED
      BY <2>2, <2>3
  <1>12. OutstandingNear' /\ AcksNear'
    BY <1>2, <1>10 DEF SenderInv, OutstandingNear, AcksNear
  <1>13. Follows'
    BY <1>2, <1>10 DEF SenderInv, Follows
  <1>14. late \in [Commands -> 0 .. attempted]
    BY DEF SenderInv
  <1>15. c \in Commands /\ c \in 1 .. queued
    <2>1. c \in 1 .. attempted /\ attempted <= queued /\ queued \in Nat
          /\ queued <= MaxCommands
      BY EndsInOrder DEF SenderInv
    <2> QED
      BY <1>5, <2>1, Constants DEF Commands
  <1>16. late' \in [Commands -> 0 .. attempted']
    <2>1. attempted \in 0 .. attempted
      BY <1>5
    <2> QED
      BY <1>1, <1>2, <1>14, <2>1
  <1>17. LateNear'
    <2> SUFFICES ASSUME NEW x \in Commands, late'[x] # 0
                 PROVE  /\ x <= late'[x] /\ attempted <= late'[x] + Lifetime
                        /\ Span(late'[x]) + FreeReliableWindows
                              <= Span(x) + ReliableWindows
                        /\ Span(First(PacketOf(x))) = Span(x)
      BY <1>2, <1>4 DEF LateNear
    <2>1. CASE late'[x] = late[x]
      BY <2>1 DEF SenderInv, LateNear
    <2>2. CASE late'[x] # late[x]
      <3>1. x = c /\ late'[x] = attempted /\ ~StartsEarlier(c)
        BY <1>1, <1>14, <2>2
      <3>2. PICK f : f = First(PacketOf(c))
        OBVIOUS
      <3>3. f \in Nat /\ Span(f) <= Span(c) /\ Span(c) <= Span(f) + 1
        BY <1>15, <3>2, PacketOfContent, ContentOf
      <3>4. Window(Number(f)) = Window(Number(c))
        BY <3>1, <3>2 DEF StartsEarlier
      <3>5. Span(f) \in Nat
        BY <3>3, SpanMonotone
      <3>6. /\ Span(c) < Span(f) + ReliableWindows
            /\ Span(f) < Span(c) + ReliableWindows
        BY <1>5, <3>3, <3>5, Constants
      <3>7. Span(f) = Span(c)
        BY <1>5, <3>3, <3>4, <3>6, SameSpan
      <3> QED
        BY <1>5, <3>1, <3>2, <3>7, Constants
    <2> QED
      BY <2>1, <2>2
  <1>18. /\ reliableWindows' \in [Windows -> Nat]
         /\ usedReliableWindows' \in SUBSET Windows
    BY <1>7, <1>8, <1>10 DEF SenderInv
  <1>19. /\ attempted' \in 0 .. queued'
         /\ outstanding' \in SUBSET (1 .. attempted')
         /\ acks' \in SUBSET (1 .. attempted')
    BY <1>2, <1>4, <1>10 DEF SenderInv
  <1> QED
    BY <1>11, <1>12, <1>13, <1>16, <1>17, <1>18, <1>19 DEF SenderInv

\* Copies that may arrive are of commands that were sent, and at most a window
\* older than the outstanding ones; then their packet begins in their window.
LEMMA ArrivingNear ==
    ASSUME PacketsInv, SenderInv, NEW c \in Arriving
    PROVE  /\ c \in 1 .. attempted /\ c \in Commands
           /\ Span(attempted) + FreeReliableWindows
                 <= Span(First(PacketOf(c))) + ReliableWindows + 1
           /\ Span(attempted) + FreeReliableWindows <= Span(c) + ReliableWindows + 1
  <1>1. attempted \in Nat /\ Span(attempted) \in Nat
    BY OutstandingSpans
  <1>2. /\ attempted <= queued /\ queued \in Nat /\ queued <= MaxCommands
        /\ outstanding \in SUBSET (1 .. attempted)
        /\ late \in [Commands -> 0 .. attempted]
    BY EndsInOrder DEF SenderInv
  <1>3. c \in 1 .. attempted
    <2>1. CASE c \in outstanding
      BY <1>2, <2>1
    <2>2. CASE c \in Commands /\ late[c] # 0
      <3>1. c \in Nat /\ c >= 1 /\ late[c] \in 0 .. attempted /\ c <= late[c]
        BY <1>2, <2>2 DEF SenderInv, LateNear, Commands
      <3> QED
        BY <1>1, <3>1
    <2> QED
      BY <2>1, <2>2 DEF Arriving
  <1>4. c \in Commands /\ c \in 1 .. queued /\ c \in Nat
    BY <1>1, <1>2, <1>3, Constants DEF Commands
  <1>5. PICK f : f = First(PacketOf(c))
    OBVIOUS
  <1>6. f \in Nat /\ Span(f) <= Span(c) /\ Span(c) <= Span(f) + 1
    BY <1>4, <1>5, PacketOfContent, ContentOf
  <1>7. Span(f) \in Nat /\ Span(c) \in Nat
    BY <1>4, <1>6, SpanMonotone
  <1>8. CASE c \in outstanding
    <2>1. Span(attempted) + FreeReliableWindows <= Span(c) + ReliableWindows
      BY <1>8, OutstandingSpans
    <2> QED
      BY <1>1, <1>3, <1>4, <1>5, <1>6, <1>7, <2>1, Constants
  <1>9. CASE late[c] # 0
    <2> DEFINE y == late[c]
    <2>1. /\ y \in Nat /\ attempted <= y + Lifetime
          /\ Span(y) + FreeReliableWindows <= Span(c) + ReliableWindows
          /\ Span(f) = Span(c)
      BY <1>2, <1>4, <1>5, <1>9 DEF SenderInv, LateNear
    <2> HIDE DEF y
    <2>2. attempted <= y + ReliableWindowSize
      BY <1>1, <2>1, Constants
    <2>3. Span(attempted) <= Span(y) + 1 /\ Span(y) \in Nat
      BY <1>1, <2>1, <2>2, SpanMonotone
    <2> QED
      BY <1>1, <1>3, <1>4, <1>5, <1>7, <2>1, <2>3, Constants
  <1> QED
    BY <1>8, <1>9 DEF Arriving

\* The arrival of a command may queue an acknowledgement of it.
LEMMA CommandKeepsSender ==
    ASSUME PacketsInv, SenderInv, NEW command \in Commands,
           ReceiveCommand(command)
    PROVE  SenderInv'
  <1>1. /\ command \in Arriving /\ UNCHANGED <<sender, late>>
        /\ acks' = acks \/ acks' = acks \cup {command}
    BY DEF ReceiveCommand, Acknowledge
  <1>2. UNCHANGED <<lengths, ends, attempted, outstanding, reliableWindows,
                    usedReliableWindows, late>>
    BY <1>1 DEF sender
  <1>3. /\ queued' = queued /\ \A x : PacketOf(x)' = PacketOf(x)
        /\ \A n : First(n)' = First(n)
    BY <1>2, SamePackets
  <1>4. /\ command \in 1 .. attempted
        /\ Span(attempted) + FreeReliableWindows
              <= Span(command) + ReliableWindows + 1
    BY <1>1, ArrivingNear
  <1>5. AcksNear' /\ acks' \in SUBSET (1 .. attempted')
    BY <1>1, <1>2, <1>4 DEF SenderInv, AcksNear
  <1>6. WindowsCounted' /\ OutstandingNear' /\ LateNear' /\ Follows'
    BY <1>2, <1>3
       DEF SenderInv, WindowsCounted, OutstandingNear, LateNear, Follows
  <1> QED
    BY <1>2, <1>3, <1>5, <1>6 DEF SenderInv

\* The receiving application is no concern of the sender.
LEMMA ReceiveKeepsSender ==
    ASSUME SenderInv, UNCHANGED <<sender, late, acks>>
    PROVE  SenderInv'
  <1>1. UNCHANGED <<lengths, ends, attempted, outstanding, reliableWindows,
                    usedReliableWindows, late, acks>>
    BY DEF sender
  <1>2. /\ queued' = queued /\ \A x : PacketOf(x)' = PacketOf(x)
        /\ \A n : First(n)' = First(n)
    BY <1>1, SamePackets
  <1>3. WindowsCounted' /\ OutstandingNear' /\ LateNear' /\ AcksNear' /\ Follows'
    BY <1>1, <1>2
       DEF SenderInv, WindowsCounted, OutstandingNear, LateNear, AcksNear, Follows
  <1> QED
    BY <1>1, <1>2, <1>3 DEF SenderInv

-----------------------------------------------------------------------------
(***************************************************************************)
(* What holds of the sender whatever the receiver does.                    *)
(***************************************************************************)

\* At first nothing was sent.
LEMMA SenderInitially == Init => PacketsInv /\ SenderInv
  <1> SUFFICES ASSUME Init PROVE PacketsInv /\ SenderInv
    OBVIOUS
  <1>1. /\ lengths \in Workloads /\ ends = <<>> /\ attempted = 0
        /\ outstanding = {} /\ usedReliableWindows = {} /\ acks = {}
        /\ reliableWindows = [w \in Windows |-> 0]
        /\ late = [command \in Commands |-> 0]
    BY DEF Init
  <1>2. lengths \in Seq(Nat \ {0})
    BY <1>1, BoundsAssumption
  <1>3. /\ Len(ends) = 0 /\ ends \in Seq(Commands) /\ DOMAIN ends = {}
        /\ Len(ends) <= Len(lengths)
    BY <1>1, <1>2
  <1>4. queued = 0 /\ 1 .. queued = {}
    BY <1>3 DEF queued, End
  <1>5. PacketsInv
    <2>1. \A m, n \in 0 .. Len(ends) : ~(m < n)
      BY <1>3
    <2> QED
      BY <1>1, <1>3, <1>4, <2>1 DEF PacketsInv
  <1>6. Span(0) = 0
    <2>1. 0 = ReliableWindowSize * 0 + 0 /\ 0 \in 0 .. ReliableWindowSize - 1
      BY Constants
    <2> QED
      BY <2>1, Constants, DivUnique DEF Span
  <1>7. WindowsCounted
    <2> SUFFICES ASSUME NEW w \in Windows
                 PROVE  /\ reliableWindows[w] =
                             Cardinality({c \in outstanding : Window(Number(c)) = w})
                        /\ w \in usedReliableWindows <=> reliableWindows[w] # 0
      BY DEF WindowsCounted
    <2>1. {c \in outstanding : Window(Number(c)) = w} = {}
      BY <1>1
    <2> QED
      BY <1>1, <2>1, FS_EmptySet
  <1>8. OutstandingNear /\ LateNear /\ AcksNear /\ Follows
    BY <1>1, <1>6 DEF OutstandingNear, LateNear, AcksNear, Follows
  <1>9. /\ attempted \in 0 .. queued /\ outstanding \in SUBSET (1 .. attempted)
        /\ reliableWindows \in [Windows -> Nat]
        /\ usedReliableWindows \in SUBSET Windows
        /\ late \in [Commands -> 0 .. attempted] /\ acks \in SUBSET (1 .. attempted)
    BY <1>1, <1>4
  <1> QED
    BY <1>5, <1>7, <1>8, <1>9 DEF SenderInv

\* Every step keeps the packets in order and the sender's windows right.
LEMMA SenderInductive ==
    ASSUME ShortPackets, PacketsInv, SenderInv, [Next]_vars
    PROVE  PacketsInv' /\ SenderInv'
  <1>1. CASE UNCHANGED vars
    <2>1. UNCHANGED <<lengths, ends>> /\ UNCHANGED <<sender, late, acks>>
      BY <1>1 DEF vars, sender
    <2> QED
      BY <2>1, SamePacketsInv, ReceiveKeepsSender
  <1>2. CASE Send
    BY <1>2, SendKeepsPackets, SendKeepsSender
  <1>3. CASE Transmit
    <2>1. UNCHANGED <<lengths, ends>>
      BY <1>3 DEF Transmit
    <2> QED
      BY <1>3, <2>1, SamePacketsInv, TransmitKeepsSender
  <1>4. CASE Receive
    <2>1. UNCHANGED <<lengths, ends>> /\ UNCHANGED <<sender, late, acks>>
      BY <1>4 DEF Receive, sender
    <2> QED
      BY <2>1, SamePacketsInv, ReceiveKeepsSender
  <1>5. CASE \E command \in Commands : ReceiveAcknowledge(command)
    <2>1. UNCHANGED <<lengths, ends>>
      BY <1>5 DEF ReceiveAcknowledge
    <2> QED
      BY <1>5, <2>1, SamePacketsInv, AcknowledgeKeepsSender
  <1>6. CASE \E command \in Commands : ReceiveCommand(command)
    <2>1. UNCHANGED <<lengths, ends>>
      BY <1>6 DEF ReceiveCommand, sender
    <2> QED
      BY <1>6, <2>1, SamePacketsInv, CommandKeepsSender
  <1> QED
    BY <1>1, <1>2, <1>3, <1>4, <1>5, <1>6 DEF Next
=============================================================================
