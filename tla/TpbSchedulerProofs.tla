--------------------------- MODULE TpbSchedulerProofs ---------------------------
(***************************************************************************)
(* Proofs about TpbScheduler, for any flowgraph.                           *)
(***************************************************************************)
EXTENDS TpbScheduler, TLAPS

WellFounded == INSTANCE WellFoundedInduction

-----------------------------------------------------------------------------
(* The executor's arithmetic.                                              *)

\* A set of natural numbers has a least one.
LEMMA LeastNat ==
    ASSUME NEW T, T \subseteq Nat, T # {}
    PROVE  \E x \in T : \A y \in T : x <= y
<1> DEFINE R == {ss \in Nat \X Nat : ss[1] < ss[2]}
<1>1. WellFounded!IsWellFoundedOn(R, Nat)
  BY WellFounded!NatLessThanWellFounded DEF WellFounded!OpToRel
<1>2. PICK x \in T : \A y \in T : ~(<<y, x>> \in R)
  BY <1>1, WellFounded!WFMin, Zenon
<1>3. ASSUME NEW y \in T PROVE x <= y
  <2>1. x \in Nat /\ y \in Nat /\ ~(<<y, x>> \in R)
    BY <1>2
  <2>2. ~(y < x)
    BY <2>1
  <2> QED
    BY <2>1, <2>2
<1> QED
  BY <1>3

LEMMA DivMod ==
    ASSUME NEW m \in Nat \ {0}, NEW a \in Int
    PROVE  /\ a \div m \in Int
           /\ a % m \in 0 .. m - 1
           /\ a = (a \div m) * m + (a % m)
OBVIOUS

LEMMA DivOf ==
    ASSUME NEW m \in Nat \ {0}, NEW q \in Int, NEW r \in 0 .. m - 1
    PROVE  (q * m + r) \div m = q /\ (q * m + r) % m = r
OBVIOUS

LEMMA DivMonotone ==
    ASSUME NEW m \in Nat \ {0}, NEW a \in Int, NEW b \in Int, a <= b
    PROVE  a \div m <= b \div m
OBVIOUS

LEMMA DivNat ==
    ASSUME NEW m \in Nat \ {0}, NEW a \in Nat
    PROVE  a \div m \in Nat /\ a \div m <= a
OBVIOUS

LEMMA TimesMonotone ==
    ASSUME NEW m \in Nat, NEW a \in Int, NEW b \in Int, a <= b
    PROVE  a * m <= b * m
OBVIOUS

LEMMA RoundDown ==
    ASSUME NEW m \in Nat \ {0}, NEW n \in Nat
    PROVE  /\ round_down(n, m) \in Nat
           /\ round_down(n, m) <= n
           /\ n - round_down(n, m) < m
           /\ round_down(n, m) % m = 0
<1> DEFINE q == n \div m
           r == n % m
<1>1. q \in Nat /\ r \in 0 .. m - 1 /\ n = q * m + r
  OBVIOUS
<1>2. round_down(n, m) = q * m
  BY DEF round_down
<1> HIDE DEF q, r
<1>3. q * m \in Nat /\ (q * m + 0) % m = 0
  BY <1>1
<1> QED
  BY <1>1, <1>2, <1>3

LEMMA RoundUp ==
    ASSUME NEW m \in Nat \ {0}, NEW n \in Nat
    PROVE  /\ round_up(n, m) \in Nat
           /\ n <= round_up(n, m)
           /\ round_up(n, m) < n + m
           /\ round_up(n, m) % m = 0
<1> DEFINE k == n + m - 1
<1>1. k \in Nat /\ k = n + m - 1
  OBVIOUS
<1>2. round_up(n, m) = round_down(k, m)
  BY DEF round_up, round_down
<1> HIDE DEF k
<1>3. /\ round_down(k, m) \in Nat
      /\ round_down(k, m) <= k
      /\ k - round_down(k, m) < m
      /\ round_down(k, m) % m = 0
  BY <1>1, RoundDown
<1> QED
  BY <1>1, <1>2, <1>3

LEMMA MultipleIs ==
    ASSUME NEW m \in Nat \ {0}, NEW n \in Int, n % m = 0
    PROVE  \E q \in Int : n = q * m
<1> DEFINE q == n \div m
<1>1. n = q * m /\ q \in Int
  OBVIOUS
<1> HIDE DEF q
<1> QED
  BY <1>1

\* Rounding a multiple changes nothing.
LEMMA RoundMultiple ==
    ASSUME NEW m \in Nat \ {0}, NEW n \in Nat, n % m = 0
    PROVE  round_up(n, m) = n /\ round_down(n, m) = n
<1>1. PICK q \in Int : n = q * m
  BY MultipleIs
<1>2. (q * m + 0) \div m = q
  OBVIOUS
<1>3. (q * m + (m - 1)) \div m = q
  OBVIOUS
<1>4. q * m + (m - 1) = n + m - 1 /\ q * m + 0 = n
  BY <1>1
<1> QED
  BY <1>1, <1>2, <1>3, <1>4 DEF round_up, round_down

LEMMA SumOfMultiples ==
    ASSUME NEW m \in Nat \ {0}, NEW a \in Int, NEW b \in Int, a % m = 0, b % m = 0
    PROVE  (a + b) % m = 0 /\ (a - b) % m = 0
<1>1. PICK q \in Int : a = q * m
  BY MultipleIs
<1>2. PICK p \in Int : b = p * m
  BY MultipleIs
<1>3. a + b = (q + p) * m + 0 /\ a - b = (q - p) * m + 0
  BY <1>1, <1>2
<1>4. ((q + p) * m + 0) % m = 0 /\ ((q - p) * m + 0) % m = 0
  OBVIOUS
<1> QED
  BY <1>3, <1>4

LEMMA RoundUpMonotone ==
    ASSUME NEW m \in Nat \ {0}, NEW a \in Nat, NEW b \in Nat, a <= b
    PROVE  round_up(a, m) <= round_up(b, m)
<1> DEFINE p == (a + m - 1) \div m
           q == (b + m - 1) \div m
<1>1. p \in Int /\ q \in Int /\ p <= q
  OBVIOUS
<1>2. round_up(a, m) = p * m /\ round_up(b, m) = q * m
  BY DEF round_up
<1> HIDE DEF p, q
<1> QED
  BY <1>1, <1>2

LEMMA MultipleAtLeast ==
    ASSUME NEW m \in Nat \ {0}, NEW n \in Nat, n > 0, n % m = 0
    PROVE  n >= m
OBVIOUS

LEMMA RoundDownAtLeast ==
    ASSUME NEW m \in Nat \ {0}, NEW n \in Nat, n >= m
    PROVE  round_down(n, m) >= m
<1>1. round_down(n, m) \in Nat /\ n - round_down(n, m) < m /\ round_down(n, m) % m = 0
  BY RoundDown
<1>2. round_down(n, m) > 0
  BY <1>1
<1> QED
  BY <1>1, <1>2, MultipleAtLeast


\* The config of a block, field by field.
LEMMA ConfigFields ==
    ASSUME NEW c \in BlockConfig
    PROVE  /\ c.multiple \in Nat \ {0} /\ c.multiple_set \in BOOLEAN
           /\ c.min_noutput \in Nat /\ c.max_noutput \in Nat /\ c.history \in Nat \ {0}
           /\ c.decim \in Nat \ {0} /\ c.interp \in Nat \ {0} /\ c.fixed_rate \in BOOLEAN
           /\ ~c.fixed_rate => c.decim <= c.interp
BY DEF BlockConfig

\* What each part of a pass keeps of a request for n items.
LEMMA UseAllInputKeeps ==
    ASSUME NEW c \in BlockConfig, NEW avail \in Nat, NEW n \in Nat, n > 0,
           c.multiple_set => n % c.multiple = 0
    PROVE  LET u == UseAllInput(c, avail, n)
           IN  /\ u \in Nat /\ u > 0 /\ u <= n
               /\ c.multiple_set => u % c.multiple = 0
<1> DEFINE g   == Greatest(0, avail - c.history + 1)
           all == fixed_rate_ninput_to_noutput(c, avail)
<1>1. g \in Nat
  BY ConfigFields DEF Greatest
<1>2. all = (g \div c.decim) * c.interp
  BY DEF fixed_rate_ninput_to_noutput
<1> HIDE DEF g
<1>3. g \div c.decim \in Nat
  BY <1>1, DivNat, ConfigFields
<1>4. all \in Nat
  BY <1>2, <1>3, ConfigFields
<1> HIDE DEF all
<1>5. round_down(all, c.multiple) \in Nat /\ round_down(all, c.multiple) % c.multiple = 0
  BY <1>4, RoundDown, ConfigFields
<1> QED
  BY <1>4, <1>5 DEF UseAllInput, all

LEMMA CapOutputKeeps ==
    ASSUME NEW c \in BlockConfig, c.max_noutput >= c.multiple, NEW n \in Nat, n > 0,
           c.multiple_set => n % c.multiple = 0
    PROVE  LET u == CapOutput(c, n)
           IN  /\ u \in Nat /\ u > 0 /\ u <= n
               /\ c.multiple_set => u % c.multiple = 0
<1> DEFINE m == c.multiple
           most == max_noutput_items(c)
<1>1. m \in Nat \ {0} /\ c.max_noutput \in Nat
  BY ConfigFields
<1>2. most \in Nat /\ most % m = 0 /\ most >= m
  BY <1>1, RoundDown, RoundDownAtLeast DEF max_noutput_items
<1> HIDE DEF most, m
<1> QED
  BY <1>1, <1>2 DEF CapOutput, Least, Greatest, most, m

LEMMA AlignKeeps ==
    ASSUME NEW c \in BlockConfig, NEW gap \in 0 .. c.multiple, NEW n \in Nat, n > 0,
           c.multiple_set => gap = 0 /\ n % c.multiple = 0
    PROVE  LET a == Align(c, gap, n)
           IN  /\ a.n \in Nat /\ a.n > 0 /\ a.n <= round_up(n, c.multiple)
               /\ a.off \in 0 .. c.multiple
               /\ c.multiple_set => a.off = 0 /\ a.n % c.multiple = 0
               /\ \A w \in Nat : (w + gap) % c.multiple = 0
                                     => (w + a.n + a.off) % c.multiple = 0
<1> DEFINE m == c.multiple
           u == round_up(n, m)
           d == round_down(n, m)
<1>1. m \in Nat \ {0} /\ c.multiple_set \in BOOLEAN
  BY ConfigFields
<1> HIDE DEF m
<1>2. u \in Nat /\ n <= u /\ u % m = 0
  BY <1>1, RoundUp
<1>3. d \in Nat /\ d <= n /\ d % m = 0
  BY <1>1, RoundDown
<1>4. gap \in 0 .. m /\ (c.multiple_set => gap = 0 /\ n % m = 0)
  BY DEF m
<1>5. n >= m => d >= m
  BY <1>1, RoundDownAtLeast
<1> HIDE DEF u, d
<1>6. CASE c.multiple_set
  <2>1. Align(c, gap, n) = [n |-> n, off |-> 0]
    BY <1>6 DEF Align
  <2>2. \A w \in Nat : (w + gap) % m = 0 => (w + n + 0) % m = 0
    <3> SUFFICES ASSUME NEW w \in Nat, (w + gap) % m = 0
                 PROVE  (w + n + 0) % m = 0
      OBVIOUS
    <3>1. w + gap = w /\ w + n + 0 = w + n /\ n % m = 0
      BY <1>4, <1>6
    <3>2. w % m = 0 /\ w \in Int /\ n \in Int
      BY <3>1
    <3>3. (w + n) % m = 0
      BY <1>1, <3>1, <3>2, SumOfMultiples
    <3> QED
      BY <3>1, <3>3
  <2> QED
    BY <1>1, <1>2, <1>4, <1>6, <2>1, <2>2 DEF m, u
<1>7. CASE ~c.multiple_set /\ gap > 0 /\ n >= gap
  <2>1. Align(c, gap, n) = [n |-> u - (m - gap), off |-> 0]
    BY <1>7 DEF Align, m, u
  <2>2. \A w \in Nat : (w + gap) % m = 0 => (w + (u - (m - gap)) + 0) % m = 0
    <3> SUFFICES ASSUME NEW w \in Nat, (w + gap) % m = 0
                 PROVE  (w + (u - (m - gap)) + 0) % m = 0
      OBVIOUS
    <3> DEFINE v == w + gap
    <3>a. v \in Int /\ u \in Int /\ v % m = 0 /\ u % m = 0 /\ v = w + gap
      BY <1>1, <1>2, <1>4
    <3> HIDE DEF v
    <3>1. (v + u) % m = 0
      BY <1>1, <3>a, SumOfMultiples
    <3>2. m % m = 0
      <4>1. (1 * m + 0) % m = 0
        BY <1>1
      <4>2. 1 * m + 0 = m
        BY <1>1
      <4> QED
        BY <4>1, <4>2
    <3> DEFINE x == v + u
    <3>b. x \in Int /\ x % m = 0 /\ x = v + u
      BY <3>1, <3>a
    <3> HIDE DEF x
    <3>3. (x - m) % m = 0
      BY <1>1, <3>b, <3>2, SumOfMultiples
    <3>4. w + (u - (m - gap)) + 0 = x - m
      BY <1>1, <1>2, <1>4, <3>a, <3>b
    <3> QED
      BY <3>3, <3>4
  <2>3. u >= m
    BY <1>1, <1>2, MultipleAtLeast
  <2> QED
    BY <1>1, <1>2, <1>4, <1>7, <2>1, <2>2, <2>3 DEF m, u
<1>8. CASE ~c.multiple_set /\ gap > 0 /\ n < gap
  <2>1. Align(c, gap, n) = [n |-> n, off |-> gap - n]
    BY <1>7, <1>8, <1>4 DEF Align, m, u
  <2>2. \A w \in Nat : w + n + (gap - n) = w + gap
    BY <1>4
  <2> QED
    BY <1>1, <1>2, <1>4, <1>8, <2>1, <2>2 DEF m, u
<1>9. CASE ~c.multiple_set /\ gap = 0 /\ n < m
  <2>1. Align(c, gap, n) = [n |-> n, off |-> m - n]
    BY <1>9 DEF Align, m, u
  <2>2. \A w \in Nat : (w + gap) % m = 0 => (w + n + (m - n)) % m = 0
    <3> SUFFICES ASSUME NEW w \in Nat, (w + gap) % m = 0
                 PROVE  (w + n + (m - n)) % m = 0
      OBVIOUS
    <3>1. m % m = 0
      <4>1. (1 * m + 0) % m = 0
        BY <1>1
      <4>2. 1 * m + 0 = m
        BY <1>1
      <4> QED
        BY <4>1, <4>2
    <3>2. w + gap = w /\ w + n + (m - n) = w + m
      BY <1>1, <1>9
    <3>3. w % m = 0 /\ w \in Int /\ m \in Int
      BY <1>1, <3>2
    <3>4. (w + m) % m = 0
      BY <1>1, <3>1, <3>3, SumOfMultiples
    <3> QED
      BY <3>2, <3>4
  <2> QED
    BY <1>1, <1>2, <1>4, <1>9, <2>1, <2>2 DEF m, u
<1>10. CASE ~c.multiple_set /\ gap = 0 /\ n >= m
  <2>1. Align(c, gap, n) = [n |-> d, off |-> 0]
    BY <1>10, <1>1, <1>4 DEF Align, m, d
  <2>2. \A w \in Nat : (w + gap) % m = 0 => (w + d + 0) % m = 0
    <3> SUFFICES ASSUME NEW w \in Nat, (w + gap) % m = 0
                 PROVE  (w + d + 0) % m = 0
      OBVIOUS
    <3>1. w + gap = w /\ w + d + 0 = w + d
      BY <1>3, <1>10
    <3>2. w % m = 0 /\ w \in Int /\ d \in Int /\ d % m = 0
      BY <1>3, <3>1
    <3>3. (w + d) % m = 0
      BY <1>1, <3>2, SumOfMultiples
    <3> QED
      BY <3>1, <3>3
  <2> QED
    BY <1>1, <1>2, <1>3, <1>4, <1>5, <1>10, <2>1, <2>2 DEF m, u
<1> QED
  BY <1>1, <1>4, <1>6, <1>7, <1>8, <1>9, <1>10

\* So a pass asks for something, for no more than the space it was given when
\* that is rounded up to whole multiples, and keeps the alignment.
LEMMA PassKeeps ==
    ASSUME NEW c \in BlockConfig, c.max_noutput >= c.multiple, NEW gap \in 0 .. c.multiple,
           NEW avail \in Nat, NEW n \in Nat, n > 0,
           c.multiple_set => gap = 0 /\ n % c.multiple = 0
    PROVE  LET a == Pass(c, gap, avail, n)
           IN  /\ a.n \in Nat /\ a.n > 0 /\ a.n <= round_up(n, c.multiple)
               /\ a.off \in 0 .. c.multiple
               /\ c.multiple_set => a.off = 0 /\ a.n % c.multiple = 0
               /\ \A w \in Nat : (w + gap) % c.multiple = 0
                                     => (w + a.n + a.off) % c.multiple = 0
<1> DEFINE u == UseAllInput(c, avail, n)
           k == CapOutput(c, u)
<1>1. u \in Nat /\ u > 0 /\ u <= n /\ (c.multiple_set => u % c.multiple = 0)
  BY UseAllInputKeeps
<1> HIDE DEF u
<1>2. k \in Nat /\ k > 0 /\ k <= u /\ (c.multiple_set => k % c.multiple = 0)
  BY <1>1, CapOutputKeeps
<1>3. Pass(c, gap, avail, n) = Align(c, gap, k)
  BY DEF Pass, k, u
<1> HIDE DEF k
<1>4. c.multiple \in Nat \ {0}
  BY ConfigFields
<1>5. round_up(k, c.multiple) <= round_up(n, c.multiple)
  BY <1>1, <1>2, <1>4, RoundUpMonotone
<1>6. round_up(k, c.multiple) \in Nat /\ round_up(n, c.multiple) \in Nat
  BY <1>2, <1>4, RoundUp
<1> DEFINE a == Align(c, gap, k)
<1>7. /\ a.n \in Nat /\ a.n > 0 /\ a.n <= round_up(k, c.multiple)
      /\ a.off \in 0 .. c.multiple
      /\ c.multiple_set => a.off = 0 /\ a.n % c.multiple = 0
      /\ \A w \in Nat : (w + gap) % c.multiple = 0
                            => (w + a.n + a.off) % c.multiple = 0
  BY <1>2, AlignKeeps
<1> HIDE DEF a
<1>8. a.n <= round_up(n, c.multiple)
  BY <1>5, <1>6, <1>7
<1> QED
  BY <1>3, <1>7, <1>8 DEF a

LEMMA HalveKeeps ==
    ASSUME NEW c \in BlockConfig, NEW n \in Nat, n > c.multiple
    PROVE  LET h == Halve(c, n)
           IN  /\ h \in Nat /\ h > 0 /\ h % c.multiple = 0
               /\ round_up(h, c.multiple) <= round_up(n, c.multiple)
<1> DEFINE k == n \div 2
<1>1. c.multiple \in Nat \ {0}
  BY ConfigFields
<1>2. k \in Nat /\ k > 0 /\ k <= n
  BY <1>1
<1>3. Halve(c, n) = round_up(k, c.multiple)
  BY DEF Halve
<1> HIDE DEF k
<1>4. /\ round_up(k, c.multiple) \in Nat
      /\ k <= round_up(k, c.multiple)
      /\ round_up(k, c.multiple) % c.multiple = 0
  BY <1>1, <1>2, RoundUp
<1>5. round_up(round_up(k, c.multiple), c.multiple) = round_up(k, c.multiple)
  BY <1>1, <1>4, RoundMultiple
<1>6. round_up(k, c.multiple) <= round_up(n, c.multiple)
  BY <1>1, <1>2, RoundUpMonotone
<1> QED
  BY <1>2, <1>3, <1>4, <1>5, <1>6

\* The space offered is free, in whole multiples, and less than INT_MAX.
LEMMA OfferedIs ==
    ASSUME NEW c \in BlockConfig, NEW space \in Nat, NEW size \in Nat
    PROVE  LET n == offered(c, space, size)
           IN  n \in Nat /\ n <= space /\ n <= size /\ n % c.multiple = 0
<1> DEFINE h == size \div 2
<1>1. c.multiple \in Nat \ {0}
  BY ConfigFields
<1>2. h \in Nat /\ h <= size
  OBVIOUS
<1>3. offered(c, space, size) = Least(round_down(space, c.multiple), round_down(h, c.multiple))
  BY DEF offered, best_n
<1> HIDE DEF h
<1>4. /\ round_down(space, c.multiple) \in Nat
      /\ round_down(space, c.multiple) <= space
      /\ round_down(space, c.multiple) % c.multiple = 0
  BY <1>1, RoundDown
<1>5. /\ round_down(h, c.multiple) \in Nat
      /\ round_down(h, c.multiple) <= h
      /\ round_down(h, c.multiple) % c.multiple = 0
  BY <1>1, <1>2, RoundDown
<1>6. offered(c, space, size) <= h
  BY <1>2, <1>3, <1>4, <1>5 DEF Least
<1>7. offered(c, space, size) <= space
  BY <1>2, <1>3, <1>4, <1>5 DEF Least
<1> QED
  BY <1>2, <1>3, <1>4, <1>5, <1>6, <1>7 DEF Least

LEMMA SinkGuessIs ==
    ASSUME NEW c \in BlockConfig, NEW avail \in Nat
    PROVE  LET n == sink_guess(c, avail) IN n \in Nat /\ n % c.multiple = 0
<1> DEFINE a == avail * c.interp
           x == a \div c.decim
<1>1. c.multiple \in Nat \ {0} /\ c.decim \in Nat \ {0} /\ c.interp \in Nat
      /\ c.max_noutput \in Nat
  BY ConfigFields
<1>2. a \in Nat
  BY <1>1
<1> HIDE DEF a
<1>3. x \in Nat
  BY <1>1, <1>2, DivNat
<1> HIDE DEF x
<1>4. round_down(x, c.multiple) \in Nat /\ round_down(x, c.multiple) % c.multiple = 0
  BY <1>1, <1>3, RoundDown
<1>5. max_noutput_items(c) \in Nat /\ max_noutput_items(c) % c.multiple = 0
  BY <1>1, RoundDown DEF max_noutput_items
<1> QED
  BY <1>4, <1>5 DEF sink_guess, Least, x, a

\* A call that makes r of the n items it was asked for takes no more from an
\* input than forecast said n need, and leaves the history.
LEMMA ForecastCovers ==
    ASSUME NEW c \in BlockConfig, NEW n \in Nat, NEW r \in Nat, r <= n
    PROVE  /\ forecast(c, n) \in Nat
           /\ forecast(c, r) <= forecast(c, n)
           /\ (r * c.decim) \div c.interp \in Nat
           /\ (r * c.decim) \div c.interp + c.history - 1 <= forecast(c, r)
<1> DEFINE d == c.decim
           p == c.interp
           x == r * d
           y == n * d
<1>1. d \in Nat \ {0} /\ p \in Nat \ {0} /\ c.history \in Nat \ {0} /\ c.fixed_rate \in BOOLEAN
      /\ (~c.fixed_rate => d <= p)
  BY ConfigFields
<1> HIDE DEF d, p
<1>2. x \in Nat /\ y \in Nat /\ x <= y
  BY <1>1
<1>3. d <= p => x <= r * p + 0
  BY <1>1
<1> HIDE DEF x, y
<1>4. x \div p \in Nat /\ y \div p \in Nat /\ x \div p <= y \div p
  BY <1>1, <1>2, DivNat, DivMonotone
<1>5. d <= p => x \div p <= r
  <2>1. (r * p + 0) \div p = r
    BY <1>1
  <2>2. r * p + 0 \in Int
    BY <1>1
  <2>3. d <= p => x \div p <= (r * p + 0) \div p
    BY <1>1, <1>2, <1>3, <2>2, DivMonotone
  <2> QED
    BY <2>1, <2>3
<1>6. /\ forecast(c, n) = IF c.fixed_rate THEN y \div p + c.history - 1 ELSE n + c.history - 1
      /\ forecast(c, r) = IF c.fixed_rate THEN x \div p + c.history - 1 ELSE r + c.history - 1
      /\ (r * c.decim) \div c.interp = x \div p
  BY DEF forecast, x, y, d, p
<1> QED
  BY <1>1, <1>4, <1>5, <1>6

-----------------------------------------------------------------------------
(* The inductive invariant.                                                *)

\* Every block may be asked for a whole multiple at once.
RoomForOne == \A b \in Blocks : Cfg[b].max_noutput >= Cfg[b].multiple

\* The port a thread is at is one of those it is looping over.
PortInRange(b) ==
    /\ pc[b] \in {"inputs", "consume"} => port[b] \in InPorts(b)
    /\ pc[b] \in {"outputs", "produce"} => port[b] \in OutPorts(b)
    /\ pc[b] = "set_done" => port[b] \in 1 .. Len(Adjacent(b))
    /\ pc[b] \notin {"inputs", "consume", "outputs", "produce", "set_done"} => port[b] = 1
    /\ pc[b] \in {"guess", "fit"} => ~source_p(b)
    /\ pc[b] = "guess" => sink_p(b)

\* What a thread was told of the space in its outputs it still has.
RoomFor(b, o) == HasSpace(Outs[b][o], round_up(noutput[b], Cfg[b].multiple))
SpaceHeld(b) ==
    /\ pc[b] = "outputs" => \A o \in OutPorts(b) : o < port[b] => RoomFor(b, o)
    /\ pc[b] = "fit" => \A o \in OutPorts(b) : RoomFor(b, o)
    /\ pc[b] = "work" => \A o \in OutPorts(b) : HasSpace(Outs[b][o], noutput[b])
    /\ pc[b] = "consume" => \A o \in OutPorts(b) : HasSpace(Outs[b][o], result[b])
    /\ pc[b] = "produce" =>
           \A o \in OutPorts(b) : o >= port[b] => HasSpace(Outs[b][o], result[b])

\* What it was told of the items in its inputs is still there.
InputHeld(b) ==
    /\ pc[b] = "inputs" => \A i \in InPorts(b) : i < port[b] => items[<<b, i>>] <= Unread(b, i)
    /\ pc[b] \in {"outputs", "guess", "fit"} =>
           \A i \in InPorts(b) : items[<<b, i>>] <= Unread(b, i)
    /\ pc[b] = "work" => \A i \in InPorts(b) : forecast(Cfg[b], noutput[b]) <= Unread(b, i)
    /\ pc[b] = "consume" =>
           \A i \in InPorts(b) : i >= port[b] => forecast(Cfg[b], result[b]) <= Unread(b, i)

\* It asks for something, and in whole multiples if the block wants that.
RequestSound(b) ==
    /\ pc[b] = "inputs" => noutput[b] = INT_MAX
    /\ pc[b] \in {"outputs", "fit", "work"} => noutput[b] > 0
    /\ pc[b] = "outputs" => \/ noutput[b] % Cfg[b].multiple = 0
                            \/ port[b] = 1 /\ noutput[b] = INT_MAX
    /\ pc[b] \in {"fit", "work"} /\ Cfg[b].multiple_set => noutput[b] % Cfg[b].multiple = 0
    /\ pc[b] \in {"consume", "produce"} => result[b] > 0

\* d_unaligned accounts for what is written, and for what is about to be.
OutputAligned(b, o) ==
    LET w == written[Outs[b][o]]
        m == Cfg[b].multiple
    IN  /\ (pc[b] # "consume" /\ (pc[b] # "produce" \/ o < port[b])) => (w + off[b]) % m = 0
        /\ pc[b] = "work" => (w + noutput[b] + new_alignment[b]) % m = 0
        /\ (pc[b] = "consume" \/ (pc[b] = "produce" /\ o >= port[b])) =>
               (w + result[b] + off[b]) % m = 0

AlignmentSound(b) ==
    /\ Cfg[b].multiple_set \/ source_p(b) => off[b] = 0 /\ new_alignment[b] = 0
    /\ pc[b] \notin {"work", "exit"} => new_alignment[b] = 0
    /\ Whole(b) => /\ left[b] = -1
                   /\ empties[b] = 0
                   /\ \A o \in OutPorts(b) : OutputAligned(b, o)

BlockInv(b) == /\ PortInRange(b)
               /\ SpaceHeld(b)
               /\ InputHeld(b)
               /\ RequestSound(b)
               /\ AlignmentSound(b)

IInv == TypeOK /\ CountsWithinBuffer /\ \A b \in Blocks : BlockInv(b)

-----------------------------------------------------------------------------
(* The flowgraph.                                                          *)

LEMMA Graph ==
    ASSUME NEW b \in Blocks
    PROVE  /\ Ins[b] \in Seq(Bufs) /\ Outs[b] \in Seq(Bufs)
           /\ Len(Ins[b]) \in Nat /\ Len(Outs[b]) \in Nat
           /\ \A i \in InPorts(b) : i \in Nat \ {0} /\ i <= Len(Ins[b]) /\ Ins[b][i] \in Bufs
           /\ \A o \in OutPorts(b) : o \in Nat \ {0} /\ o <= Len(Outs[b]) /\ Outs[b][o] \in Bufs
           /\ Len(Ins[b]) > 0 \/ Len(Outs[b]) > 0
           /\ Cfg[b] \in BlockConfig
BY GraphAssumption, BlocksAssumption DEF InPorts, OutPorts, source_p, sink_p

LEMMA IntMax == INT_MAX \in Nat \ {0}
BY SMT DEF INT_MAX

LEMMA Sizes == \A buf \in Bufs : Size[buf] \in Nat \ {0} /\ Size[buf] <= INT_MAX
BY SizeAssumption, IntMax

LEMMA PortIs ==
    /\ \A b \in Blocks : \A i \in InPorts(b) : <<b, i>> \in Ports
    /\ \A rd \in Ports : /\ rd[1] \in Blocks /\ rd[2] \in InPorts(rd[1])
                         /\ rd = <<rd[1], rd[2]>>
BY DEF Ports

LEMMA ReaderIs ==
    ASSUME NEW buf \in Bufs
    PROVE  \A rd : rd \in Readers[buf] <=> rd \in Ports /\ Ins[rd[1]][rd[2]] = buf
BY DEF Readers

LEMMA AdjacentIs ==
    ASSUME NEW b \in Blocks
    PROVE  /\ Adjacent(b) \in Seq(Bufs)
           /\ Len(Adjacent(b)) \in Nat /\ Len(Adjacent(b)) > 0
           /\ \A p \in 1 .. Len(Adjacent(b)) : Adjacent(b)[p] \in Bufs
<1>1. Ins[b] \in Seq(Bufs) /\ Outs[b] \in Seq(Bufs) /\ (Len(Ins[b]) > 0 \/ Len(Outs[b]) > 0)
      /\ Len(Ins[b]) \in Nat /\ Len(Outs[b]) \in Nat
  BY Graph
<1>2. Adjacent(b) \in Seq(Bufs) /\ Len(Adjacent(b)) = Len(Outs[b]) + Len(Ins[b])
  BY <1>1 DEF Adjacent
<1> DEFINE s == Adjacent(b)
           i == Len(Ins[b])
           o == Len(Outs[b])
<1>3. s \in Seq(Bufs) /\ Len(s) = o + i /\ i \in Nat /\ o \in Nat /\ (i > 0 \/ o > 0)
  BY <1>1, <1>2
<1> HIDE DEF i, o
<1> HIDE DEF s
<1>4. Len(s) \in Nat /\ Len(s) > 0
  BY <1>3
<1>5. \A p \in 1 .. Len(s) : s[p] \in Bufs
  BY <1>3, <1>4
<1> QED
  BY <1>3, <1>4, <1>5 DEF s

LEMMA WriterIs ==
    /\ \A b \in Blocks : \A o \in OutPorts(b) : Writer[Outs[b][o]] = b
    /\ \A b \in Blocks : \A i \in InPorts(b) : Writer[Ins[b][i]] \in Blocks
<1>1. ASSUME NEW b \in Blocks, NEW o \in OutPorts(b)
      PROVE  Writer[Outs[b][o]] = b
  <2>1. Outs[b][o] \in Bufs
    BY Graph
  <2>2. \A c \in Blocks : (\E p \in OutPorts(c) : Outs[c][p] = Outs[b][o]) => c = b
    BY GraphAssumption
  <2> QED
    BY <2>1, <2>2 DEF Writer
<1>2. ASSUME NEW b \in Blocks, NEW i \in InPorts(b)
      PROVE  Writer[Ins[b][i]] \in Blocks
  <2>1. PICK c \in Blocks : \E o \in OutPorts(c) : Outs[c][o] = Ins[b][i]
    BY GraphAssumption
  <2> QED
    BY <1>1, <2>1
<1> QED
  BY <1>1, <1>2

\* To whom, and for which port, a notification is.
Notification == {"input", "output"} \X (Nat \ {0}) \X Blocks
LEMMA NeighborsType ==
    ASSUME NEW b \in Blocks
    PROVE  Upstream[b] \subseteq Notification /\ Neighbors[b] \subseteq Notification
<1>1. Upstream[b] \subseteq Notification
  BY Graph, WriterIs DEF Upstream, Notification
<1>2. Downstream[b] \subseteq Notification
  <2>1. ASSUME NEW o \in OutPorts(b), NEW rd \in Readers[Outs[b][o]]
        PROVE  rd[1] \in Blocks /\ o \in Nat \ {0}
    <3>1. Outs[b][o] \in Bufs /\ o \in Nat \ {0}
      BY Graph
    <3> QED
      BY <3>1, ReaderIs, PortIs
  <2> QED
    BY <2>1 DEF Downstream, Notification
<1> QED
  BY <1>1, <1>2 DEF Neighbors

LEMMA NextPortIs ==
    ASSUME NEW n \in Nat \ {0}, NEW i \in 1 .. n
    PROVE  /\ NextPort(i, n) \in 1 .. n
           /\ i < n => NextPort(i, n) = i + 1
           /\ i >= n => NextPort(i, n) = 1 /\ i = n
BY DEF NextPort

-----------------------------------------------------------------------------
(* What a step leaves alone.                                               *)

LEMMA Counts ==
    ASSUME TypeOK, NEW b \in Blocks, NEW i \in InPorts(b)
    PROVE  Unread(b, i) \in Int /\ written[Ins[b][i]] \in Nat /\ read[<<b, i>>] \in Nat
<1>1. Ins[b][i] \in Bufs /\ Cfg[b] \in BlockConfig /\ <<b, i>> \in Ports
  BY Graph, PortIs
<1>2. Cfg[b].history \in Nat
  BY <1>1, ConfigFields
<1>3. written[Ins[b][i]] \in Nat /\ read[<<b, i>>] \in Nat
  BY <1>1 DEF TypeOK
<1> QED
  BY <1>2, <1>3 DEF Unread

\* Space for n items is space for fewer.
LEMMA SpaceForFewer ==
    ASSUME TypeOK, NEW buf \in Bufs, NEW n \in Nat, NEW k \in Nat, k <= n, HasSpace(buf, n)
    PROVE  HasSpace(buf, k)
<1>1. \A rd \in Readers[buf] : Unread(rd[1], rd[2]) \in Int
  BY ReaderIs, PortIs, Counts
<1>2. Size[buf] \in Nat
  BY Sizes
<1> QED
  BY <1>1, <1>2 DEF HasSpace

\* A step of b leaves the other threads where they are, takes nothing from
\* their inputs and no space in their outputs.
Framed(b) == \A c \in Blocks \ {b} :
    /\ pc'[c] = pc[c] /\ port'[c] = port[c] /\ noutput'[c] = noutput[c] /\ off'[c] = off[c]
    /\ new_alignment'[c] = new_alignment[c] /\ result'[c] = result[c]
    /\ left'[c] = left[c] /\ empties'[c] = empties[c]
    /\ \A i \in InPorts(c) : items'[<<c, i>>] = items[<<c, i>>] /\ Unread(c, i)' >= Unread(c, i)
    /\ \A o \in OutPorts(c) : /\ written'[Outs[c][o]] = written[Outs[c][o]]
                              /\ \A n \in Nat : HasSpace(Outs[c][o], n) => HasSpace(Outs[c][o], n)'

\* What the lemmas below show of each step of a block.
Kept(b) == TypeOK' /\ CountsWithinBuffer' /\ BlockInv(b)' /\ Framed(b)

LEMMA FrameKeeps ==
    ASSUME IInv, NEW b \in Blocks, Kept(b)
    PROVE  IInv'
<1> SUFFICES ASSUME NEW c \in Blocks \ {b}
             PROVE  BlockInv(c)'
  BY DEF IInv, Kept
<1> USE DEF Kept
<1>0. TypeOK /\ TypeOK' /\ BlockInv(c) /\ Cfg[c] \in BlockConfig
  BY Graph DEF IInv
<1>1. /\ pc'[c] = pc[c] /\ port'[c] = port[c] /\ noutput'[c] = noutput[c] /\ off'[c] = off[c]
      /\ new_alignment'[c] = new_alignment[c] /\ result'[c] = result[c]
      /\ left'[c] = left[c] /\ empties'[c] = empties[c]
  BY DEF Framed
<1>2. \A i \in InPorts(c) : items'[<<c, i>>] = items[<<c, i>>] /\ Unread(c, i)' >= Unread(c, i)
  BY DEF Framed
<1>3. \A o \in OutPorts(c) : written'[Outs[c][o]] = written[Outs[c][o]]
  BY DEF Framed
<1>4. \A o \in OutPorts(c) : \A n \in Nat : HasSpace(Outs[c][o], n) => HasSpace(Outs[c][o], n)'
  BY DEF Framed
<1>5. PortInRange(c)'
  BY <1>0, <1>1 DEF BlockInv, PortInRange
<1>6. noutput[c] \in Nat /\ result[c] \in Int /\ Cfg[c].multiple \in Nat \ {0}
  BY <1>0, ConfigFields DEF TypeOK, WORK_DONE
<1>7. round_up(noutput[c], Cfg[c].multiple) \in Nat
  BY <1>6, RoundUp
<1>8. SpaceHeld(c)'
  <2>1. RequestSound(c) /\ SpaceHeld(c)
    BY <1>0 DEF BlockInv
  <2>2. pc[c] \in {"consume", "produce"} => result[c] \in Nat
    BY <1>6, <2>1 DEF RequestSound
  <2> QED
    BY <1>1, <1>4, <1>6, <1>7, <2>1, <2>2 DEF SpaceHeld, RoomFor
<1>9. InputHeld(c)'
  <2>1. \A i \in InPorts(c) : Unread(c, i) \in Int /\ Unread(c, i)' \in Int /\ items[<<c, i>>] \in Nat
    <3>1. ASSUME NEW i \in InPorts(c) PROVE Unread(c, i)' \in Int
      <4>1. Ins[c][i] \in Bufs /\ Cfg[c].history \in Nat /\ <<c, i>> \in Ports
        BY <1>0, Graph, PortIs, ConfigFields
      <4>2. written'[Ins[c][i]] \in Nat /\ read'[<<c, i>>] \in Nat
        BY <1>0, <4>1 DEF TypeOK
      <4> QED
        BY <4>1, <4>2 DEF Unread
    <3> QED
      BY <1>0, <3>1, Counts, PortIs DEF TypeOK
  <2>2. InputHeld(c)
    BY <1>0 DEF BlockInv
  <2> DEFINE f == forecast(Cfg[c], noutput[c])
             g == forecast(Cfg[c], result[c])
  <2>3. pc[c] = "work" => f \in Int
    BY <1>0, <1>6, ForecastCovers
  <2>4. pc[c] = "consume" => g \in Int
    BY <1>0, <1>6, ForecastCovers DEF BlockInv, RequestSound
  <2>a. /\ pc[c] = "work" => \A i \in InPorts(c) : f <= Unread(c, i)
        /\ pc[c] = "consume" => \A i \in InPorts(c) : i >= port[c] => g <= Unread(c, i)
    BY <2>2 DEF InputHeld
  <2> HIDE DEF f, g
  <2>5. pc[c] = "inputs" =>
            \A i \in InPorts(c) : i < port[c] => items'[<<c, i>>] <= Unread(c, i)'
    BY <1>2, <2>1, <2>2 DEF InputHeld
  <2>6. pc[c] \in {"outputs", "guess", "fit"} =>
            \A i \in InPorts(c) : items'[<<c, i>>] <= Unread(c, i)'
    BY <1>2, <2>1, <2>2 DEF InputHeld
  <2>7. ASSUME pc[c] = "work", NEW i \in InPorts(c)
        PROVE  f <= Unread(c, i)'
    <3>1. f \in Int /\ f <= Unread(c, i) /\ Unread(c, i) \in Int /\ Unread(c, i)' \in Int
      BY <2>1, <2>3, <2>7, <2>a
    <3>2. Unread(c, i)' >= Unread(c, i)
      BY <1>2
    <3> QED
      BY <3>1, <3>2
  <2>8. ASSUME pc[c] = "consume", NEW i \in InPorts(c), i >= port[c]
        PROVE  g <= Unread(c, i)'
    <3>1. g \in Int /\ g <= Unread(c, i) /\ Unread(c, i) \in Int /\ Unread(c, i)' \in Int
      BY <2>1, <2>4, <2>8, <2>a
    <3>2. Unread(c, i)' >= Unread(c, i)
      BY <1>2
    <3> QED
      BY <3>1, <3>2
  <2> QED
    BY <1>1, <2>5, <2>6, <2>7, <2>8 DEF InputHeld, f, g
<1>10. RequestSound(c)'
  BY <1>0, <1>1 DEF BlockInv, RequestSound
<1>11. AlignmentSound(c)'
  BY <1>0, <1>1, <1>3 DEF BlockInv, AlignmentSound, OutputAligned
<1> QED
  BY <1>5, <1>8, <1>9, <1>10, <1>11 DEF BlockInv

\* A step of b that touches no counter.
Others(b) == \A c \in Blocks \ {b} :
    /\ pc'[c] = pc[c] /\ port'[c] = port[c] /\ noutput'[c] = noutput[c] /\ off'[c] = off[c]
    /\ new_alignment'[c] = new_alignment[c] /\ result'[c] = result[c]
    /\ left'[c] = left[c] /\ empties'[c] = empties[c]
    /\ \A i \in InPorts(c) : items'[<<c, i>>] = items[<<c, i>>]

LEMMA LocalFrame ==
    ASSUME IInv, NEW b \in Blocks, Others(b), UNCHANGED <<read, written>>
    PROVE  /\ Framed(b) /\ CountsWithinBuffer'
           /\ \A c \in Blocks : \A i \in InPorts(c) : Unread(c, i)' = Unread(c, i)
           /\ \A buf, n : HasSpace(buf, n)' <=> HasSpace(buf, n)
<1>1. \A c \in Blocks : \A i \in InPorts(c) : Unread(c, i)' = Unread(c, i)
  BY DEF Unread
<1>2. \A buf, n : HasSpace(buf, n)' <=> HasSpace(buf, n)
  BY DEF HasSpace, Unread
<1>3. ASSUME NEW c \in Blocks, NEW i \in InPorts(c)
      PROVE  Unread(c, i)' >= Unread(c, i)
  <2>1. Unread(c, i) \in Int /\ Unread(c, i)' = Unread(c, i)
    BY <1>1, Counts DEF IInv
  <2> QED
    BY <2>1
<1> QED
  BY <1>1, <1>2, <1>3 DEF Framed, Others, IInv, CountsWithinBuffer

\* At these labels a thread has nothing at stake but its alignment.
Resting == {"barrier", "top", "notify", "notify_done", "wait_in", "wait_out", "exit", "dead"}

LEMMA RestingInv ==
    ASSUME IInv, NEW b \in Blocks, pc[b] \notin {"consume", "produce"}, written' = written,
           pc'[b] \in Resting \/ (pc'[b] = "set_done" /\ port'[b] \in 1 .. Len(Adjacent(b))),
           pc'[b] \in Resting => port'[b] = 1,
           off'[b] = off[b], left'[b] = left[b], empties'[b] = empties[b],
           new_alignment'[b] \in {0, new_alignment[b]},
           pc[b] \notin {"work", "exit"} \/ pc'[b] = "exit" \/ new_alignment'[b] = 0
    PROVE  BlockInv(b)'
<1>1. PortInRange(b)'
  BY DEF PortInRange, Resting
<1>2. SpaceHeld(b)' /\ InputHeld(b)' /\ RequestSound(b)'
  BY DEF SpaceHeld, InputHeld, RequestSound, Resting
<1>3. AlignmentSound(b)'
  BY DEF IInv, BlockInv, AlignmentSound, OutputAligned, Resting
<1> QED
  BY <1>1, <1>2, <1>3 DEF BlockInv

LEMMA WakeStep ==
    ASSUME IInv, NEW b \in Blocks, WakeOut(b) \/ WakeIn(b) \/ Timeout(b) \/ Interrupted(b)
    PROVE  Kept(b)
<1> USE DEF WakeOut, WakeIn, Timeout, Interrupted, Goto, local, shared
<1>1. TypeOK'
  BY DEF IInv, TypeOK
<1>2. Others(b)
  BY DEF IInv, TypeOK, Others
<1>3. /\ pc[b] \notin {"consume", "produce", "exit"} /\ pc'[b] \in Resting /\ port'[b] = 1
      /\ pc[b] # "work" \/ pc'[b] = "exit"
  BY DEF IInv, TypeOK, BlockInv, PortInRange, Interruptible, Resting
<1>4. BlockInv(b)'
  BY <1>3, RestingInv
<1> QED
  BY <1>1, <1>2, <1>4, LocalFrame DEF Kept

LEMMA ThrowStep ==
    ASSUME IInv, NEW b \in Blocks, Throw(b)
    PROVE  Kept(b)
<1> USE DEF Throw, Goto, shared
<1>1. TypeOK'
  BY Graph, ConfigFields, SMTT(20) DEF IInv, TypeOK
<1>2. Others(b)
  BY DEF IInv, TypeOK, Others
<1>3. /\ pc[b] \notin {"consume", "produce", "exit"} /\ pc'[b] \in Resting /\ port'[b] = 1
      /\ new_alignment'[b] = 0
  BY DEF IInv, TypeOK, BlockInv, PortInRange, Resting
<1>4. BlockInv(b)'
  BY <1>3, RestingInv DEF IInv, TypeOK
<1> QED
  BY <1>1, <1>2, <1>4, LocalFrame DEF Kept

LEMMA NotifyStep ==
    ASSUME IInv, NEW b \in Blocks, Notify(b)
    PROVE  Kept(b)
<1> USE DEF Notify, Goto
<1>1. TypeOK'
  <2>1. PICK t \in todo[b] :
            /\ IF t[1] = "input"
               THEN /\ input_changed' = [input_changed EXCEPT ![t[3]] = TRUE]
                    /\ UNCHANGED output_changed
               ELSE /\ output_changed' = [output_changed EXCEPT ![t[3]] = TRUE]
                    /\ UNCHANGED input_changed
            /\ todo' = [todo EXCEPT ![b] = @ \ {t}]
            /\ IF todo[b] # {t} THEN UNCHANGED <<pc, result>>
               ELSE /\ Goto(b, IF pc[b] = "notify" THEN "top" ELSE "exit")
                    /\ result' = [result EXCEPT ![b] = 0]
    OBVIOUS
  <2>2. input_changed' \in [Blocks -> BOOLEAN] /\ output_changed' \in [Blocks -> BOOLEAN]
    BY <2>1, ZenonT(30) DEF IInv, TypeOK
  <2>3. todo' \in [Blocks -> SUBSET ({"input", "output"} \X (Nat \ {0}) \X Blocks)]
    BY <2>1 DEF IInv, TypeOK
  <2> QED
    BY <2>1, <2>2, <2>3 DEF IInv, TypeOK
<1>2. Others(b)
  BY DEF IInv, TypeOK, Others
<1>3. /\ pc[b] \notin {"consume", "produce", "exit"} /\ pc'[b] \in Resting /\ port'[b] = 1
      /\ pc[b] # "work"
  BY DEF IInv, TypeOK, BlockInv, PortInRange, Resting
<1>4. BlockInv(b)'
  BY <1>3, RestingInv
<1> QED
  BY <1>1, <1>2, <1>4, LocalFrame DEF Kept

LEMMA TopStep ==
    ASSUME RoomForOne, IInv, NEW b \in Blocks, Top(b)
    PROVE  Kept(b)
<1> USE DEF Top, Goto
<1> DEFINE most == max_noutput_items(Cfg[b])
<1>0. /\ Cfg[b] \in BlockConfig /\ Cfg[b].multiple \in Nat \ {0} /\ Cfg[b].max_noutput \in Nat
      /\ Cfg[b].max_noutput >= Cfg[b].multiple
  BY Graph, ConfigFields DEF RoomForOne
<1>1. most \in Nat /\ most > 0 /\ most % Cfg[b].multiple = 0
  <2> DEFINE m == Cfg[b].multiple
             n == Cfg[b].max_noutput
  <2>1. m \in Nat \ {0} /\ n \in Nat /\ n >= m
    BY <1>0
  <2>2. most = round_down(n, m)
    BY DEF max_noutput_items
  <2> HIDE DEF m, n, most
  <2>3. round_down(n, m) \in Nat /\ round_down(n, m) >= m /\ round_down(n, m) % m = 0
    BY <2>1, RoundDown, RoundDownAtLeast
  <2>4. most \in Nat /\ most > 0 /\ most % m = 0
    BY <2>1, <2>2, <2>3
  <2> QED
    BY <2>4 DEF m
<1> HIDE DEF most
<1>2. noutput'[b] = IF source_p(b) THEN most ELSE INT_MAX
  BY DEF most, IInv, TypeOK
<1>3. TypeOK'
  <2>1. noutput' \in [Blocks -> Nat]
    BY <1>1, IntMax DEF most, IInv, TypeOK
  <2> QED
    BY <2>1 DEF IInv, TypeOK
<1>4. Others(b)
  BY DEF IInv, TypeOK, Others
<1>5. pc[b] = "top" /\ port'[b] = 1 /\ pc'[b] = IF source_p(b) THEN "outputs" ELSE "inputs"
  BY DEF IInv, TypeOK
<1>6. PortInRange(b)'
  BY <1>5, Graph DEF PortInRange, InPorts, OutPorts, source_p
<1>7. SpaceHeld(b)' /\ InputHeld(b)'
  BY <1>5, Graph DEF SpaceHeld, InputHeld, InPorts, source_p
<1>8. RequestSound(b)'
  BY <1>1, <1>2, <1>5, IntMax DEF RequestSound
<1>9. AlignmentSound(b)'
  BY <1>5 DEF IInv, BlockInv, AlignmentSound, OutputAligned
<1> QED
  BY <1>3, <1>4, <1>6, <1>7, <1>8, <1>9, LocalFrame DEF Kept, BlockInv

LEMMA Forgotten ==
    ASSUME TypeOK, NEW b \in Blocks, ForgetInputs(b)
    PROVE  /\ items' \in [Ports -> Nat] /\ in_done' \in [Ports -> BOOLEAN]
           /\ \A c \in Blocks \ {b} : \A i \in InPorts(c) : items'[<<c, i>>] = items[<<c, i>>]
<1>1. items \in [Ports -> Nat] /\ in_done \in [Ports -> BOOLEAN]
  BY DEF TypeOK
<1>2. items' \in [Ports -> Nat] /\ in_done' \in [Ports -> BOOLEAN]
  BY <1>1 DEF ForgetInputs
<1>3. ASSUME NEW c \in Blocks \ {b}, NEW i \in InPorts(c)
      PROVE  items'[<<c, i>>] = items[<<c, i>>]
  <2>1. <<c, i>> \in Ports /\ <<c, i>>[1] # b
    BY PortIs
  <2> QED
    BY <2>1 DEF ForgetInputs
<1> QED
  BY <1>2, <1>3

LEMMA SnapshotInputStep ==
    ASSUME IInv, NEW b \in Blocks, SnapshotInput(b)
    PROVE  Kept(b)
<1> USE DEF SnapshotInput, Goto, shared
<1> DEFINE i == port[b]
           n == Unread(b, i)
           quit == sink_p(b) /\ Exhausted(b, n, done[Ins[b][i]])
<1>0. /\ TypeOK /\ BlockInv(b) /\ pc[b] = "inputs" /\ i \in InPorts(b) /\ <<b, i>> \in Ports
      /\ i \in Nat \ {0} /\ Len(Ins[b]) \in Nat /\ i <= Len(Ins[b]) /\ Ins[b][i] \in Bufs
  BY Graph, PortIs DEF IInv
<1>1. n \in Nat
  BY <1>0, Sizes DEF IInv, CountsWithinBuffer
<1>2. done[Ins[b][i]] \in BOOLEAN
  BY <1>0 DEF TypeOK
<1>3. CASE quit
  <2>1. /\ pc' = [pc EXCEPT ![b] = "set_done"] /\ port' = [port EXCEPT ![b] = 1]
        /\ ForgetInputs(b)
        /\ UNCHANGED <<noutput, off, new_alignment, result, todo, left, empties>>
        /\ UNCHANGED <<input_changed, output_changed, done, interrupted>>
        /\ UNCHANGED <<read, written>>
    BY <1>3
  <2> HIDE DEF n, SnapshotInput
  <2>2. TypeOK'
    <3>1. items' \in [Ports -> Nat] /\ in_done' \in [Ports -> BOOLEAN]
      BY <1>0, <2>1, Forgotten
    <3>2. port' \in [Blocks -> Nat \ {0}]
      BY <1>0, <2>1 DEF TypeOK
    <3> QED
      BY <1>0, <2>1, <3>1, <3>2 DEF TypeOK
  <2>3. Others(b)
    BY <1>0, <2>1, Forgotten DEF TypeOK, Others
  <2>4. BlockInv(b)'
    <3>1. pc'[b] = "set_done" /\ port'[b] = 1
      BY <1>0, <2>1 DEF TypeOK
    <3>2. port'[b] \in 1 .. Len(Adjacent(b))
      BY <3>1, AdjacentIs
    <3> QED
      BY <1>0, <2>1, <3>1, <3>2, RestingInv DEF Resting
  <2> QED
    BY <2>1, <2>2, <2>3, <2>4, LocalFrame DEF Kept
<1>4. CASE ~quit
  <2>1. /\ items' = [items EXCEPT ![<<b, i>>] = n]
        /\ in_done' = [in_done EXCEPT ![<<b, i>>] = done[Ins[b][i]]]
        /\ port' = [port EXCEPT ![b] = NextPort(i, Len(Ins[b]))]
        /\ pc' = [pc EXCEPT ![b] = IF i < Len(Ins[b]) THEN "inputs"
                                   ELSE IF sink_p(b) THEN "guess" ELSE "outputs"]
        /\ UNCHANGED <<noutput, off, new_alignment, result, todo, left, empties>>
        /\ UNCHANGED <<read, written>>
    BY <1>4
  <2> HIDE DEF n, SnapshotInput
  <2> DEFINE next == NextPort(i, Len(Ins[b]))
  <2>2. /\ next \in 1 .. Len(Ins[b]) /\ (i < Len(Ins[b]) => next = i + 1)
        /\ (i >= Len(Ins[b]) => next = 1 /\ i = Len(Ins[b]))
    BY <1>0, NextPortIs
  <2> HIDE DEF next
  <2>3. TypeOK'
    <3>1. next \in Nat \ {0}
      BY <1>0, <2>2
    <3>2. port' \in [Blocks -> Nat \ {0}]
      BY <1>0, <2>1, <3>1 DEF TypeOK, next
    <3>3. items' \in [Ports -> Nat] /\ in_done' \in [Ports -> BOOLEAN]
      BY <1>0, <1>1, <1>2, <2>1 DEF TypeOK
    <3>4. UNCHANGED shared
      BY DEF SnapshotInput
    <3> QED
      BY <1>0, <2>1, <3>2, <3>3, <3>4 DEF TypeOK
  <2>4. Others(b)
    BY <1>0, <2>1, PortIs DEF TypeOK, Others
  <2>5. port'[b] = next /\ pc'[b] = IF i < Len(Ins[b]) THEN "inputs"
                                    ELSE IF sink_p(b) THEN "guess" ELSE "outputs"
    BY <1>0, <2>1 DEF TypeOK, next
  <2>6. PortInRange(b)'
    BY <1>0, <2>2, <2>5, Graph DEF PortInRange, InPorts, OutPorts, source_p, sink_p
  <2>7. \A j \in InPorts(b) : Unread(b, j)' = Unread(b, j)
    BY <2>1, <2>4, LocalFrame
  <2>8. \A j \in InPorts(b) : j <= i => items'[<<b, j>>] <= Unread(b, j)
    <3> SUFFICES ASSUME NEW j \in InPorts(b), j <= i
                 PROVE  items'[<<b, j>>] <= Unread(b, j)
      OBVIOUS
    <3>1. <<b, j>> \in Ports /\ j \in Nat /\ Unread(b, j) \in Int
      BY <1>0, PortIs, Graph, Counts
    <3>2. CASE j = i
      BY <1>0, <1>1, <2>1, <3>1, <3>2 DEF TypeOK, n
    <3>3. CASE j < i
      BY <1>0, <2>1, <3>1, <3>3 DEF TypeOK, BlockInv, InputHeld
    <3> QED
      BY <1>0, <3>1, <3>2, <3>3
  <2>9. InputHeld(b)'
    BY <1>0, <2>2, <2>5, <2>7, <2>8, Graph DEF InputHeld
  <2>10. SpaceHeld(b)'
    BY <1>0, <2>2, <2>5, Graph DEF SpaceHeld
  <2>11. RequestSound(b)'
    BY <1>0, <2>1, <2>2, <2>5, IntMax DEF RequestSound, BlockInv, sink_p
  <2>12. AlignmentSound(b)'
    BY <1>0, <2>1, <2>5 DEF BlockInv, AlignmentSound, OutputAligned
  <2> QED
    BY <2>1, <2>3, <2>4, <2>6, <2>9, <2>10, <2>11, <2>12, LocalFrame DEF Kept, BlockInv
<1> QED
  BY <1>3, <1>4

LEMMA SnapshotOutputStep ==
    ASSUME IInv, NEW b \in Blocks, SnapshotOutput(b)
    PROVE  Kept(b)
<1> USE DEF Goto, shared
<1> DEFINE c   == Cfg[b]
           m   == c.multiple
           o   == port[b]
           buf == Outs[b][o]
<1>0. /\ TypeOK /\ BlockInv(b) /\ pc[b] = "outputs" /\ o \in OutPorts(b) /\ c \in BlockConfig
      /\ o \in Nat \ {0} /\ Len(Outs[b]) \in Nat /\ o <= Len(Outs[b]) /\ buf \in Bufs
      /\ m \in Nat \ {0} /\ Size[buf] \in Nat \ {0} /\ Size[buf] <= INT_MAX /\ noutput[b] \in Nat
  <2>1. TypeOK /\ BlockInv(b) /\ pc[b] = "outputs" /\ o \in OutPorts(b)
    BY DEF SnapshotOutput, IInv
  <2> QED
    BY <2>1, Graph, ConfigFields, Sizes DEF TypeOK
<1>1. PICK space \in 0 .. Size[buf] - 1 :
          /\ IsSpace(buf, space)
          /\ LET n   == offered(c, space, Size[buf])
                 min == Least(noutput[b], n)
             IN  IF output_blocked(c, n)
                 THEN /\ pc' = [pc EXCEPT ![b] = IF done[buf] THEN "set_done" ELSE "wait_out"]
                      /\ port' = [port EXCEPT ![b] = 1]
                      /\ noutput' = [noutput EXCEPT ![b] = 0]
                      /\ ForgetInputs(b)
                 ELSE /\ noutput' = [noutput EXCEPT ![b] = min]
                      /\ port' = [port EXCEPT ![b] = NextPort(o, Len(Outs[b]))]
                      /\ pc' = [pc EXCEPT ![b] = IF o < Len(Outs[b]) THEN "outputs"
                                                 ELSE IF ~source_p(b) THEN "fit"
                                                 ELSE IF min = 0 THEN "wait_out" ELSE "work"]
                      /\ UNCHANGED <<items, in_done>>
  BY DEF SnapshotOutput
<1>2. /\ UNCHANGED <<off, new_alignment, result, todo, left, empties>>
      /\ UNCHANGED <<input_changed, output_changed, done, interrupted>>
      /\ UNCHANGED <<read, written>>
  BY DEF SnapshotOutput
<1> DEFINE n   == offered(c, space, Size[buf])
           min == Least(noutput[b], n)
<1>3. CASE output_blocked(c, n)
  <2>1. /\ pc' = [pc EXCEPT ![b] = IF done[buf] THEN "set_done" ELSE "wait_out"]
        /\ port' = [port EXCEPT ![b] = 1]
        /\ noutput' = [noutput EXCEPT ![b] = 0]
        /\ ForgetInputs(b)
    BY <1>1, <1>3
  <2> HIDE DEF n, min, c, buf
  <2>2. TypeOK'
    <3>1. items' \in [Ports -> Nat] /\ in_done' \in [Ports -> BOOLEAN]
      BY <1>0, <2>1, Forgotten
    <3>2. port' \in [Blocks -> Nat \ {0}]
      BY <1>0, <2>1 DEF TypeOK
    <3>3. noutput' \in [Blocks -> Nat]
      BY <1>0, <2>1 DEF TypeOK
    <3> QED
      BY <1>0, <1>2, <2>1, <3>1, <3>2, <3>3 DEF TypeOK
  <2>3. Others(b)
    BY <1>0, <1>2, <2>1, Forgotten DEF TypeOK, Others
  <2>4. BlockInv(b)'
    <3>1. pc'[b] \in {"set_done", "wait_out"} /\ port'[b] = 1
      BY <1>0, <2>1 DEF TypeOK
    <3>2. port'[b] \in 1 .. Len(Adjacent(b))
      BY <3>1, AdjacentIs
    <3>3. pc[b] \notin {"consume", "produce", "work", "exit"}
      BY <1>0
    <3> QED
      BY <1>2, <3>1, <3>2, <3>3, RestingInv DEF Resting
  <2> QED
    BY <1>2, <2>2, <2>3, <2>4, LocalFrame DEF Kept
<1>4. CASE ~output_blocked(c, n)
  <2> DEFINE next == NextPort(o, Len(Outs[b]))
  <2>1. /\ noutput' = [noutput EXCEPT ![b] = min]
        /\ port' = [port EXCEPT ![b] = next]
        /\ pc' = [pc EXCEPT ![b] = IF o < Len(Outs[b]) THEN "outputs"
                                   ELSE IF ~source_p(b) THEN "fit"
                                   ELSE IF min = 0 THEN "wait_out" ELSE "work"]
        /\ UNCHANGED <<items, in_done>>
    BY <1>1, <1>4
  <2>2. n \in Nat /\ n <= space /\ n <= Size[buf] /\ n % m = 0
    <3>1. c \in BlockConfig /\ space \in Nat /\ Size[buf] \in Nat
      BY <1>0, <1>1
    <3> QED
      BY <3>1, OfferedIs, Zenon
  <2>3. n > 0
    BY <1>0, <1>4, <2>2, ConfigFields DEF output_blocked, Greatest
  <2>4. /\ next \in 1 .. Len(Outs[b]) /\ (o < Len(Outs[b]) => next = o + 1)
        /\ (o >= Len(Outs[b]) => next = 1 /\ o = Len(Outs[b]))
    <3>1. Len(Outs[b]) \in Nat \ {0} /\ o \in 1 .. Len(Outs[b])
      BY <1>0
    <3> QED
      BY <3>1, NextPortIs
  <2>5. HasSpace(buf, space)
    BY <1>1 DEF IsSpace
  <2> HIDE DEF n, next
  <2>6. noutput[b] > 0 /\ (noutput[b] % m = 0 \/ (o = 1 /\ noutput[b] = INT_MAX))
    BY <1>0 DEF BlockInv, RequestSound
  <2>7. min \in Nat /\ min > 0 /\ min <= n /\ min <= noutput[b] /\ min % m = 0
    BY <1>0, <2>2, <2>3, <2>6, IntMax DEF Least
  <2> HIDE DEF min
  <2>k. PICK k \in Nat : k = min
    BY <2>7
  <2>l. k > 0 /\ k <= n /\ k <= noutput[b] /\ k % m = 0
    BY <2>7, <2>k
  <2>8. \A p \in OutPorts(b) : p <= o => HasSpace(Outs[b][p], k)
    <3> SUFFICES ASSUME NEW p \in OutPorts(b), p <= o
                 PROVE  HasSpace(Outs[b][p], k)
      OBVIOUS
    <3>1. Outs[b][p] \in Bufs /\ p \in Nat
      BY Graph
    <3>2. CASE p = o
      BY <1>0, <2>2, <2>5, <2>l, <3>2, SpaceForFewer
    <3>3. CASE p < o
      <4>1. HasSpace(Outs[b][p], round_up(noutput[b], m))
        BY <1>0, <3>3 DEF BlockInv, SpaceHeld, RoomFor
      <4>2. round_up(noutput[b], m) \in Nat /\ noutput[b] <= round_up(noutput[b], m)
        BY <1>0, RoundUp
      <4> QED
        BY <1>0, <2>l, <3>1, <4>1, <4>2, SpaceForFewer
    <3> QED
      BY <1>0, <3>1, <3>2, <3>3
  <2>9. TypeOK'
    <3>1. next \in Nat \ {0}
      BY <1>0, <2>4
    <3>2. port' \in [Blocks -> Nat \ {0}]
      BY <1>0, <2>1, <3>1 DEF TypeOK
    <3>3. noutput' \in [Blocks -> Nat]
      BY <1>0, <2>1, <2>k DEF TypeOK
    <3> QED
      BY <1>0, <1>2, <2>1, <3>2, <3>3 DEF TypeOK
  <2>10. Others(b)
    BY <1>0, <1>2, <2>1 DEF TypeOK, Others
  <2>11. /\ port'[b] = next /\ noutput'[b] = k
         /\ pc'[b] = IF o < Len(Outs[b]) THEN "outputs"
                     ELSE IF ~source_p(b) THEN "fit" ELSE "work"
    BY <1>0, <2>1, <2>k, <2>l DEF TypeOK
  <2>12. PortInRange(b)'
    BY <1>0, <2>4, <2>11, Graph DEF PortInRange, OutPorts
  <2>13. /\ \A i \in InPorts(b) : Unread(b, i)' = Unread(b, i)
         /\ \A x, y : HasSpace(x, y)' <=> HasSpace(x, y)
         /\ Framed(b) /\ CountsWithinBuffer'
    BY <1>2, <2>10, LocalFrame
  <2>14. SpaceHeld(b)'
    <3>1. round_up(k, m) = k
      BY <1>0, <2>l, RoundMultiple
    <3>2. \A p \in OutPorts(b) : p <= o => HasSpace(Outs[b][p], k)'
      BY <1>0, <2>8, <2>13
    <3>3. \A p \in OutPorts(b) : p \in Nat /\ p <= Len(Outs[b])
      BY Graph
    <3>4. pc'[b] = "outputs" => \A p \in OutPorts(b) : p < next => p <= o
      BY <1>0, <2>4, <2>11, <3>3
    <3>5. pc'[b] # "outputs" => \A p \in OutPorts(b) : p <= o
      BY <1>0, <2>4, <2>11, <3>3
    <3> QED
      BY <2>11, <3>1, <3>2, <3>4, <3>5 DEF SpaceHeld, RoomFor
  <2>15. InputHeld(b)'
    <3>1. source_p(b) => InPorts(b) = {}
      BY DEF source_p, InPorts
    <3> QED
      BY <1>0, <2>1, <2>11, <2>13, <3>1 DEF InputHeld, BlockInv
  <2>16. RequestSound(b)'
    BY <2>l, <2>11 DEF RequestSound
  <2>17. AlignmentSound(b)'
    <3>2. ASSUME Whole(b), NEW p \in OutPorts(b)
          PROVE  OutputAligned(b, p)'
      <4> DEFINE w == written[Outs[b][p]]
      <4>1. w \in Nat /\ off[b] \in Nat /\ new_alignment[b] \in Nat
        BY <1>0, Graph DEF TypeOK
      <4>2. (w + off[b]) % m = 0
        BY <1>0, <3>2 DEF BlockInv, AlignmentSound, OutputAligned
      <4>3. pc'[b] = "work" => (w + k + new_alignment[b]) % m = 0
        <5> SUFFICES ASSUME pc'[b] = "work"
                     PROVE  (w + k + new_alignment[b]) % m = 0
          OBVIOUS
        <5>1. source_p(b)
          BY <2>11
        <5>2. off[b] = 0 /\ new_alignment[b] = 0
          BY <1>0, <5>1 DEF BlockInv, AlignmentSound
        <5> HIDE DEF w, m
        <5>3. w + off[b] = w /\ w + k + new_alignment[b] = w + k
          BY <2>l, <4>1, <5>2
        <5>4. w % m = 0 /\ w \in Int /\ k \in Int /\ k % m = 0
          BY <2>l, <4>1, <4>2, <5>3
        <5>5. (w + k) % m = 0
          BY <1>0, <5>4, SumOfMultiples
        <5> QED
          BY <5>3, <5>5
      <4> QED
        BY <1>2, <2>11, <4>2, <4>3 DEF OutputAligned
    <3> QED
      BY <1>0, <1>2, <2>11, <3>2 DEF BlockInv, AlignmentSound
  <2> QED
    BY <2>9, <2>12, <2>13, <2>14, <2>15, <2>16, <2>17 DEF Kept, BlockInv
<1> QED
  BY <1>3, <1>4

LEMMA MostItemsIs ==
    ASSUME TypeOK, NEW b \in Blocks, NEW n \in {items[<<b, i>>] : i \in InPorts(b)}
    PROVE  n \in Nat
<1>1. PICK i \in InPorts(b) : n = items[<<b, i>>]
  OBVIOUS
<1> QED
  BY <1>1, PortIs DEF TypeOK

LEMMA GuessStep ==
    ASSUME IInv, NEW b \in Blocks, Guess(b)
    PROVE  Kept(b)
<1> DEFINE c == Cfg[b]
<1>0. /\ TypeOK /\ BlockInv(b) /\ pc[b] = "guess" /\ port[b] = 1 /\ c \in BlockConfig
      /\ ~source_p(b) /\ sink_p(b)
  BY Graph DEF IInv, BlockInv, PortInRange, Guess
<1>1. PICK avail \in {items[<<b, i>>] : i \in InPorts(b)} :
          /\ noutput' = [noutput EXCEPT ![b] = sink_guess(c, avail)]
          /\ IF sink_guess(c, avail) = 0
             THEN pc' = [pc EXCEPT ![b] = "wait_in"] /\ ForgetInputs(b)
             ELSE pc' = [pc EXCEPT ![b] = "fit"] /\ UNCHANGED <<items, in_done>>
  BY DEF Guess, Goto
<1>2. /\ UNCHANGED <<port, off, new_alignment, result, todo, left, empties>>
      /\ UNCHANGED <<input_changed, output_changed, done, interrupted>>
      /\ UNCHANGED <<read, written>>
  BY DEF Guess, shared
<1> DEFINE n == sink_guess(c, avail)
<1>3. n \in Nat /\ n % c.multiple = 0
  BY <1>0, MostItemsIs, SinkGuessIs
<1>4. noutput' \in [Blocks -> Nat] /\ noutput'[b] = n
  BY <1>0, <1>1, <1>3 DEF TypeOK
<1>5. CASE n = 0
  <2>1. items' \in [Ports -> Nat] /\ in_done' \in [Ports -> BOOLEAN]
    BY <1>0, <1>1, <1>5, Forgotten
  <2>2. TypeOK'
    BY <1>0, <1>1, <1>2, <1>4, <1>5, <2>1 DEF TypeOK
  <2>3. Others(b)
    BY <1>0, <1>1, <1>2, <1>5, Forgotten DEF TypeOK, Others
  <2>4. BlockInv(b)'
    <3>1. pc'[b] = "wait_in"
      BY <1>0, <1>1, <1>5 DEF TypeOK
    <3> QED
      BY <1>0, <1>2, <3>1, RestingInv DEF Resting
  <2> QED
    BY <1>2, <2>2, <2>3, <2>4, LocalFrame DEF Kept
<1>6. CASE n # 0
  <2>1. pc' = [pc EXCEPT ![b] = "fit"] /\ UNCHANGED <<items, in_done>>
    BY <1>1, <1>6
  <2> HIDE DEF n
  <2>2. TypeOK'
    BY <1>0, <1>2, <1>4, <2>1 DEF TypeOK
  <2>3. Others(b)
    BY <1>0, <1>1, <1>2, <2>1 DEF TypeOK, Others
  <2>4. \A i \in InPorts(b) : Unread(b, i)' = Unread(b, i)
    BY <1>2, <2>3, LocalFrame
  <2>5. pc'[b] = "fit"
    BY <1>0, <2>1 DEF TypeOK
  <2>6. PortInRange(b)'
    BY <1>0, <1>2, <2>5 DEF PortInRange
  <2>7. SpaceHeld(b)'
    BY <1>0, <2>5 DEF SpaceHeld, sink_p, OutPorts
  <2>8. InputHeld(b)'
    BY <1>0, <2>1, <2>4, <2>5 DEF InputHeld, BlockInv
  <2>9. RequestSound(b)'
    BY <1>3, <1>4, <1>6, <2>5 DEF RequestSound
  <2>10. AlignmentSound(b)'
    BY <1>0, <1>2, <2>5 DEF BlockInv, AlignmentSound, OutputAligned
  <2> QED
    BY <1>2, <2>2, <2>3, <2>6, <2>7, <2>8, <2>9, <2>10, LocalFrame DEF Kept, BlockInv
<1> QED
  BY <1>5, <1>6

LEMMA TryAgainStep ==
    ASSUME RoomForOne, IInv, NEW b \in Blocks, TryAgain(b)
    PROVE  Kept(b)
<1> DEFINE c == Cfg[b]
           m == c.multiple
<1>0. /\ TypeOK /\ BlockInv(b) /\ pc[b] = "fit" /\ port[b] = 1 /\ c \in BlockConfig
      /\ ~source_p(b) /\ m \in Nat \ {0} /\ noutput[b] \in Nat /\ noutput[b] > 0
      /\ off[b] \in 0 .. m /\ (c.multiple_set => off[b] = 0 /\ noutput[b] % m = 0)
      /\ c.max_noutput >= m
  <2>1. TypeOK /\ BlockInv(b) /\ pc[b] = "fit" /\ c \in BlockConfig
    BY Graph DEF IInv, TryAgain
  <2>2. m \in Nat \ {0} /\ noutput[b] \in Nat /\ off[b] \in Nat /\ off[b] <= m
    BY <2>1, ConfigFields DEF TypeOK
  <2>3. noutput[b] > 0 /\ (c.multiple_set => off[b] = 0 /\ noutput[b] % m = 0)
    BY <2>1 DEF BlockInv, RequestSound, AlignmentSound
  <2> QED
    BY <2>1, <2>2, <2>3 DEF BlockInv, PortInRange, RoomForOne
<1>1. PICK avail \in {items[<<b, i>>] : i \in InPorts(b)} :
        LET pass  == Pass(c, off[b], avail, noutput[b])
            short == ShortInput(b, pass.n)
        IN  IF \A i \in InPorts(b) : forecast(c, pass.n) <= items[<<b, i>>]
            THEN /\ noutput' = [noutput EXCEPT ![b] = pass.n]
                 /\ new_alignment' = [new_alignment EXCEPT ![b] = pass.off]
                 /\ pc' = [pc EXCEPT ![b] = "work"]
                 /\ ForgetInputs(b)
            ELSE IF pass.n > m
            THEN /\ noutput' = [noutput EXCEPT ![b] = Halve(c, pass.n)]
                 /\ UNCHANGED <<pc, items, in_done, new_alignment>>
            ELSE /\ pc' = [pc EXCEPT ![b] = IF in_done[<<b, short>>]
                               \/ forecast(c, pass.n) > Size[Ins[b][short]] - 1
                            THEN "set_done" ELSE "wait_in"]
                 /\ noutput' = [noutput EXCEPT ![b] = 0]
                 /\ ForgetInputs(b)
                 /\ UNCHANGED new_alignment
  BY DEF TryAgain, Goto
<1>2. /\ UNCHANGED <<port, off, result, todo, left, empties>>
      /\ UNCHANGED <<input_changed, output_changed, done, interrupted>>
      /\ UNCHANGED <<read, written>>
  BY DEF TryAgain, shared
<1> DEFINE pass == Pass(c, off[b], avail, noutput[b])
<1>3. /\ pass.n \in Nat /\ pass.n > 0 /\ pass.n <= round_up(noutput[b], m)
      /\ pass.off \in 0 .. m
      /\ c.multiple_set => pass.off = 0 /\ pass.n % m = 0
      /\ \A w \in Nat : (w + off[b]) % m = 0 => (w + pass.n + pass.off) % m = 0
  <2>1. avail \in Nat
    BY <1>0, MostItemsIs
  <2> QED
    BY <1>0, <2>1, PassKeeps
<1>4. round_up(noutput[b], m) \in Nat /\ round_up(noutput[b], m) % m = 0
  BY <1>0, RoundUp
<1>5. PICK n \in Nat, d \in 0 .. m : n = pass.n /\ d = pass.off
  BY <1>3
<1>6. /\ n > 0 /\ n <= round_up(noutput[b], m)
      /\ c.multiple_set => d = 0 /\ n % m = 0
      /\ \A w \in Nat : (w + off[b]) % m = 0 => (w + n + d) % m = 0
  BY <1>3, <1>5
<1>7. CASE \A i \in InPorts(b) : forecast(c, pass.n) <= items[<<b, i>>]
  <2>1. /\ noutput' = [noutput EXCEPT ![b] = n]
        /\ new_alignment' = [new_alignment EXCEPT ![b] = d]
        /\ pc' = [pc EXCEPT ![b] = "work"]
        /\ ForgetInputs(b)
        /\ \A i \in InPorts(b) : forecast(c, n) <= items[<<b, i>>]
    BY <1>1, <1>5, <1>7
  <2> HIDE DEF pass, c
  <2>2. TypeOK'
    <3>1. items' \in [Ports -> Nat] /\ in_done' \in [Ports -> BOOLEAN]
      BY <1>0, <2>1, Forgotten
    <3>2. noutput' \in [Blocks -> Nat]
      BY <1>0, <2>1 DEF TypeOK
    <3>3. /\ new_alignment' \in [Blocks -> Nat]
          /\ \A x \in Blocks : new_alignment'[x] <= Cfg[x].multiple
      BY <1>0, <2>1 DEF TypeOK, c
    <3> QED
      BY <1>0, <1>2, <2>1, <3>1, <3>2, <3>3 DEF TypeOK
  <2>3. Others(b)
    BY <1>0, <1>2, <2>1, Forgotten DEF TypeOK, Others
  <2>4. /\ \A i \in InPorts(b) : Unread(b, i)' = Unread(b, i)
        /\ \A x, y : HasSpace(x, y)' <=> HasSpace(x, y)
        /\ Framed(b) /\ CountsWithinBuffer'
    BY <1>2, <2>3, LocalFrame
  <2>5. pc'[b] = "work" /\ noutput'[b] = n /\ new_alignment'[b] = d
    BY <1>0, <2>1 DEF TypeOK
  <2>6. PortInRange(b)'
    BY <1>0, <1>2, <2>5 DEF PortInRange
  <2>7. SpaceHeld(b)'
    <3>1. ASSUME NEW o \in OutPorts(b) PROVE HasSpace(Outs[b][o], n)
      <4>1. HasSpace(Outs[b][o], round_up(noutput[b], m)) /\ Outs[b][o] \in Bufs
        BY <1>0, Graph DEF BlockInv, SpaceHeld, RoomFor, c
      <4> QED
        BY <1>0, <1>4, <1>6, <4>1, SpaceForFewer
    <3> QED
      BY <2>4, <2>5, <3>1 DEF SpaceHeld
  <2>8. InputHeld(b)'
    <3>1. ASSUME NEW i \in InPorts(b) PROVE forecast(c, n) <= Unread(b, i)
      <4> DEFINE f == forecast(c, n)
      <4>1. f \in Nat
        BY <1>0, ForecastCovers
      <4>2. items[<<b, i>>] \in Nat /\ Unread(b, i) \in Int /\ items[<<b, i>>] <= Unread(b, i)
        BY <1>0, PortIs, Counts DEF TypeOK, BlockInv, InputHeld
      <4>3. f <= items[<<b, i>>]
        BY <2>1
      <4> HIDE DEF f
      <4>4. f <= Unread(b, i)
        BY <4>1, <4>2, <4>3
      <4> QED
        BY <4>4 DEF f
    <3> QED
      BY <2>4, <2>5, <3>1 DEF InputHeld, c
  <2>9. RequestSound(b)'
    BY <1>6, <2>5 DEF RequestSound, c
  <2>10. AlignmentSound(b)'
    <3>1. ASSUME Whole(b), NEW o \in OutPorts(b)
          PROVE  OutputAligned(b, o)'
      <4>1. written[Outs[b][o]] \in Nat
        BY <1>0, Graph DEF TypeOK
      <4>2. (written[Outs[b][o]] + off[b]) % m = 0
        BY <1>0, <3>1 DEF BlockInv, AlignmentSound, OutputAligned, c
      <4>3. (written[Outs[b][o]] + n + d) % m = 0
        BY <1>6, <4>1, <4>2
      <4> QED
        BY <1>2, <2>5, <4>2, <4>3 DEF OutputAligned, c
    <3>2. Whole(b) => left[b] = -1 /\ empties[b] = 0
      BY <1>0 DEF BlockInv, AlignmentSound
    <3> QED
      BY <1>0, <1>2, <1>6, <2>5, <3>1, <3>2 DEF AlignmentSound, c
  <2> QED
    BY <2>2, <2>4, <2>6, <2>7, <2>8, <2>9, <2>10 DEF Kept, BlockInv
<1>8. CASE ~(\A i \in InPorts(b) : forecast(c, pass.n) <= items[<<b, i>>]) /\ pass.n > m
  <2> DEFINE h == Halve(c, n)
  <2>1. noutput' = [noutput EXCEPT ![b] = h] /\ UNCHANGED <<pc, items, in_done, new_alignment>>
    BY <1>1, <1>5, <1>8
  <2>2. h \in Nat /\ h > 0 /\ h % m = 0 /\ round_up(h, m) <= round_up(n, m)
    BY <1>0, <1>5, <1>8, HalveKeeps
  <2> HIDE DEF pass, h, c
  <2>3. PICK k \in Nat : k = h
    BY <2>2
  <2>4. k > 0 /\ k % m = 0 /\ round_up(k, m) <= round_up(n, m)
    BY <2>2, <2>3
  <2>5. round_up(k, m) \in Nat /\ round_up(k, m) <= round_up(noutput[b], m)
    <3>1. round_up(n, m) <= round_up(round_up(noutput[b], m), m)
      BY <1>0, <1>4, <1>6, RoundUpMonotone
    <3>2. round_up(round_up(noutput[b], m), m) = round_up(noutput[b], m)
      BY <1>0, <1>4, RoundMultiple
    <3>3. round_up(n, m) \in Nat /\ round_up(k, m) \in Nat
      BY <1>0, RoundUp
    <3> QED
      BY <1>4, <2>4, <3>1, <3>2, <3>3
  <2>6. TypeOK'
    <3>1. noutput' \in [Blocks -> Nat]
      BY <1>0, <2>1, <2>2 DEF TypeOK
    <3> QED
      BY <1>0, <1>2, <2>1, <3>1 DEF TypeOK
  <2>7. Others(b)
    BY <1>0, <1>2, <2>1 DEF TypeOK, Others
  <2>8. /\ \A i \in InPorts(b) : Unread(b, i)' = Unread(b, i)
        /\ \A x, y : HasSpace(x, y)' <=> HasSpace(x, y)
        /\ Framed(b) /\ CountsWithinBuffer'
    BY <1>2, <2>7, LocalFrame
  <2>9. pc'[b] = "fit" /\ noutput'[b] = k
    BY <1>0, <2>1, <2>3 DEF TypeOK
  <2>10. PortInRange(b)'
    BY <1>0, <1>2, <2>9 DEF PortInRange
  <2>11. SpaceHeld(b)'
    <3>1. ASSUME NEW o \in OutPorts(b) PROVE HasSpace(Outs[b][o], round_up(k, m))
      <4>1. HasSpace(Outs[b][o], round_up(noutput[b], m)) /\ Outs[b][o] \in Bufs
        BY <1>0, Graph DEF BlockInv, SpaceHeld, RoomFor, c
      <4> QED
        BY <1>0, <1>4, <2>5, <4>1, SpaceForFewer
    <3>2. \A o \in OutPorts(b) : HasSpace(Outs[b][o], round_up(k, m))'
      BY <2>8, <3>1
    <3> QED
      BY <2>9, <3>2 DEF SpaceHeld, RoomFor, c
  <2>12. InputHeld(b)'
    BY <1>0, <2>1, <2>8, <2>9 DEF InputHeld, BlockInv
  <2>13. RequestSound(b)'
    BY <2>4, <2>9 DEF RequestSound, c
  <2>14. AlignmentSound(b)'
    BY <1>0, <1>2, <2>1, <2>9 DEF BlockInv, AlignmentSound, OutputAligned
  <2> QED
    BY <2>6, <2>8, <2>10, <2>11, <2>12, <2>13, <2>14 DEF Kept, BlockInv
<1>9. CASE ~(\A i \in InPorts(b) : forecast(c, pass.n) <= items[<<b, i>>]) /\ ~(pass.n > m)
  <2>1. /\ \/ pc' = [pc EXCEPT ![b] = "set_done"]
           \/ pc' = [pc EXCEPT ![b] = "wait_in"]
        /\ noutput' = [noutput EXCEPT ![b] = 0]
        /\ ForgetInputs(b)
        /\ UNCHANGED new_alignment
    BY <1>1, <1>9
  <2> HIDE DEF pass, c
  <2>2. TypeOK'
    <3>1. items' \in [Ports -> Nat] /\ in_done' \in [Ports -> BOOLEAN]
      BY <1>0, <2>1, Forgotten
    <3>2. noutput' \in [Blocks -> Nat]
      BY <1>0, <2>1 DEF TypeOK
    <3> QED
      BY <1>0, <1>2, <2>1, <3>1, <3>2 DEF TypeOK
  <2>3. Others(b)
    BY <1>0, <1>2, <2>1, Forgotten DEF TypeOK, Others
  <2>4. BlockInv(b)'
    <3>1. pc'[b] \in {"set_done", "wait_in"} /\ port'[b] = 1
      BY <1>0, <1>2, <2>1 DEF TypeOK
    <3>2. port'[b] \in 1 .. Len(Adjacent(b))
      BY <3>1, AdjacentIs
    <3> QED
      BY <1>0, <1>2, <2>1, <3>1, <3>2, RestingInv DEF Resting
  <2> QED
    BY <1>2, <2>2, <2>3, <2>4, LocalFrame DEF Kept
<1> QED
  BY <1>7, <1>8, <1>9

LEMMA WorkStep ==
    ASSUME IInv, NEW b \in Blocks, Work(b)
    PROVE  Kept(b)
<1> DEFINE c == Cfg[b]
           n == noutput[b]
<1>0. /\ TypeOK /\ BlockInv(b) /\ pc[b] = "work" /\ port[b] = 1 /\ c \in BlockConfig
      /\ n \in Nat /\ n > 0 /\ left[b] \in Nat \cup {-1} /\ empties[b] \in 0 .. MaxEmpty
      /\ MaxEmpty \in Nat
  BY Graph, BlocksAssumption DEF IInv, TypeOK, BlockInv, PortInRange, RequestSound, Work
<1>1. PICK r \in WorkResults(b, n) :
          /\ result' = [result EXCEPT ![b] = r]
          /\ left' = [left EXCEPT ![b] = IF @ > 0 /\ r > 0 THEN @ - r ELSE @]
          /\ empties' = [empties EXCEPT ![b] = IF r = 0 THEN @ - 1 ELSE @]
          /\ pc' = [pc EXCEPT ![b] = IF r = WORK_DONE THEN "set_done"
                                     ELSE IF r > 0 /\ ~source_p(b) THEN "consume"
                                     ELSE IF r > 0 THEN "produce"
                                     ELSE IF source_p(b) THEN "wait_in" ELSE "notify"]
          /\ todo' = [todo EXCEPT ![b] = IF r = 0 /\ ~source_p(b) THEN Upstream[b] ELSE @]
  BY DEF Work, Goto
<1>2. /\ off' = [off EXCEPT ![b] = new_alignment[b]]
      /\ new_alignment' = [new_alignment EXCEPT ![b] = 0]
      /\ noutput' = [noutput EXCEPT ![b] = 0]
      /\ UNCHANGED <<port, items, in_done>>
      /\ UNCHANGED <<input_changed, output_changed, done, interrupted>>
      /\ UNCHANGED <<read, written>>
  BY DEF Work, shared
<1>3. /\ r \in -1 .. n
      /\ r = -1 => left[b] = 0
      /\ left[b] > 0 => r <= left[b]
      /\ r = 0 => empties[b] > 0
      /\ b \notin Partial /\ left[b] = -1 /\ empties[b] = 0 => r = n
  BY <1>0 DEF WorkResults, Least, WORK_DONE
<1>4. r \in Int /\ (r # -1 => r \in Nat) /\ r <= n
  BY <1>0, <1>3
<1>5. TypeOK'
  <2>1. left' \in [Blocks -> Nat \cup {-1}]
    BY <1>0, <1>1, <1>3, <1>4 DEF TypeOK
  <2>2. empties' \in [Blocks -> 0 .. MaxEmpty]
    BY <1>0, <1>1, <1>3 DEF TypeOK
  <2>3. todo' \in [Blocks -> SUBSET ({"input", "output"} \X (Nat \ {0}) \X Blocks)]
    BY <1>0, <1>1, NeighborsType DEF TypeOK, Notification
  <2>4. result' \in [Blocks -> Nat \cup {WORK_DONE}]
    BY <1>0, <1>1, <1>4 DEF TypeOK, WORK_DONE
  <2>5. off' \in [Blocks -> Nat] /\ \A x \in Blocks : off'[x] <= Cfg[x].multiple
    BY <1>0, <1>2 DEF TypeOK
  <2>6. /\ new_alignment' \in [Blocks -> Nat]
        /\ \A x \in Blocks : new_alignment'[x] <= Cfg[x].multiple
    BY <1>0, <1>2, Graph, ConfigFields DEF TypeOK
  <2>7. noutput' \in [Blocks -> Nat]
    BY <1>0, <1>2 DEF TypeOK
  <2>8. pc'[b] \in {"set_done", "consume", "produce", "wait_in", "notify"}
    BY <1>0, <1>1 DEF TypeOK
  <2> QED
    BY <1>0, <1>1, <1>2, <2>1, <2>2, <2>3, <2>4, <2>5, <2>6, <2>7, <2>8 DEF TypeOK
<1>6. Others(b)
  BY <1>0, <1>1, <1>2 DEF TypeOK, Others
<1>7. /\ \A i \in InPorts(b) : Unread(b, i)' = Unread(b, i)
      /\ \A x, y : HasSpace(x, y)' <=> HasSpace(x, y)
      /\ Framed(b) /\ CountsWithinBuffer'
  BY <1>2, <1>6, LocalFrame
<1>8. /\ result'[b] = r /\ off'[b] = new_alignment[b] /\ new_alignment'[b] = 0 /\ port'[b] = 1
      /\ pc'[b] = IF r = WORK_DONE THEN "set_done"
                  ELSE IF r > 0 /\ ~source_p(b) THEN "consume"
                  ELSE IF r > 0 THEN "produce"
                  ELSE IF source_p(b) THEN "wait_in" ELSE "notify"
      /\ left'[b] = (IF left[b] > 0 /\ r > 0 THEN left[b] - r ELSE left[b])
      /\ empties'[b] = (IF r = 0 THEN empties[b] - 1 ELSE empties[b])
  BY <1>0, <1>1, <1>2 DEF TypeOK
<1>9. PortInRange(b)'
  BY <1>8, Graph, AdjacentIs DEF PortInRange, InPorts, OutPorts, source_p
<1>10. SpaceHeld(b)'
  <2>1. ASSUME r # -1, NEW o \in OutPorts(b) PROVE HasSpace(Outs[b][o], r)
    <3>1. HasSpace(Outs[b][o], n) /\ Outs[b][o] \in Bufs
      BY <1>0, Graph DEF BlockInv, SpaceHeld
    <3> QED
      BY <1>0, <1>4, <2>1, <3>1, SpaceForFewer
  <2>2. r # -1 => \A o \in OutPorts(b) : HasSpace(Outs[b][o], r)'
    BY <1>7, <2>1
  <2> QED
    BY <1>8, <2>2 DEF SpaceHeld, WORK_DONE
<1>11. InputHeld(b)'
  <2>1. ASSUME r # -1, NEW i \in InPorts(b) PROVE forecast(c, r) <= Unread(b, i)
    <3> DEFINE f == forecast(c, n)
               g == forecast(c, r)
    <3>0. r \in Nat
      BY <1>4, <2>1
    <3>1. f \in Nat /\ g \in Nat /\ g <= f
      BY <1>0, <1>4, <3>0, ForecastCovers
    <3>2. f <= Unread(b, i) /\ Unread(b, i) \in Int
      BY <1>0, Counts DEF BlockInv, InputHeld
    <3> HIDE DEF f, g
    <3>3. g <= Unread(b, i)
      BY <3>1, <3>2
    <3> QED
      BY <3>3 DEF g
  <2>2. r # -1 => \A i \in InPorts(b) : forecast(c, r) <= Unread(b, i)'
    BY <1>7, <2>1
  <2> QED
    BY <1>8, <2>2 DEF InputHeld, WORK_DONE
<1>12. RequestSound(b)'
  BY <1>8 DEF RequestSound
<1>13. AlignmentSound(b)'
  <2>1. ASSUME Whole(b)
        PROVE  /\ left'[b] = -1 /\ empties'[b] = 0
               /\ \A o \in OutPorts(b) : OutputAligned(b, o)'
    <3>1. left[b] = -1 /\ empties[b] = 0 /\ r = n
      BY <1>0, <1>3, <2>1 DEF BlockInv, AlignmentSound, Whole
    <3>2. pc'[b] \in {"consume", "produce"}
      BY <1>0, <1>8, <3>1 DEF WORK_DONE
    <3>3. ASSUME NEW o \in OutPorts(b) PROVE OutputAligned(b, o)'
      <4>1. (written[Outs[b][o]] + n + new_alignment[b]) % c.multiple = 0
        BY <1>0, <2>1 DEF BlockInv, AlignmentSound, OutputAligned
      <4>2. o \in Nat \ {0}
        BY Graph
      <4> QED
        BY <1>2, <1>8, <3>1, <3>2, <4>1, <4>2 DEF OutputAligned
    <3> QED
      BY <1>0, <1>8, <3>1, <3>3
  <2>2. c.multiple_set \/ source_p(b) => off'[b] = 0 /\ new_alignment'[b] = 0
    BY <1>0, <1>8 DEF BlockInv, AlignmentSound
  <2> QED
    BY <1>8, <2>1, <2>2 DEF AlignmentSound
<1> QED
  BY <1>5, <1>7, <1>9, <1>10, <1>11, <1>12, <1>13 DEF Kept, BlockInv

LEMMA SetDoneStep ==
    ASSUME IInv, NEW b \in Blocks, SetDone(b)
    PROVE  Kept(b)
<1> DEFINE p == port[b]
           len == Len(Adjacent(b))
<1>0. /\ TypeOK /\ BlockInv(b) /\ pc[b] = "set_done" /\ p \in 1 .. len /\ len \in Nat
      /\ Adjacent(b)[p] \in Bufs
  BY AdjacentIs DEF IInv, BlockInv, PortInRange, SetDone
<1>1. /\ done' = [done EXCEPT ![Adjacent(b)[p]] = TRUE]
      /\ IF p < len
         THEN port' = [port EXCEPT ![b] = p + 1] /\ UNCHANGED <<pc, todo>>
         ELSE /\ port' = [port EXCEPT ![b] = 1]
              /\ todo' = [todo EXCEPT ![b] = Neighbors[b]]
              /\ pc' = [pc EXCEPT ![b] = "notify_done"]
      /\ UNCHANGED <<items, in_done, noutput, off, new_alignment, result, left, empties>>
      /\ UNCHANGED <<input_changed, output_changed, interrupted>>
      /\ UNCHANGED <<read, written>>
  BY DEF SetDone, Goto
<1> HIDE DEF len
<1>2. TypeOK'
  <2>1. port' \in [Blocks -> Nat \ {0}]
    BY <1>0, <1>1 DEF TypeOK
  <2>2. todo' \in [Blocks -> SUBSET ({"input", "output"} \X (Nat \ {0}) \X Blocks)]
    BY <1>0, <1>1, NeighborsType DEF TypeOK, Notification
  <2>3. done' \in [Bufs -> BOOLEAN]
    BY <1>0, <1>1 DEF TypeOK
  <2> QED
    BY <1>0, <1>1, <2>1, <2>2, <2>3 DEF TypeOK
<1>3. Others(b)
  BY <1>0, <1>1 DEF TypeOK, Others
<1>4. BlockInv(b)'
  <2>1. /\ pc'[b] = IF p < len THEN "set_done" ELSE "notify_done"
        /\ port'[b] = IF p < len THEN p + 1 ELSE 1
    BY <1>0, <1>1 DEF TypeOK
  <2>2. pc'[b] = "set_done" => port'[b] \in 1 .. len
    BY <1>0, <2>1
  <2> QED
    BY <1>0, <1>1, <2>1, <2>2, RestingInv DEF Resting, len
<1> QED
  BY <1>1, <1>2, <1>3, <1>4, LocalFrame DEF Kept

LEMMA ConsumeStep ==
    ASSUME IInv, NEW b \in Blocks, Consume(b)
    PROVE  Kept(b)
<1>i. PICK i \in InPorts(b) : i = port[b]
  BY DEF Consume
<1> DEFINE c    == Cfg[b]
           len  == Len(Ins[b])
           next == NextPort(i, len)
           x    == (result[b] * c.decim) \div c.interp
<1>0. /\ TypeOK /\ BlockInv(b) /\ pc[b] = "consume" /\ i \in InPorts(b) /\ c \in BlockConfig
      /\ i \in 1 .. len /\ len \in Nat \ {0} /\ result[b] \in Nat /\ result[b] > 0
      /\ <<b, i>> \in Ports
  <2>1. TypeOK /\ BlockInv(b) /\ pc[b] = "consume" /\ c \in BlockConfig
    BY Graph DEF IInv, Consume
  <2>2. i \in 1 .. len /\ len \in Nat /\ i \in Nat \ {0} /\ i <= len
    BY <2>1, Graph DEF InPorts
  <2>3. result[b] \in Nat \cup {-1} /\ result[b] > 0
    BY <2>1 DEF TypeOK, WORK_DONE, BlockInv, RequestSound
  <2>4. <<b, i>> \in Ports
    BY PortIs
  <2> QED
    BY <2>1, <2>2, <2>3, <2>4
<1>1. /\ read' = [read EXCEPT ![<<b, i>>] = @ + x]
      /\ port' = [port EXCEPT ![b] = next]
      /\ IF i < len THEN UNCHANGED <<pc, todo>>
         ELSE IF sink_p(b) THEN /\ pc' = [pc EXCEPT ![b] = "notify"]
                                /\ todo' = [todo EXCEPT ![b] = Neighbors[b]]
         ELSE pc' = [pc EXCEPT ![b] = "produce"] /\ UNCHANGED todo
      /\ UNCHANGED <<items, in_done, noutput, off, new_alignment, result, left, empties>>
      /\ UNCHANGED <<input_changed, output_changed, written, done, interrupted>>
  BY <1>i DEF Consume, Goto, Ready
<1>2. next \in 1 .. len /\ (i < len => next = i + 1) /\ (i >= len => next = 1 /\ i = len)
  BY <1>0, NextPortIs
<1>3. x \in Nat /\ x + c.history - 1 <= forecast(c, result[b]) /\ c.history \in Nat \ {0}
      /\ forecast(c, result[b]) \in Nat
  <2> DEFINE r == result[b]
  <2>1. r \in Nat /\ r <= r
    BY <1>0
  <2> HIDE DEF r
  <2>2. /\ (r * c.decim) \div c.interp \in Nat /\ forecast(c, r) \in Nat
        /\ (r * c.decim) \div c.interp + c.history - 1 <= forecast(c, r)
    BY <1>0, <2>1, ForecastCovers
  <2>3. c.history \in Nat \ {0}
    BY <1>0, ConfigFields
  <2> QED
    BY <2>2, <2>3 DEF r
<1>4. forecast(c, result[b]) <= Unread(b, i) /\ Unread(b, i) \in Int
  BY <1>0, <1>i, Counts DEF BlockInv, InputHeld
<1> DEFINE f == forecast(c, result[b])
<1> HIDE DEF x, next, len, f
<1>5. TypeOK'
  <2>1. port' \in [Blocks -> Nat \ {0}]
    <3>1. next \in Nat \ {0}
      BY <1>0, <1>2
    <3> QED
      BY <1>0, <1>1, <3>1 DEF TypeOK
  <2>2. read' \in [Ports -> Nat]
    BY <1>0, <1>1, <1>3 DEF TypeOK
  <2>3. todo' \in [Blocks -> SUBSET ({"input", "output"} \X (Nat \ {0}) \X Blocks)]
    BY <1>0, <1>1, NeighborsType DEF TypeOK, Notification
  <2> QED
    BY <1>0, <1>1, <2>1, <2>2, <2>3, SMTT(20) DEF TypeOK
<1>6. Others(b)
  BY <1>0, <1>1 DEF TypeOK, Others
<1>7. Unread(b, i)' = Unread(b, i) - x
  <2>1. written[Ins[b][i]] \in Nat /\ read[<<b, i>>] \in Nat
    BY <1>0, Counts
  <2>2. read'[<<b, i>>] = read[<<b, i>>] + x
    BY <1>0, <1>1 DEF TypeOK
  <2> DEFINE w == written[Ins[b][i]]
             h == c.history
             u == read[<<b, i>>]
  <2>3. Unread(b, i) = w + h - 1 - u /\ Unread(b, i)' = w + h - 1 - (u + x)
    BY <1>1, <2>2 DEF Unread
  <2>4. w \in Nat /\ h \in Nat /\ u \in Nat
    BY <1>3, <2>1
  <2> HIDE DEF w, h, u
  <2> QED
    BY <1>3, <2>3, <2>4
<1>8. \A d \in Blocks : \A j \in InPorts(d) :
          ~(d = b /\ j = i) => Unread(d, j)' = Unread(d, j)
  <2> SUFFICES ASSUME NEW d \in Blocks, NEW j \in InPorts(d), ~(d = b /\ j = i)
               PROVE  Unread(d, j)' = Unread(d, j)
    OBVIOUS
  <2>1. read'[<<d, j>>] = read[<<d, j>>]
    BY <1>0, <1>1, PortIs DEF TypeOK
  <2> QED
    BY <1>1, <2>1 DEF Unread
<1>9. \A d \in Blocks : \A j \in InPorts(d) :
          Unread(d, j) \in Int /\ Unread(d, j)' \in Int /\ Unread(d, j)' <= Unread(d, j)
  <2> SUFFICES ASSUME NEW d \in Blocks, NEW j \in InPorts(d)
               PROVE  Unread(d, j) \in Int /\ Unread(d, j)' \in Int
                      /\ Unread(d, j)' <= Unread(d, j)
    OBVIOUS
  <2>1. Unread(d, j) \in Int
    BY <1>0, Counts
  <2>2. CASE d = b /\ j = i
    BY <1>3, <1>4, <1>7, <2>1, <2>2
  <2>3. CASE ~(d = b /\ j = i)
    <3>1. Unread(d, j)' = Unread(d, j)
      BY <1>8, <2>3
    <3> QED
      BY <2>1, <3>1
  <2> QED
    BY <2>2, <2>3
<1>10. CountsWithinBuffer'
  <2> SUFFICES ASSUME NEW d \in Blocks, NEW j \in InPorts(d)
               PROVE  Unread(d, j)' \in 0 .. Size[Ins[d][j]] - 1
    BY DEF CountsWithinBuffer
  <2>1. Unread(d, j) \in 0 .. Size[Ins[d][j]] - 1 /\ Size[Ins[d][j]] \in Nat
    BY Graph, Sizes DEF IInv, CountsWithinBuffer
  <2>2. CASE d = b /\ j = i
    <3>1. Unread(b, i) - x >= 0
      BY <1>3, <1>4 DEF f
    <3> QED
      BY <1>3, <1>7, <2>1, <2>2, <3>1
  <2>3. CASE ~(d = b /\ j = i)
    BY <1>8, <2>1, <2>3
  <2> QED
    BY <2>2, <2>3
<1>11. \A buf \in Bufs : \A n : HasSpace(buf, n) => HasSpace(buf, n)'
  <2> SUFFICES ASSUME NEW buf \in Bufs, NEW n, HasSpace(buf, n)
               PROVE  HasSpace(buf, n)'
    OBVIOUS
  <2>1. n \in 0 .. Size[buf] - 1 /\ Size[buf] \in Nat
    BY Sizes DEF HasSpace
  <2>2. ASSUME NEW rd \in Readers[buf]
        PROVE  n <= Size[buf] - 1 - Unread(rd[1], rd[2])'
    <3>1. rd[1] \in Blocks /\ rd[2] \in InPorts(rd[1])
      BY ReaderIs, PortIs
    <3>2. n <= Size[buf] - 1 - Unread(rd[1], rd[2])
      BY DEF HasSpace
    <3>3. /\ Unread(rd[1], rd[2]) \in Int /\ Unread(rd[1], rd[2])' \in Int
          /\ Unread(rd[1], rd[2])' <= Unread(rd[1], rd[2])
      BY <1>9, <3>1
    <3> QED
      BY <2>1, <3>2, <3>3
  <2> QED
    BY <2>1, <2>2 DEF HasSpace
<1>12. Framed(b)
  <2>1. \A d \in Blocks \ {b} : \A j \in InPorts(d) : Unread(d, j)' >= Unread(d, j)
    BY <1>8, <1>9
  <2>2. \A d \in Blocks \ {b} : \A o \in OutPorts(d) : Outs[d][o] \in Bufs
    BY Graph
  <2> QED
    BY <1>1, <1>6, <1>11, <2>1, <2>2 DEF Framed, Others
<1>13. /\ port'[b] = next
       /\ pc'[b] = IF i < len THEN "consume" ELSE IF sink_p(b) THEN "notify" ELSE "produce"
  BY <1>0, <1>1, <1>i DEF TypeOK
<1>14. PortInRange(b)'
  BY <1>0, <1>2, <1>13, Graph DEF PortInRange, InPorts, OutPorts, sink_p, len
<1>15. SpaceHeld(b)'
  <2>1. \A o \in OutPorts(b) : HasSpace(Outs[b][o], result[b])
    BY <1>0 DEF BlockInv, SpaceHeld
  <2>2. PICK r : r = result[b]
    OBVIOUS
  <2>3. \A o \in OutPorts(b) : HasSpace(Outs[b][o], r)'
    BY <1>11, <2>1, <2>2, Graph
  <2> QED
    BY <1>1, <1>13, <2>2, <2>3 DEF SpaceHeld
<1>16. InputHeld(b)'
  <2>1. ASSUME i < len, NEW j \in InPorts(b), j >= next
        PROVE  f <= Unread(b, j)'
    <3>0. j \in Nat
      BY Graph
    <3>1. j > i
      BY <1>0, <1>2, <2>1, <3>0
    <3>2. f <= Unread(b, j)
      BY <1>0, <1>i, <3>0, <3>1 DEF BlockInv, InputHeld, f
    <3> QED
      BY <1>0, <1>8, <3>0, <3>1, <3>2
  <2> QED
    BY <1>1, <1>13, <2>1 DEF InputHeld, f
<1>17. RequestSound(b)'
  BY <1>0, <1>1, <1>13 DEF RequestSound
<1>18. AlignmentSound(b)'
  <2>1. ASSUME Whole(b), NEW o \in OutPorts(b)
        PROVE  OutputAligned(b, o)'
    <3>1. (written[Outs[b][o]] + result[b] + off[b]) % c.multiple = 0
      BY <1>0, <2>1 DEF BlockInv, AlignmentSound, OutputAligned
    <3>2. ~sink_p(b) /\ o \in Nat \ {0}
      BY Graph DEF sink_p, OutPorts
    <3> QED
      BY <1>0, <1>1, <1>2, <1>13, <3>1, <3>2 DEF OutputAligned
  <2> QED
    BY <1>0, <1>1, <1>13, <2>1 DEF BlockInv, AlignmentSound
<1> QED
  BY <1>5, <1>10, <1>12, <1>14, <1>15, <1>16, <1>17, <1>18 DEF Kept, BlockInv

LEMMA ProduceStep ==
    ASSUME IInv, NEW b \in Blocks, Produce(b)
    PROVE  Kept(b)
<1> DEFINE c    == Cfg[b]
           o    == port[b]
           buf  == Outs[b][o]
           len  == Len(Outs[b])
           next == NextPort(o, len)
           r    == result[b]
<1>0. /\ TypeOK /\ BlockInv(b) /\ pc[b] = "produce" /\ o \in OutPorts(b) /\ c \in BlockConfig
      /\ o \in 1 .. len /\ len \in Nat \ {0} /\ r \in Nat /\ r > 0 /\ buf \in Bufs
  <2>1. TypeOK /\ BlockInv(b) /\ pc[b] = "produce" /\ o \in OutPorts(b) /\ c \in BlockConfig
    BY Graph DEF IInv, Produce, BlockInv, PortInRange
  <2>2. o \in 1 .. len /\ len \in Nat /\ o \in Nat \ {0} /\ o <= len /\ buf \in Bufs
    BY <2>1, Graph DEF OutPorts
  <2> QED
    BY <2>1, <2>2, SMTT(20) DEF TypeOK, WORK_DONE, BlockInv, RequestSound
<1>1. /\ written' = [written EXCEPT ![buf] = @ + r]
      /\ port' = [port EXCEPT ![b] = next]
      /\ IF o < len THEN UNCHANGED <<pc, todo>>
         ELSE /\ pc' = [pc EXCEPT ![b] = "notify"]
              /\ todo' = [todo EXCEPT ![b] = Neighbors[b]]
      /\ UNCHANGED <<items, in_done, noutput, off, new_alignment, result, left, empties>>
      /\ UNCHANGED <<input_changed, output_changed, read, done, interrupted>>
  BY DEF Produce, Goto, Ready
<1>2. next \in 1 .. len /\ (o < len => next = o + 1) /\ (o >= len => next = 1 /\ o = len)
  BY <1>0, NextPortIs
<1>3. HasSpace(buf, r)
  BY <1>0 DEF BlockInv, SpaceHeld
<1> HIDE DEF next, len
<1>4. PICK k \in Nat : k = r
  BY <1>0
<1>5. TypeOK'
  <2>1. port' \in [Blocks -> Nat \ {0}]
    <3>1. next \in Nat \ {0}
      BY <1>0, <1>2
    <3> QED
      BY <1>0, <1>1, <3>1 DEF TypeOK
  <2>2. written' \in [Bufs -> Nat]
    BY <1>0, <1>1 DEF TypeOK
  <2>3. todo' \in [Blocks -> SUBSET ({"input", "output"} \X (Nat \ {0}) \X Blocks)]
    BY <1>0, <1>1, NeighborsType DEF TypeOK, Notification
  <2> QED
    BY <1>0, <1>1, <2>1, <2>2, <2>3 DEF TypeOK
<1>6. Others(b)
  BY <1>0, <1>1 DEF TypeOK, Others
<1>7. \A d \in Blocks : \A j \in InPorts(d) :
          Unread(d, j)' = IF Ins[d][j] = buf THEN Unread(d, j) + k ELSE Unread(d, j)
  <2> SUFFICES ASSUME NEW d \in Blocks, NEW j \in InPorts(d)
               PROVE  Unread(d, j)' = IF Ins[d][j] = buf THEN Unread(d, j) + k ELSE Unread(d, j)
    OBVIOUS
  <2>1. Ins[d][j] \in Bufs /\ Cfg[d].history \in Nat
    BY Graph, ConfigFields
  <2>2. written[Ins[d][j]] \in Nat /\ read[<<d, j>>] \in Nat
    BY <1>0, Counts
  <2>3. written'[Ins[d][j]] = IF Ins[d][j] = buf THEN written[Ins[d][j]] + k
                              ELSE written[Ins[d][j]]
    BY <1>0, <1>1, <1>4, <2>1 DEF TypeOK
  <2> QED
    BY <1>1, <2>1, <2>2, <2>3 DEF Unread
<1>8. \A d \in Blocks : \A j \in InPorts(d) :
          Unread(d, j) \in Int /\ Unread(d, j)' >= Unread(d, j)
  <2> SUFFICES ASSUME NEW d \in Blocks, NEW j \in InPorts(d)
               PROVE  Unread(d, j) \in Int /\ Unread(d, j)' >= Unread(d, j)
    OBVIOUS
  <2>1. Unread(d, j) \in Int
    BY <1>0, Counts
  <2>2. Unread(d, j)' = IF Ins[d][j] = buf THEN Unread(d, j) + k ELSE Unread(d, j)
    BY <1>7
  <2> QED
    BY <2>1, <2>2
<1>9. CountsWithinBuffer'
  <2> SUFFICES ASSUME NEW d \in Blocks, NEW j \in InPorts(d)
               PROVE  Unread(d, j)' \in 0 .. Size[Ins[d][j]] - 1
    BY DEF CountsWithinBuffer
  <2>1. Unread(d, j) \in 0 .. Size[Ins[d][j]] - 1 /\ Size[Ins[d][j]] \in Nat
    BY Graph, Sizes DEF IInv, CountsWithinBuffer
  <2>2. CASE Ins[d][j] = buf
    <3>1. <<d, j>> \in Readers[buf]
      BY <1>0, <2>2, ReaderIs, PortIs
    <3>2. k <= Size[buf] - 1 - Unread(d, j)
      BY <1>3, <1>4, <3>1 DEF HasSpace
    <3>3. Unread(d, j)' = Unread(d, j) + k
      BY <1>7, <2>2
    <3> QED
      BY <2>1, <2>2, <3>2, <3>3
  <2>3. CASE Ins[d][j] # buf
    BY <1>7, <2>1, <2>3
  <2> QED
    BY <2>2, <2>3
<1>10. \A x \in Bufs : x # buf => written'[x] = written[x]
  BY <1>0, <1>1 DEF TypeOK
<1>11. \A x \in Bufs : x # buf => \A n : HasSpace(x, n) => HasSpace(x, n)'
  <2> SUFFICES ASSUME NEW x \in Bufs, x # buf, NEW n, HasSpace(x, n)
               PROVE  HasSpace(x, n)'
    OBVIOUS
  <2>1. ASSUME NEW rd \in Readers[x]
        PROVE  Unread(rd[1], rd[2])' = Unread(rd[1], rd[2])
    <3>1. rd[1] \in Blocks /\ rd[2] \in InPorts(rd[1]) /\ Ins[rd[1]][rd[2]] = x
      BY ReaderIs, PortIs
    <3> QED
      BY <1>7, <3>1
  <2> QED
    BY <2>1 DEF HasSpace
<1>12. \A d \in Blocks : \A p \in OutPorts(d) :
           Outs[d][p] \in Bufs /\ (Outs[d][p] = buf => d = b /\ p = o)
  BY <1>0, Graph, GraphAssumption
<1>13. Framed(b)
  BY <1>6, <1>8, <1>10, <1>11, <1>12 DEF Framed, Others
<1>14. /\ port'[b] = next
       /\ pc'[b] = IF o < len THEN "produce" ELSE "notify"
  BY <1>0, <1>1 DEF TypeOK
<1>15. PortInRange(b)'
  BY <1>0, <1>2, <1>14 DEF PortInRange, OutPorts, len
<1>16. SpaceHeld(b)'
  <2>1. ASSUME o < len, NEW p \in OutPorts(b), p >= next
        PROVE  HasSpace(Outs[b][p], k)'
    <3>1. p \in Nat /\ p > o
      BY <1>0, <1>2, <2>1, Graph
    <3>2. HasSpace(Outs[b][p], k)
      BY <1>0, <1>4, <3>1 DEF BlockInv, SpaceHeld
    <3> QED
      BY <1>0, <1>11, <1>12, <3>1, <3>2
  <2> QED
    BY <1>1, <1>4, <1>14, <2>1 DEF SpaceHeld
<1>17. InputHeld(b)'
  BY <1>14 DEF InputHeld
<1>18. RequestSound(b)'
  BY <1>0, <1>1, <1>14 DEF RequestSound
<1>19. AlignmentSound(b)'
  <2>1. ASSUME Whole(b), NEW p \in OutPorts(b)
        PROVE  OutputAligned(b, p)'
    <3> DEFINE w == written[Outs[b][p]]
               m == c.multiple
    <3>1. /\ p < o => (w + off[b]) % m = 0
          /\ p >= o => (w + r + off[b]) % m = 0
          /\ p \in Nat
      BY <1>0, <2>1, Graph DEF BlockInv, AlignmentSound, OutputAligned
    <3>2. written'[Outs[b][p]] = IF p = o THEN w + r ELSE w
      BY <1>0, <1>1, <1>10, <1>12 DEF TypeOK
    <3>3. p <= len
      BY Graph DEF len
    <3>4. CASE p <= o
      <4>1. (written'[Outs[b][p]] + off[b]) % m = 0
        BY <1>0, <3>1, <3>2, <3>4
      <4>2. pc'[b] = "produce" => p < next
        BY <1>0, <1>2, <1>14, <3>1, <3>4
      <4> QED
        BY <1>0, <1>1, <1>2, <1>14, <3>1, <4>1, <4>2 DEF OutputAligned
    <3>5. CASE p > o
      <4>1. (written'[Outs[b][p]] + r + off[b]) % m = 0
        BY <1>0, <3>1, <3>2, <3>5
      <4>2. pc'[b] = "produce" /\ p >= next
        BY <1>0, <1>2, <1>14, <3>1, <3>3, <3>5
      <4> QED
        BY <1>0, <1>1, <1>2, <1>14, <3>1, <4>1, <4>2 DEF OutputAligned
    <3> QED
      BY <1>0, <3>1, <3>4, <3>5
  <2> QED
    BY <1>0, <1>1, <1>14, <2>1 DEF BlockInv, AlignmentSound
<1> QED
  BY <1>5, <1>9, <1>13, <1>15, <1>16, <1>17, <1>18, <1>19 DEF Kept, BlockInv

LEMMA InitIInv == Init => IInv
<1> SUFFICES ASSUME Init PROVE IInv
  OBVIOUS
<1>1. ASSUME NEW b \in Blocks, NEW i \in InPorts(b)
      PROVE  Unread(b, i) \in 0 .. Size[Ins[b][i]] - 1
  <2>1. Ins[b][i] \in Bufs /\ <<b, i>> \in Ports /\ Cfg[b].history \in Nat \ {0}
    BY Graph, PortIs, ConfigFields
  <2>2. Cfg[b].history <= Size[Ins[b][i]] /\ Size[Ins[b][i]] \in Nat
    BY <2>1, SizeAssumption, Sizes
  <2>3. Unread(b, i) = 0 + Cfg[b].history - 1 - 0
    BY <2>1 DEF Unread, Init
  <2> QED
    BY <2>1, <2>2, <2>3
<1>2. TypeOK
  <2>1. left \in [Blocks -> Nat \cup {-1}] /\ empties \in [Blocks -> 0 .. MaxEmpty]
    BY BlocksAssumption DEF Init
  <2>2. \A b \in Blocks : Cfg[b].multiple \in Nat
    BY Graph, ConfigFields
  <2> QED
    BY <2>1, <2>2 DEF Init, TypeOK
<1>3. ASSUME NEW b \in Blocks
      PROVE  BlockInv(b)
  <2>1. pc[b] = "barrier" /\ port[b] = 1 /\ off[b] = 0 /\ new_alignment[b] = 0
        /\ left[b] = Quota[b] /\ (b \notin Idle => empties[b] = 0)
    BY DEF Init
  <2>2. Cfg[b].multiple \in Nat \ {0}
    BY Graph, ConfigFields
  <2>3. \A o \in OutPorts(b) : (written[Outs[b][o]] + off[b]) % Cfg[b].multiple = 0
    <3>1. (0 * Cfg[b].multiple + 0) % Cfg[b].multiple = 0
      BY <2>2
    <3>2. 0 * Cfg[b].multiple + 0 = 0 + 0
      BY <2>2
    <3>3. \A o \in OutPorts(b) : written[Outs[b][o]] = 0
      BY Graph DEF Init
    <3> QED
      BY <2>1, <3>1, <3>2, <3>3
  <2>4. PortInRange(b) /\ SpaceHeld(b) /\ InputHeld(b) /\ RequestSound(b)
    BY <2>1 DEF PortInRange, SpaceHeld, InputHeld, RequestSound
  <2>5. AlignmentSound(b)
    BY <2>1, <2>3 DEF AlignmentSound, OutputAligned, Whole
  <2> QED
    BY <2>4, <2>5 DEF BlockInv
<1> QED
  BY <1>1, <1>2, <1>3 DEF IInv, CountsWithinBuffer

\* A step that moves no thread and no item.
LEMMA ShelteredInv ==
    ASSUME IInv, TypeOK', UNCHANGED <<pc, local, read, written>>
    PROVE  IInv'
<1>1. \A c, i : Unread(c, i)' = Unread(c, i)
  BY DEF Unread
<1>2. \A x, y : HasSpace(x, y)' <=> HasSpace(x, y)
  BY DEF HasSpace, Unread
<1>3. CountsWithinBuffer'
  BY <1>1 DEF IInv, CountsWithinBuffer
<1>4. ASSUME NEW b \in Blocks PROVE BlockInv(b)'
  <2>1. BlockInv(b)
    BY DEF IInv
  <2>2. PortInRange(b)' /\ RequestSound(b)' /\ AlignmentSound(b)'
    BY <2>1 DEF BlockInv, PortInRange, RequestSound, AlignmentSound, OutputAligned, local
  <2>3. SpaceHeld(b)'
    BY <1>2, <2>1 DEF BlockInv, SpaceHeld, RoomFor, local
  <2>4. InputHeld(b)'
    BY <1>1, <2>1 DEF BlockInv, InputHeld, local
  <2> QED
    BY <2>2, <2>3, <2>4 DEF BlockInv
<1> QED
  BY <1>3, <1>4 DEF IInv

LEMMA StepKept ==
    ASSUME RoomForOne, IInv, NEW b \in Blocks, Step(b) \/ Timeout(b)
    PROVE  Kept(b)
BY TopStep, SnapshotInputStep, SnapshotOutputStep, GuessStep, TryAgainStep, WorkStep,
   ThrowStep, ConsumeStep, ProduceStep, SetDoneStep, NotifyStep, WakeStep DEF Step

LEMMA NextIInv == RoomForOne /\ IInv /\ [Next]_vars => IInv'
<1> SUFFICES ASSUME RoomForOne, IInv, [Next]_vars PROVE IInv'
  OBVIOUS
<1>1. ASSUME NEW b \in Blocks, Step(b) \/ Timeout(b)
      PROVE  IInv'
  <2>1. Kept(b)
    BY <1>1, StepKept
  <2> QED
    BY <2>1, FrameKeeps
<1>2. CASE Barrier
  <2> USE DEF Barrier, local, shared
  <2>1. TypeOK'
    BY <1>2 DEF IInv, TypeOK
  <2>2. CountsWithinBuffer'
    BY <1>2 DEF IInv, CountsWithinBuffer, Unread
  <2>3. ASSUME NEW b \in Blocks PROVE BlockInv(b)'
    BY <1>2, RestingInv DEF Resting, IInv, BlockInv, PortInRange
  <2> QED
    BY <2>1, <2>2, <2>3 DEF IInv
<1>3. CASE Stop
  BY <1>3, ShelteredInv DEF Stop, IInv, TypeOK, local
<1>4. CASE UNCHANGED vars
  BY <1>4, ShelteredInv DEF vars, shared, IInv, TypeOK, local
<1> QED
  BY <1>1, <1>2, <1>3, <1>4 DEF Next

THEOREM Invariance == ASSUME RoomForOne PROVE Spec => []IInv
<1>1. Init => IInv
  BY InitIInv
<1>2. IInv /\ [Next]_vars => IInv'
  BY NextIInv
<1> QED
  BY <1>1, <1>2, PTL DEF Spec

(* Every call of general_work fits the buffers as they are when it is made,  *)
(* whatever the other threads did since the executor looked: no thread       *)
(* overwrites what another has yet to read or reads what is not there, and   *)
(* the SIMD alignment is accounted for; for any flowgraph of sync blocks,    *)
(* any rates, histories, multiples and buffer sizes.                         *)
THEOREM CallsAlwaysFit == ASSUME RoomForOne PROVE Spec => []CallsFit
<1>1. IInv => CallsFit
  <2> SUFFICES ASSUME IInv PROVE CallsFit
    OBVIOUS
  <2>1. WorkCallFits
    BY DEF IInv, BlockInv, SpaceHeld, InputHeld, RequestSound, WorkCallFits
  <2>2. AlignmentTracked
    BY DEF IInv, BlockInv, AlignmentSound, OutputAligned, AlignmentTracked
  <2> QED
    BY <2>1, <2>2 DEF IInv, CallsFit
<1> QED
  BY <1>1, Invariance, PTL

-----------------------------------------------------------------------------
(* No wake-up is lost.                                                     *)

\* Whoever is going to notify a block still is after any step, or has.
LEMMA WillNotifyKept ==
    ASSUME IInv, NEW b \in Blocks, NEW c \in Blocks, Step(c) \/ Timeout(c),
           WillNotify("output", b), ~output_changed'[b]
    PROVE  WillNotify("output", b)'
<1> DEFINE Telling(d) == pc[d] \in {"notify", "notify_done"}
                           /\ \E t \in todo[d] : t[1] = "output" /\ t[3] = b
           Moving(d)  == pc[d] \in {"consume", "produce", "set_done"}
                           /\ \E t \in Neighbors[d] : t[1] = "output" /\ t[3] = b
<1>1. PICK d \in Blocks : Telling(d) \/ Moving(d)
  BY DEF WillNotify
<1>2. SUFFICES Telling(d)' \/ Moving(d)'
  BY DEF WillNotify
<1>3. TypeOK
  BY DEF IInv
<1>4. CASE d # c
  <2>1. pc'[d] = pc[d] /\ todo'[d] = todo[d]
    BY <1>3, <1>4, ZenonT(30) DEF Step, Timeout, Top, SnapshotInput, SnapshotOutput, Guess, TryAgain, Work,
       Throw, Consume, Produce, SetDone, Notify, WakeOut, WakeIn, Interrupted, Goto, Ready,
       local, TypeOK
  <2> QED
    BY <1>1, <2>1
<1>5. CASE d = c /\ Telling(c)
  <2>1. Notify(c)
    BY <1>5 DEF Step, Timeout, Top, SnapshotInput, SnapshotOutput, Guess, TryAgain, Work,
       Throw, Consume, Produce, SetDone, WakeOut, WakeIn, Interrupted, Interruptible
  <2>2. PICK u \in todo[c] :
            /\ u[1] = "output" => output_changed' = [output_changed EXCEPT ![u[3]] = TRUE]
            /\ todo' = [todo EXCEPT ![c] = @ \ {u}]
            /\ todo[c] # {u} => UNCHANGED pc
    BY <2>1, <1>3 DEF Notify, TypeOK
  <2>3. PICK t \in todo[c] : t[1] = "output" /\ t[3] = b
    BY <1>5
  <2>4. u # t
    BY <1>3, <2>2, <2>3 DEF TypeOK
  <2>5. t \in todo'[c] /\ pc'[c] = pc[c]
    BY <1>3, <2>2, <2>4 DEF TypeOK
  <2> QED
    BY <1>5, <2>3, <2>5
<1>6. CASE d = c /\ Moving(c)
  <2>1. Consume(c) \/ Produce(c) \/ SetDone(c)
    BY <1>6 DEF Step, Timeout, Top, SnapshotInput, SnapshotOutput, Guess, TryAgain, Work,
       Throw, Notify, WakeOut, WakeIn, Interrupted, Interruptible
  <2>2. \/ pc'[c] \in {"consume", "produce", "set_done"}
        \/ pc'[c] \in {"notify", "notify_done"} /\ todo'[c] = Neighbors[c]
    BY <1>3, <2>1 DEF Consume, Produce, SetDone, Ready, Goto, TypeOK
  <2> QED
    BY <1>6, <2>2
<1> QED
  BY <1>1, <1>4, <1>5, <1>6

\* Only a reader or a neighbour that ends gives a blocked output space or marks
\* it done, and it has yet to say so.
LEMMA StillBlocked ==
    ASSUME IInv, NEW b \in Blocks, NEW c \in Blocks \ {b}, Step(c) \/ Timeout(c),
           OutputBlocked(b)
    PROVE  OutputBlocked(b)' \/ WillNotify("output", b)
<1>1. PICK o \in OutPorts(b) : \E n \in 0 .. Size[Outs[b][o]] - 1 :
          /\ IsSpace(Outs[b][o], n)
          /\ output_blocked(Cfg[b], offered(Cfg[b], n, Size[Outs[b][o]]))
          /\ ~done[Outs[b][o]]
  BY DEF OutputBlocked
<1> DEFINE buf == Outs[b][o]
<1>2. PICK n \in 0 .. Size[buf] - 1 :
          /\ IsSpace(buf, n)
          /\ output_blocked(Cfg[b], offered(Cfg[b], n, Size[buf]))
          /\ ~done[buf]
  BY <1>1
<1>3. TypeOK /\ buf \in Bufs /\ Writer[buf] = b
  BY Graph, WriterIs DEF IInv
<1>4. \A i \in InPorts(c) : Ins[c][i] = buf => <<"output", i, b>> \in Neighbors[c]
  BY <1>3 DEF Neighbors, Upstream
<1>5. ASSUME NEW i \in InPorts(c), Ins[c][i] = buf, pc[c] \in {"consume", "set_done"}
      PROVE  WillNotify("output", b)
  BY <1>4, <1>5 DEF WillNotify
<1>6. CASE Consume(c)
  <2>1. PICK i \in InPorts(c) : i = port[c]
    BY <1>6 DEF Consume
  <2>2. CASE Ins[c][i] = buf
    BY <1>5, <1>6, <2>2 DEF Consume
  <2>3. CASE Ins[c][i] # buf
    <3>1. written' = written /\ done' = done
      BY <1>6 DEF Consume
    <3>2. ASSUME NEW rd \in Readers[buf]
          PROVE  Unread(rd[1], rd[2])' = Unread(rd[1], rd[2])
      <4>1. rd \in Ports /\ rd # <<c, i>> /\ rd = <<rd[1], rd[2]>>
        BY <1>3, <2>3, ReaderIs, PortIs
      <4>2. read'[rd] = read[rd]
        BY <1>3, <1>6, <2>1, <4>1 DEF Consume, TypeOK
      <4>3. read'[<<rd[1], rd[2]>>] = read[<<rd[1], rd[2]>>]
        BY <4>1, <4>2
      <4> QED
        BY <3>1, <4>3 DEF Unread
    <3>3. IsSpace(buf, n)'
      BY <1>2, <3>2 DEF IsSpace, HasSpace
    <3> QED
      BY <1>2, <3>1, <3>3 DEF OutputBlocked
  <2> QED
    BY <2>2, <2>3
<1>7. CASE Produce(c)
  <2>1. PICK p \in OutPorts(c) : p = port[c]
    BY <1>7 DEF Produce, IInv, BlockInv, PortInRange
  <2>2. Outs[c][p] \in Bufs /\ Outs[c][p] # buf
    BY <2>1, Graph, GraphAssumption
  <2>3. read' = read /\ done' = done /\ written'[buf] = written[buf]
    BY <1>3, <1>7, <2>1, <2>2 DEF Produce, TypeOK
  <2>4. ASSUME NEW rd \in Readers[buf]
        PROVE  Unread(rd[1], rd[2])' = Unread(rd[1], rd[2])
    <3>1. Ins[rd[1]][rd[2]] = buf
      BY <1>3, ReaderIs
    <3> QED
      BY <2>3, <3>1 DEF Unread
  <2>5. IsSpace(buf, n)'
    BY <1>2, <2>4 DEF IsSpace, HasSpace
  <2> QED
    BY <1>2, <2>3, <2>5 DEF OutputBlocked
<1>8. CASE SetDone(c)
  <2>1. read' = read /\ written' = written
    BY <1>8 DEF SetDone
  <2>2. IsSpace(buf, n)'
    BY <1>2, <2>1 DEF IsSpace, HasSpace, Unread
  <2>3. CASE Adjacent(c)[port[c]] = buf
    <3>1. /\ port[c] \in 1 .. Len(Adjacent(c)) /\ pc[c] = "set_done"
      BY <1>8 DEF SetDone, IInv, BlockInv, PortInRange
    <3>2. PICK p \in 1 .. Len(Adjacent(c)) : Adjacent(c)[p] = buf
      BY <2>3, <3>1
    <3>3. \A q \in OutPorts(c) : Outs[c][q] # buf
      BY GraphAssumption
    <3>4. \E i \in InPorts(c) : Ins[c][i] = buf
      <4>1. /\ Outs[c] \in Seq(Bufs) /\ Ins[c] \in Seq(Bufs)
            /\ Len(Outs[c]) \in Nat /\ Len(Ins[c]) \in Nat
        BY Graph
      <4>2. /\ Len(Adjacent(c)) = Len(Outs[c]) + Len(Ins[c])
            /\ Adjacent(c)[p] = IF p <= Len(Outs[c]) THEN Outs[c][p]
                                ELSE Ins[c][p - Len(Outs[c])]
        BY <4>1 DEF Adjacent
      <4>3. p > Len(Outs[c])
        BY <3>2, <3>3, <4>1, <4>2 DEF OutPorts
      <4> DEFINE k == Len(Outs[c])
                 l == Len(Ins[c])
      <4>4. k \in Nat /\ l \in Nat /\ p \in 1 .. k + l /\ p > k
        BY <4>1, <4>2, <4>3
      <4>5. Ins[c][p - k] = buf
        BY <3>2, <4>1, <4>2, <4>3
      <4>6. InPorts(c) = 1 .. l
        BY DEF InPorts
      <4> HIDE DEF k, l
      <4>7. p - k \in InPorts(c)
        BY <4>4, <4>6
      <4> QED
        BY <4>5, <4>7
    <3> QED
      BY <1>5, <3>1, <3>4
  <2>4. CASE Adjacent(c)[port[c]] # buf
    <3>1. done'[buf] = done[buf]
      BY <1>3, <1>8, <2>4 DEF SetDone, TypeOK
    <3> QED
      BY <1>2, <2>2, <3>1 DEF OutputBlocked
  <2> QED
    BY <2>3, <2>4
<1>9. CASE ~Consume(c) /\ ~Produce(c) /\ ~SetDone(c)
  <2>1. read' = read /\ written' = written /\ done' = done
    BY <1>9 DEF Step, Timeout, Top, SnapshotInput, SnapshotOutput, Guess, TryAgain, Work,
       Throw, Notify, WakeOut, WakeIn, Interrupted, shared
  <2>2. IsSpace(buf, n)'
    BY <1>2, <2>1 DEF IsSpace, HasSpace, Unread
  <2> QED
    BY <1>2, <2>1, <2>2 DEF OutputBlocked
<1> QED
  BY <1>6, <1>7, <1>8, <1>9

\* A thread goes to sleep on its output only when that is short of space.
LEMMA SleepsBlocked ==
    ASSUME IInv, NEW b \in Blocks, Step(b) \/ Timeout(b), pc'[b] = "wait_out"
    PROVE  OutputBlocked(b)'
<1>0. TypeOK /\ BlockInv(b)
  BY DEF IInv
<1>1. SnapshotOutput(b)
  BY <1>0, ZenonT(30) DEF Step, Timeout, Top, SnapshotInput, Guess, TryAgain, Work, Throw, Consume, Produce,
     SetDone, Notify, WakeOut, WakeIn, Interrupted, Goto, Ready, TypeOK
<1> DEFINE c   == Cfg[b]
<1>2. PICK o \in OutPorts(b) : o = port[b]
  BY <1>1 DEF SnapshotOutput
<1> DEFINE buf == Outs[b][o]
<1>3. /\ c \in BlockConfig /\ buf \in Bufs /\ Size[buf] \in Nat /\ noutput[b] \in Nat
      /\ noutput[b] > 0 /\ UNCHANGED <<read, written, done>>
  BY <1>0, <1>1, Graph, Sizes DEF TypeOK, BlockInv, RequestSound, SnapshotOutput, shared
<1>4. PICK space \in 0 .. Size[buf] - 1 :
          /\ IsSpace(buf, space)
          /\ LET n   == offered(c, space, Size[buf])
                 min == Least(noutput[b], n)
             IN  IF output_blocked(c, n)
                 THEN pc' = [pc EXCEPT ![b] = IF done[buf] THEN "set_done" ELSE "wait_out"]
                 ELSE pc' = [pc EXCEPT ![b] = IF o < Len(Outs[b]) THEN "outputs"
                                              ELSE IF ~source_p(b) THEN "fit"
                                              ELSE IF min = 0 THEN "wait_out" ELSE "work"]
  BY <1>1, <1>2 DEF SnapshotOutput, Goto
<1> DEFINE n == offered(c, space, Size[buf])
<1>5. n \in Nat
  <2>1. space \in Nat
    BY <1>3
  <2> QED
    BY <1>3, <2>1, OfferedIs
<1>6. output_blocked(c, n)
  <2> SUFFICES ASSUME ~output_blocked(c, n) PROVE FALSE
    OBVIOUS
  <2>1. n > 0
    BY <1>3, <1>5, ConfigFields DEF output_blocked, Greatest
  <2> HIDE DEF n
  <2>2. Least(noutput[b], n) # 0
    BY <1>3, <1>5, <2>1 DEF Least
  <2> QED
    BY <1>0, <1>4, <2>2 DEF TypeOK, n
<1>7. ~done[buf]
  BY <1>0, <1>4, <1>6 DEF TypeOK
<1>8. IsSpace(buf, space)'
  BY <1>3, <1>4 DEF IsSpace, HasSpace, Unread
<1> QED
  BY <1>3, <1>6, <1>7, <1>8 DEF OutputBlocked

LEMMA NextNoLostWakeup == IInv /\ NoLostWakeup /\ [Next]_vars => NoLostWakeup'
<1> SUFFICES ASSUME IInv, NoLostWakeup, [Next]_vars, NEW b \in Blocks,
                    pc'[b] = "wait_out", ~output_changed'[b], ~interrupted'[b]
             PROVE  OutputBlocked(b)' \/ WillNotify("output", b)'
  BY DEF NoLostWakeup
<1>0. TypeOK
  BY DEF IInv
<1>1. ASSUME NEW c \in Blocks, Step(c) \/ Timeout(c)
      PROVE  OutputBlocked(b)' \/ WillNotify("output", b)'
  <2>1. CASE c = b
    BY <1>1, <2>1, SleepsBlocked
  <2>2. CASE c # b
    <3>1. pc[b] = "wait_out" /\ ~output_changed[b] /\ ~interrupted[b]
      <4>1. pc'[b] = pc[b] /\ interrupted' = interrupted
        BY <1>0, <1>1, <2>2, ZenonT(30) DEF Step, Timeout, Top, SnapshotInput, SnapshotOutput, Guess, TryAgain,
           Work, Throw, Consume, Produce, SetDone, Notify, WakeOut, WakeIn, Interrupted, Goto,
           Ready, shared, TypeOK
      <4>2. output_changed'[b] = output_changed[b] \/ output_changed'[b] = TRUE
        BY <1>0, <1>1, <2>2 DEF Step, Timeout, Top, SnapshotInput, SnapshotOutput, Guess, TryAgain,
           Work, Throw, Consume, Produce, SetDone, Notify, WakeOut, WakeIn, Interrupted, Goto,
           Ready, shared, TypeOK
      <4> QED
        BY <4>1, <4>2
    <3>2. OutputBlocked(b) \/ WillNotify("output", b)
      BY <3>1 DEF NoLostWakeup
    <3>3. CASE WillNotify("output", b)
      BY <1>1, <3>3, WillNotifyKept
    <3>4. CASE OutputBlocked(b)
      BY <1>1, <2>2, <3>4, StillBlocked, WillNotifyKept
    <3> QED
      BY <3>2, <3>3, <3>4
  <2> QED
    BY <2>1, <2>2
<1>2. CASE Barrier
  BY <1>0, <1>2 DEF Barrier, TypeOK
<1>3. CASE Stop
  BY <1>0, <1>3 DEF Stop, TypeOK
<1>4. CASE UNCHANGED vars
  <2>1. OutputBlocked(b) \/ WillNotify("output", b)
    BY <1>4 DEF NoLostWakeup, vars, shared
  <2>2. OutputBlocked(b) => OutputBlocked(b)'
    BY <1>4 DEF vars, shared, OutputBlocked, IsSpace, HasSpace, Unread
  <2>3. WillNotify("output", b) => WillNotify("output", b)'
    BY <1>4 DEF vars, local, WillNotify
  <2> QED
    BY <2>1, <2>2, <2>3
<1> QED
  BY <1>1, <1>2, <1>3, <1>4 DEF Next

(* A thread asleep without a timeout on output space is either still short   *)
(* of it or about to be told: whatever the graph, no interleaving of the     *)
(* executor's look at the buffers with the neighbours' notifications loses a *)
(* wake-up.                                                                  *)
THEOREM WakeupsNeverLost == ASSUME RoomForOne PROVE Spec => []NoLostWakeup
<1>1. Init => NoLostWakeup
  BY DEF Init, NoLostWakeup
<1>2. IInv /\ NoLostWakeup /\ [Next]_vars => NoLostWakeup'
  BY NextNoLostWakeup
<1>3. Spec => []IInv
  BY Invariance
<1> QED
  BY <1>1, <1>2, <1>3, PTL DEF Spec

-----------------------------------------------------------------------------
(* How the end of the stream goes through the flowgraph.                   *)

\* A buffer that one of several readers may end is written by the only block
\* that ends by itself.
SiblingsEnd ==
    \A buf \in Bufs : (\E r, s \in Readers[buf] : r[1] # s[1]) =>
        \A b \in Blocks : Quota[b] # -1 => b = Writer[buf]

\* Each input buffer holds what its block needs for one output multiple.
InputsFit ==
    \A b \in Blocks : \A i \in InPorts(b) :
        forecast(Cfg[b], Cfg[b].multiple) <= Size[Ins[b][i]] - 1

SomeDone == \E buf \in Bufs : done[buf]

\* A block writes or reads the buffer.
Uses(b, buf) == b = Writer[buf] \/ \E rd \in Readers[buf] : rd[1] = b

EndedBy(buf) == \E b \in Blocks : Uses(b, buf) /\ Finishing(b)

FollowsNeighbor(b) ==
    \/ \E i \in InPorts(b) : Finishing(Writer[Ins[b][i]])
    \/ \E o \in OutPorts(b) : \E rd \in Readers[Outs[b][o]] : Finishing(rd[1])

\* What is marked done was marked by a block that has come to its end; if only
\* one block ends by itself, nothing ends before it.
DoneInv ==
    /\ \A b \in Blocks : /\ Quota[b] = -1 => left[b] = -1
                         /\ result[b] = WORK_DONE => Quota[b] # -1
    /\ \A b \in Blocks : \A i \in InPorts(b) : in_done[<<b, i>>] => done[Ins[b][i]]
    /\ \A buf \in Bufs : done[buf] => EndedBy(buf)
    /\ \A s \in Blocks :
           /\ \A b \in Blocks : Quota[b] # -1 => b = s
           /\ SomeDone \/ \E b \in Blocks : pc[b] = "set_done"
           => Finishing(s)

LEMMA InputEnded ==
    ASSUME DoneInv, SiblingsEnd, NEW b \in Blocks, ~Finishing(b),
           NEW i \in InPorts(b), done[Ins[b][i]]
    PROVE  Finishing(Writer[Ins[b][i]])
<1> DEFINE buf == Ins[b][i]
<1>1. buf \in Bufs /\ Writer[buf] \in Blocks /\ <<b, i>> \in Readers[buf]
  <2>1. buf \in Bufs /\ <<b, i>> \in Ports
    BY Graph, PortIs
  <2> QED
    BY <2>1, WriterIs, ReaderIs
<1>2. SUFFICES ASSUME NEW rd \in Readers[buf], Finishing(rd[1]) PROVE Finishing(Writer[buf])
  BY <1>1 DEF DoneInv, EndedBy, Uses
<1>3. rd[1] # <<b, i>>[1]
  BY <1>2
<1>4. \A c \in Blocks : Quota[c] # -1 => c = Writer[buf]
  BY <1>1, <1>3 DEF SiblingsEnd
<1> QED
  BY <1>1, <1>4 DEF DoneInv, SomeDone

LEMMA OutputEnded ==
    ASSUME DoneInv, NEW b \in Blocks, ~Finishing(b), NEW o \in OutPorts(b), done[Outs[b][o]]
    PROVE  \E rd \in Readers[Outs[b][o]] : Finishing(rd[1])
<1>1. Outs[b][o] \in Bufs /\ Writer[Outs[b][o]] = b
  BY Graph, WriterIs
<1> QED
  BY <1>1 DEF DoneInv, EndedBy, Uses

\* What the lemmas below show of each step of a block.
EndsInTurn(b) ==
    /\ Finishing(b) => Finishing(b)'
    /\ \A c \in Blocks : \A i \in InPorts(c) :
           in_done'[<<c, i>>] => in_done[<<c, i>>] \/ done[Ins[c][i]]
    /\ left[b] = -1 => left'[b] = -1
    /\ result'[b] = WORK_DONE => result[b] = WORK_DONE \/ Quota[b] # -1
    /\ \A buf \in Bufs : done[buf] => done'[buf]
    /\ \A buf \in Bufs : done'[buf] =>
           \/ done[buf]
           \/ pc[b] = "set_done" /\ Uses(b, buf)
    /\ pc'[b] = "set_done" =>
           \/ pc[b] = "set_done" /\ result'[b] = result[b]
           \/ result'[b] = WORK_DONE /\ Quota[b] # -1
           \/ SomeDone /\ (SiblingsEnd => FollowsNeighbor(b))

LEMMA FollowsKept ==
    ASSUME \A c \in Blocks : Finishing(c) => Finishing(c)', NEW c \in Blocks, FollowsNeighbor(c)
    PROVE  FollowsNeighbor(c)'
<1>1. CASE \E i \in InPorts(c) : Finishing(Writer[Ins[c][i]])
  BY <1>1, WriterIs DEF FollowsNeighbor
<1>2. CASE \E o \in OutPorts(c) : \E rd \in Readers[Outs[c][o]] : Finishing(rd[1])
  <2>1. PICK o \in OutPorts(c) : \E rd \in Readers[Outs[c][o]] : Finishing(rd[1])
    BY <1>2
  <2>2. PICK rd \in Readers[Outs[c][o]] : Finishing(rd[1])
    BY <2>1
  <2>3. rd[1] \in Blocks
    BY Graph, ReaderIs, PortIs
  <2> QED
    BY <2>2, <2>3 DEF FollowsNeighbor
<1> QED
  BY <1>1, <1>2 DEF FollowsNeighbor

LEMMA InTurnKeeps ==
    ASSUME DoneInv, NEW b \in Blocks, Framed(b), EndsInTurn(b)
    PROVE  /\ DoneInv'
           /\ SiblingsEnd /\ DoneFollowsNeighbor => DoneFollowsNeighbor'
<1>1. \A c \in Blocks \ {b} : pc'[c] = pc[c] /\ result'[c] = result[c] /\ left'[c] = left[c]
  BY DEF Framed
<1>2. \A c \in Blocks : Finishing(c) => Finishing(c)'
  BY <1>1 DEF EndsInTurn, Finishing
<1>3. \A c \in Blocks : FollowsNeighbor(c) => FollowsNeighbor(c)'
  BY <1>2, FollowsKept
<1>4. \A c \in Blocks : /\ Quota[c] = -1 => left'[c] = -1
                        /\ result'[c] = WORK_DONE => Quota[c] # -1
  BY <1>1 DEF EndsInTurn, DoneInv
<1>5. \A c \in Blocks : \A i \in InPorts(c) : in_done'[<<c, i>>] => done'[Ins[c][i]]
  BY Graph DEF EndsInTurn, DoneInv
<1>6. ASSUME NEW buf \in Bufs, done'[buf] PROVE EndedBy(buf)'
  <2>1. CASE done[buf]
    BY <1>2, <2>1 DEF DoneInv, EndedBy
  <2>2. CASE ~done[buf]
    <3>1. pc[b] = "set_done" /\ Uses(b, buf)
      BY <1>6, <2>2 DEF EndsInTurn
    <3>2. Finishing(b)'
      BY <1>2, <3>1 DEF Finishing
    <3> QED
      BY <3>1, <3>2 DEF EndedBy
  <2> QED
    BY <2>1, <2>2
<1>7. ASSUME NEW s \in Blocks, \A c \in Blocks : Quota[c] # -1 => c = s,
             SomeDone' \/ \E c \in Blocks : pc'[c] = "set_done"
      PROVE  Finishing(s)'
  <2>1. CASE SomeDone \/ \E c \in Blocks : pc[c] = "set_done"
    BY <1>2, <1>7, <2>1 DEF DoneInv
  <2>2. CASE ~(SomeDone \/ \E c \in Blocks : pc[c] = "set_done")
    <3>1. ~SomeDone'
      BY <2>2 DEF SomeDone, EndsInTurn
    <3>2. pc'[b] = "set_done"
      BY <1>1, <1>7, <2>2, <3>1
    <3>3. Quota[b] # -1
      BY <2>2, <3>2 DEF EndsInTurn
    <3> QED
      BY <1>7, <3>2, <3>3 DEF Finishing
  <2> QED
    BY <2>1, <2>2
<1>8. ASSUME SiblingsEnd, DoneFollowsNeighbor, NEW c \in Blocks, pc'[c] = "set_done", result'[c] # WORK_DONE
      PROVE  FollowsNeighbor(c)'
  <2>1. FollowsNeighbor(c)
    <3>1. CASE pc[c] = "set_done" /\ result'[c] = result[c]
      BY <1>8, <3>1 DEF DoneFollowsNeighbor, FollowsNeighbor
    <3>2. CASE ~(pc[c] = "set_done" /\ result'[c] = result[c])
      BY <1>1, <1>8, <3>2 DEF EndsInTurn
    <3> QED
      BY <3>1, <3>2
  <2> QED
    BY <1>3, <2>1
<1> QED
  BY <1>4, <1>5, <1>6, <1>7, <1>8 DEF DoneInv, DoneFollowsNeighbor, FollowsNeighbor

-----------------------------------------------------------------------------
\* Steps that end nothing and mark nothing.
LEMMA QuietStep ==
    ASSUME IInv, NEW b \in Blocks,
           \/ Top(b) \/ Guess(b) \/ Throw(b) \/ Consume(b) \/ Produce(b) \/ Notify(b)
           \/ WakeOut(b) \/ WakeIn(b) \/ Timeout(b) \/ Interrupted(b)
    PROVE  /\ done' = done /\ left' = left /\ result'[b] \in {result[b], 0}
           /\ in_done' = in_done \/ ForgetInputs(b)
           /\ pc'[b] # "set_done" /\ (Finishing(b) => Finishing(b)')
<1> USE DEF Goto, Finishing
<1>0. TypeOK
  BY DEF IInv
<1>1. ASSUME \/ Top(b) \/ Guess(b) \/ Throw(b)
             \/ WakeOut(b) \/ WakeIn(b) \/ Timeout(b) \/ Interrupted(b)
      PROVE  /\ done' = done /\ left' = left /\ result' = result
             /\ in_done' = in_done \/ ForgetInputs(b)
             /\ pc'[b] # "set_done" /\ (Finishing(b) => Finishing(b)')
  <2>1. CASE Top(b)
    BY <1>0, <2>1 DEF Top, TypeOK
  <2>2. CASE Guess(b)
    BY <1>0, <2>2 DEF Guess, shared, TypeOK
  <2>3. CASE Throw(b)
    BY <1>0, <2>3 DEF Throw, shared, TypeOK
  <2>4. CASE WakeOut(b) \/ WakeIn(b) \/ Timeout(b)
    BY <1>0, <2>4 DEF WakeOut, WakeIn, Timeout, local, shared, TypeOK
  <2>5. CASE Interrupted(b)
    BY <1>0, <2>5 DEF Interrupted, Interruptible, local, shared, TypeOK
  <2> QED
    BY <1>1, <2>1, <2>2, <2>3, <2>4, <2>5
<1>2. CASE Consume(b)
  BY <1>0, <1>2 DEF Consume, Ready, TypeOK
<1>3. CASE Produce(b)
  BY <1>0, <1>3 DEF Produce, Ready, TypeOK
<1>4. CASE Notify(b)
  BY <1>0, <1>4 DEF Notify, TypeOK
<1> QED
  BY <1>1, <1>2, <1>3, <1>4

LEMMA SnapshotInputInTurn ==
    ASSUME IInv, DoneInv, NEW b \in Blocks, SnapshotInput(b)
    PROVE  EndsInTurn(b)
<1> DEFINE i == port[b]
<1>1. TypeOK /\ pc[b] = "inputs" /\ i \in InPorts(b) /\ Ins[b][i] \in Bufs /\ <<b, i>> \in Ports
  BY Graph, PortIs DEF SnapshotInput, IInv
<1>2. done' = done /\ left' = left /\ result' = result
  BY DEF SnapshotInput, shared
<1>3. CASE sink_p(b) /\ Exhausted(b, Unread(b, i), done[Ins[b][i]])
  <2>1. done[Ins[b][i]]
    BY <1>3 DEF Exhausted
  <2>2. pc' = [pc EXCEPT ![b] = "set_done"] /\ ForgetInputs(b)
    BY <1>3 DEF SnapshotInput, Goto
  <2>3. SomeDone /\ ~Finishing(b)
    BY <1>1, <2>1 DEF SomeDone, Finishing
  <2>4. SiblingsEnd => FollowsNeighbor(b)
    BY <1>1, <2>1, <2>3, InputEnded DEF FollowsNeighbor
  <2>5. \A c \in Blocks : \A j \in InPorts(c) : in_done'[<<c, j>>] => in_done[<<c, j>>]
    BY <2>2, PortIs DEF ForgetInputs
  <2> QED
    BY <1>2, <2>3, <2>4, <2>5 DEF EndsInTurn
<1>4. CASE ~(sink_p(b) /\ Exhausted(b, Unread(b, i), done[Ins[b][i]]))
  <2>1. in_done' = [in_done EXCEPT ![<<b, i>>] = done[Ins[b][i]]]
    BY <1>4 DEF SnapshotInput
  <2>2. pc'[b] # "set_done" /\ ~Finishing(b)
    BY <1>1, <1>4 DEF SnapshotInput, Goto, Finishing, TypeOK
  <2>3. \A c \in Blocks : \A j \in InPorts(c) :
            in_done'[<<c, j>>] => in_done[<<c, j>>] \/ done[Ins[c][j]]
    BY <1>1, <2>1, PortIs DEF TypeOK
  <2> QED
    BY <1>2, <2>2, <2>3 DEF EndsInTurn
<1> QED
  BY <1>3, <1>4

LEMMA SnapshotOutputInTurn ==
    ASSUME IInv, DoneInv, NEW b \in Blocks, SnapshotOutput(b)
    PROVE  EndsInTurn(b)
<1> DEFINE o == port[b]
<1>1. TypeOK /\ pc[b] = "outputs" /\ o \in OutPorts(b) /\ Outs[b][o] \in Bufs
  BY Graph DEF SnapshotOutput, IInv
<1>2. /\ done' = done /\ left' = left /\ result' = result /\ ~Finishing(b)
      /\ UNCHANGED in_done \/ ForgetInputs(b)
  BY <1>1 DEF SnapshotOutput, shared, Finishing
<1>3. pc'[b] = "set_done" => done[Outs[b][o]]
  BY <1>1 DEF SnapshotOutput, Goto, TypeOK
<1>4. pc'[b] = "set_done" => SomeDone /\ FollowsNeighbor(b)
  BY <1>1, <1>2, <1>3, OutputEnded DEF SomeDone, FollowsNeighbor
<1>5. \A c \in Blocks : \A j \in InPorts(c) : in_done'[<<c, j>>] => in_done[<<c, j>>]
  BY <1>2, PortIs DEF ForgetInputs
<1> QED
  BY <1>2, <1>4, <1>5 DEF EndsInTurn

\* When a call can be halved no more, the input it is short of is also short of
\* what a whole multiple takes.
LEMMA ShortIs ==
    ASSUME RoomForOne, IInv, NEW b \in Blocks, pc[b] = "fit",
           NEW avail \in {items[<<b, i>>] : i \in InPorts(b)},
           NEW n, n = Pass(Cfg[b], off[b], avail, noutput[b]).n, ~(n > Cfg[b].multiple),
           ~(\A i \in InPorts(b) : forecast(Cfg[b], n) <= items[<<b, i>>])
    PROVE  /\ ShortInput(b, n) \in InPorts(b)
           /\ items[<<b, ShortInput(b, n)>>] < forecast(Cfg[b], n)
           /\ forecast(Cfg[b], n) <= forecast(Cfg[b], Cfg[b].multiple)
           /\ forecast(Cfg[b], n) \in Nat /\ forecast(Cfg[b], Cfg[b].multiple) \in Nat
<1> DEFINE c == Cfg[b]
           m == c.multiple
<1>0. /\ TypeOK /\ BlockInv(b) /\ c \in BlockConfig /\ m \in Nat \ {0}
      /\ noutput[b] \in Nat /\ noutput[b] > 0 /\ off[b] \in 0 .. m
      /\ (c.multiple_set => off[b] = 0 /\ noutput[b] % m = 0)
      /\ c.max_noutput >= m /\ avail \in Nat
  <2>1. TypeOK /\ BlockInv(b) /\ c \in BlockConfig
    BY Graph DEF IInv
  <2>2. m \in Nat \ {0} /\ noutput[b] \in Nat /\ off[b] \in Nat /\ off[b] <= m
    BY <2>1, ConfigFields DEF TypeOK
  <2>3. noutput[b] > 0 /\ (c.multiple_set => off[b] = 0 /\ noutput[b] % m = 0)
    BY <2>1 DEF BlockInv, RequestSound, AlignmentSound
  <2>4. avail \in Nat
    <3>1. PICK i \in InPorts(b) : avail = items[<<b, i>>]
      OBVIOUS
    <3>2. <<b, i>> \in Ports
      BY PortIs
    <3> QED
      BY <2>1, <3>1, <3>2 DEF TypeOK
  <2> QED
    BY <2>1, <2>2, <2>3, <2>4 DEF RoomForOne
<1> DEFINE a == Pass(c, off[b], avail, noutput[b])
<1>1. a.n \in Nat
  BY <1>0, PassKeeps
<1>2. n \in Nat
  BY <1>1
<1> HIDE DEF a
<1>3. /\ forecast(c, n) <= forecast(c, m)
      /\ forecast(c, n) \in Nat /\ forecast(c, m) \in Nat
  BY <1>0, <1>2, ForecastCovers
<1> DEFINE Short(i) == items[<<b, i>>] < forecast(c, n)
<1>4. \E i \in InPorts(b) : Short(i) /\ \A j \in 1 .. i - 1 : items[<<b, j>>] >= forecast(c, n)
  <2> DEFINE T == {i \in InPorts(b) : Short(i)}
  <2>1. T # {} /\ T \subseteq Nat
    <3>1. \A i \in InPorts(b) : items[<<b, i>>] \in Nat /\ i \in Nat
      BY <1>0, PortIs, Graph DEF TypeOK
    <3> QED
      BY <1>3, <3>1
  <2>2. PICK i \in T : \A j \in T : i <= j
    BY <2>1, LeastNat
  <2>3. ASSUME NEW j \in 1 .. i - 1 PROVE items[<<b, j>>] >= forecast(c, n)
    <3>1. i \in Nat /\ i <= Len(Ins[b]) /\ Len(Ins[b]) \in Nat
      BY Graph
    <3>2. j \in InPorts(b) /\ j < i
      BY <3>1 DEF InPorts
    <3>3. items[<<b, j>>] \in Nat
      BY <1>0, <3>2, PortIs DEF TypeOK
    <3>4. ~Short(j)
      BY <2>2, <3>1, <3>2
    <3> QED
      BY <1>3, <3>3, <3>4
  <2> QED
    BY <2>2, <2>3
<1>5. ShortInput(b, n) \in InPorts(b) /\ Short(ShortInput(b, n))
  BY <1>4 DEF ShortInput
<1> QED
  BY <1>3, <1>5

LEMMA TryAgainInTurn ==
    ASSUME RoomForOne, InputsFit, IInv, DoneInv, NEW b \in Blocks, TryAgain(b)
    PROVE  EndsInTurn(b)
<1>1. PICK m \in {items[<<b, i>>] : i \in InPorts(b)} : TryAgain(b)!(m)
  BY DEF TryAgain
<1> DEFINE c     == Cfg[b]
           pass  == Pass(c, off[b], m, noutput[b])
           short == ShortInput(b, pass.n)
           fed   == \A i \in InPorts(b) : forecast(c, pass.n) <= items[<<b, i>>]
<1>2. TypeOK /\ pc[b] = "fit"
  BY <1>1 DEF IInv
<1>3. /\ done' = done /\ left' = left /\ result' = result /\ ~Finishing(b)
      /\ UNCHANGED in_done \/ ForgetInputs(b)
  BY <1>1, <1>2 DEF shared, Finishing
<1>4. ASSUME pc'[b] = "set_done" PROVE SomeDone /\ (SiblingsEnd => FollowsNeighbor(b))
  <2>1. ~fed /\ ~(pass.n > c.multiple)
        /\ (in_done[<<b, short>>] \/ forecast(c, pass.n) > Size[Ins[b][short]] - 1)
    BY <1>1, <1>2, <1>4 DEF Goto, TypeOK
  <2>3. /\ short \in InPorts(b)
        /\ forecast(c, pass.n) <= forecast(c, c.multiple)
        /\ forecast(c, pass.n) \in Nat /\ forecast(c, c.multiple) \in Nat
    <3> DEFINE n == pass.n
    <3>1. n = Pass(c, off[b], m, noutput[b]).n
      OBVIOUS
    <3> HIDE DEF n
    <3>2. ~(\A i \in InPorts(b) : forecast(c, n) <= items[<<b, i>>]) /\ ~(n > c.multiple)
      BY <2>1 DEF n
    <3>3. /\ ShortInput(b, n) \in InPorts(b)
          /\ forecast(c, n) <= forecast(c, c.multiple)
          /\ forecast(c, n) \in Nat /\ forecast(c, c.multiple) \in Nat
      BY <1>2, <3>1, <3>2, ShortIs
    <3> QED
      BY <3>3 DEF n
  <2>4. Ins[b][short] \in Bufs
    BY <2>3, Graph
  <2>5. in_done[<<b, short>>]
    <3>1. forecast(c, c.multiple) <= Size[Ins[b][short]] - 1 /\ Size[Ins[b][short]] \in Nat
      BY <2>3, <2>4, Sizes DEF InputsFit
    <3> HIDE DEF short, pass
    <3> QED
      BY <2>1, <2>3, <3>1
  <2>6. done[Ins[b][short]]
    BY <2>3, <2>5 DEF DoneInv
  <2>7. SiblingsEnd => Finishing(Writer[Ins[b][short]])
    BY <1>3, <2>3, <2>6, InputEnded
  <2> QED
    BY <2>3, <2>4, <2>6, <2>7 DEF SomeDone, FollowsNeighbor
<1>5. \A d \in Blocks : \A j \in InPorts(d) : in_done'[<<d, j>>] => in_done[<<d, j>>]
  BY <1>3, PortIs DEF ForgetInputs
<1> QED
  BY <1>3, <1>4, <1>5 DEF EndsInTurn

LEMMA WorkInTurn ==
    ASSUME IInv, DoneInv, NEW b \in Blocks, Work(b)
    PROVE  EndsInTurn(b) /\ (Finishing(b)' => Quota[b] # -1)
<1>1. TypeOK /\ pc[b] = "work" /\ ~Finishing(b)
  BY DEF IInv, Work, Finishing
<1>2. done' = done /\ in_done' = in_done
  BY DEF Work, shared
<1>3. PICK r \in WorkResults(b, noutput[b]) :
          /\ result' = [result EXCEPT ![b] = r]
          /\ left' = [left EXCEPT ![b] = IF @ > 0 /\ r > 0 THEN @ - r ELSE @]
          /\ Goto(b, IF r = WORK_DONE THEN "set_done"
                     ELSE IF r > 0 /\ ~source_p(b) THEN "consume"
                     ELSE IF r > 0 THEN "produce"
                     ELSE IF source_p(b) THEN "wait_in" ELSE "notify")
  BY DEF Work
<1>4. left[b] \in Int /\ noutput[b] \in Nat /\ (Quota[b] = -1 => left[b] = -1)
  BY <1>1 DEF TypeOK, DoneInv
<1>5. r = WORK_DONE => Quota[b] # -1
  <2> SUFFICES ASSUME r = -1, left[b] = -1 PROVE FALSE
    BY <1>4 DEF WORK_DONE
  <2>1. r \in (IF b \in Partial THEN 1 .. noutput[b] ELSE {noutput[b]})
                 \cup (IF empties[b] > 0 THEN {0} ELSE {})
    BY <1>3 DEF WorkResults
  <2> QED
    BY <1>4, <2>1
<1>6. result'[b] = r /\ (Finishing(b)' => r = WORK_DONE)
  BY <1>1, <1>3 DEF Goto, TypeOK, Finishing
<1>7. left[b] = -1 => left'[b] = -1
  BY <1>1, <1>3 DEF TypeOK
<1>8. pc'[b] = "set_done" => Finishing(b)'
  BY DEF Finishing
<1> QED
  BY <1>1, <1>2, <1>5, <1>6, <1>7, <1>8 DEF EndsInTurn

LEMMA SetDoneInTurn ==
    ASSUME IInv, NEW b \in Blocks, SetDone(b)
    PROVE  EndsInTurn(b)
<1> DEFINE p == port[b]
<1>1. TypeOK /\ pc[b] = "set_done" /\ p \in 1 .. Len(Adjacent(b)) /\ Adjacent(b)[p] \in Bufs
  BY AdjacentIs DEF IInv, BlockInv, PortInRange, SetDone
<1>2. /\ left' = left /\ result' = result /\ in_done' = in_done
      /\ done' = [done EXCEPT ![Adjacent(b)[p]] = TRUE]
  BY DEF SetDone
<1>3. Uses(b, Adjacent(b)[p])
  <2>1. /\ Outs[b] \in Seq(Bufs) /\ Ins[b] \in Seq(Bufs)
        /\ Len(Outs[b]) \in Nat /\ Len(Ins[b]) \in Nat
    BY Graph
  <2>2. /\ Len(Adjacent(b)) = Len(Outs[b]) + Len(Ins[b])
        /\ Adjacent(b)[p] = IF p <= Len(Outs[b]) THEN Outs[b][p]
                            ELSE Ins[b][p - Len(Outs[b])]
    BY <1>1, <2>1 DEF Adjacent
  <2> DEFINE k == Len(Outs[b])
             l == Len(Ins[b])
  <2>3. k \in Nat /\ l \in Nat /\ p \in 1 .. k + l /\ OutPorts(b) = 1 .. k /\ InPorts(b) = 1 .. l
    BY <1>1, <2>1, <2>2 DEF OutPorts, InPorts
  <2>4. CASE p <= k
    <3>1. p \in OutPorts(b)
      <4> HIDE DEF k, l, p
      <4> QED
        BY <2>3, <2>4
    <3>2. Writer[Outs[b][p]] = b
      BY <3>1, WriterIs
    <3> QED
      BY <2>2, <2>4, <3>2 DEF Uses
  <2>5. CASE ~(p <= k)
    <3>1. p - k \in InPorts(b)
      <4> HIDE DEF k, l, p
      <4> QED
        BY <2>3, <2>5
    <3>2. Ins[b][p - k] \in Bufs /\ <<b, p - k>> \in Ports
      BY <3>1, Graph, PortIs
    <3>3. <<b, p - k>> \in Readers[Ins[b][p - k]]
      BY <3>2, ReaderIs
    <3> QED
      BY <2>2, <2>5, <3>3 DEF Uses
  <2> QED
    BY <2>4, <2>5
<1>4. \A buf \in Bufs : /\ done[buf] => done'[buf]
                        /\ done'[buf] => done[buf] \/ buf = Adjacent(b)[p]
  BY <1>1, <1>2 DEF TypeOK
<1>5. Finishing(b)'
  BY <1>1 DEF SetDone, Goto, Finishing, TypeOK
<1> QED
  BY <1>1, <1>2, <1>3, <1>4, <1>5 DEF EndsInTurn

LEMMA StepInTurn ==
    ASSUME RoomForOne, InputsFit, IInv, DoneInv, NEW b \in Blocks, Step(b) \/ Timeout(b)
    PROVE  EndsInTurn(b)
<1>1. CASE \/ Top(b) \/ Guess(b) \/ Throw(b) \/ Consume(b) \/ Produce(b) \/ Notify(b)
           \/ WakeOut(b) \/ WakeIn(b) \/ Timeout(b) \/ Interrupted(b)
  <2>1. /\ done' = done /\ left' = left /\ result'[b] \in {result[b], 0}
        /\ in_done' = in_done \/ ForgetInputs(b)
        /\ pc'[b] # "set_done" /\ (Finishing(b) => Finishing(b)')
    BY <1>1, QuietStep
  <2>2. \A c \in Blocks : \A i \in InPorts(c) : in_done'[<<c, i>>] => in_done[<<c, i>>]
    BY <2>1, PortIs DEF ForgetInputs
  <2>3. result'[b] = WORK_DONE => result[b] = WORK_DONE
    BY <2>1 DEF WORK_DONE
  <2> QED
    BY <2>1, <2>2, <2>3 DEF EndsInTurn
<1> QED
  BY <1>1, SnapshotInputInTurn, SnapshotOutputInTurn, TryAgainInTurn, WorkInTurn, SetDoneInTurn
     DEF Step

LEMMA InitDone == Init => DoneInv /\ DoneFollowsNeighbor
<1> SUFFICES ASSUME Init PROVE DoneInv /\ DoneFollowsNeighbor
  OBVIOUS
<1>1. \A b \in Blocks : pc[b] = "barrier" /\ left[b] = Quota[b] /\ result[b] = 0
  BY DEF Init
<1>2. \A b \in Blocks : \A i \in InPorts(b) : ~in_done[<<b, i>>]
  BY PortIs DEF Init
<1>3. \A buf \in Bufs : ~done[buf]
  BY DEF Init
<1> QED
  BY <1>1, <1>2, <1>3 DEF DoneInv, DoneFollowsNeighbor, SomeDone, WORK_DONE

\* Steps that touch nothing of this.
LEMMA ShelteredDone ==
    ASSUME DoneInv, UNCHANGED <<local, done>>,
           \A b \in Blocks : (pc'[b] = "set_done") = (pc[b] = "set_done"),
           \A b \in Blocks : Finishing(b)' <=> Finishing(b)
    PROVE  DoneInv'
<1>1. /\ left' = left /\ result' = result /\ in_done' = in_done /\ done' = done
  BY DEF local
<1>2. \A buf \in Bufs : EndedBy(buf) => EndedBy(buf)'
  BY DEF EndedBy, Uses
<1>3. /\ \A b \in Blocks : /\ Quota[b] = -1 => left'[b] = -1
                           /\ result'[b] = WORK_DONE => Quota[b] # -1
      /\ \A b \in Blocks : \A i \in InPorts(b) : in_done'[<<b, i>>] => done'[Ins[b][i]]
  BY <1>1 DEF DoneInv
<1>4. \A buf \in Bufs : done'[buf] => EndedBy(buf)'
  BY <1>1, <1>2 DEF DoneInv
<1>5. ASSUME NEW s \in Blocks, \A b \in Blocks : Quota[b] # -1 => b = s,
             SomeDone' \/ \E b \in Blocks : pc'[b] = "set_done"
      PROVE  Finishing(s)'
  <2>1. SomeDone \/ \E b \in Blocks : pc[b] = "set_done"
    BY <1>1, <1>5 DEF SomeDone
  <2>2. Finishing(s)
    BY <1>5, <2>1 DEF DoneInv
  <2> QED
    BY <2>2
<1> QED
  BY <1>3, <1>4, <1>5 DEF DoneInv

LEMMA NextDone ==
    RoomForOne /\ InputsFit /\ SiblingsEnd /\ IInv /\ DoneInv /\ DoneFollowsNeighbor /\ [Next]_vars
        => DoneInv' /\ DoneFollowsNeighbor'
<1> SUFFICES ASSUME RoomForOne, InputsFit, SiblingsEnd, IInv, DoneInv, DoneFollowsNeighbor,
                    [Next]_vars
             PROVE  DoneInv' /\ DoneFollowsNeighbor'
  OBVIOUS
<1>1. ASSUME NEW b \in Blocks, Step(b) \/ Timeout(b)
      PROVE  DoneInv' /\ DoneFollowsNeighbor'
  <2>1. Framed(b)
    BY <1>1, StepKept DEF Kept
  <2> QED
    BY <1>1, <2>1, StepInTurn, InTurnKeeps
<1>2. ASSUME UNCHANGED <<local, done>>,
             \A b \in Blocks : (pc'[b] = "set_done") = (pc[b] = "set_done"),
             \A b \in Blocks : Finishing(b)' <=> Finishing(b)
      PROVE  DoneInv' /\ DoneFollowsNeighbor'
  <2>1. DoneInv'
    BY <1>2, ShelteredDone
  <2>2. result' = result
    BY <1>2 DEF local
  <2>3. DoneFollowsNeighbor'
    <3> SUFFICES ASSUME NEW b \in Blocks, pc'[b] = "set_done", result'[b] # WORK_DONE
                 PROVE  FollowsNeighbor(b)'
      BY DEF DoneFollowsNeighbor, FollowsNeighbor
    <3>1. pc[b] = "set_done" /\ result[b] # WORK_DONE
      BY <1>2, <2>2
    <3>2. FollowsNeighbor(b)
      BY <3>1 DEF DoneFollowsNeighbor, FollowsNeighbor
    <3> QED
      BY <1>2, <3>2, FollowsKept
  <2> QED
    BY <2>1, <2>3
<1>3. CASE Barrier
  BY <1>2, <1>3 DEF Barrier, shared, IInv, TypeOK, Finishing
<1>4. CASE Stop
  BY <1>2, <1>4 DEF Stop, Finishing
<1>5. CASE UNCHANGED vars
  BY <1>2, <1>5 DEF vars, shared, Finishing
<1> QED
  BY <1>1, <1>3, <1>4, <1>5 DEF Next

(* A thread that ends because its input is exhausted, or because nobody is   *)
(* left to read its output, ends after a neighbour on that side: in any      *)
(* flowgraph whose inputs hold what one output multiple takes, and in which  *)
(* only the writer of a buffer that several blocks read ends by itself.      *)
THEOREM DoneAlwaysFollows ==
    ASSUME RoomForOne, InputsFit, SiblingsEnd PROVE Spec => []DoneFollowsNeighbor
<1>1. Init => DoneInv /\ DoneFollowsNeighbor
  BY InitDone
<1>2. IInv /\ DoneInv /\ DoneFollowsNeighbor /\ [Next]_vars => DoneInv' /\ DoneFollowsNeighbor'
  BY NextDone
<1>3. Spec => []IInv
  BY Invariance
<1> QED
  BY <1>1, <1>2, <1>3, PTL DEF Spec

-----------------------------------------------------------------------------
(* What is left when all have ended.                                       *)

\* Only sources end by themselves, and no block has a second input.
OnlySourcesEnd == \A b \in Blocks : Len(Ins[b]) <= 1 /\ (Quota[b] # -1 => source_p(b))

\* A sink takes at least one item for each it is asked for.
SinkRates == \A b \in Blocks : sink_p(b) => Cfg[b].multiple <= forecast(Cfg[b], Cfg[b].multiple)

\* No thread has died and none was told to stop.
Calm == \A b \in Blocks : ~interrupted[b] /\ pc[b] # "dead"

\* A block that has ended has used up its input, and nothing is added to it.
UsedUp(b, i) ==
    Finishing(b) => /\ Finishing(Writer[Ins[b][i]])
                    /\ Unread(b, i) < forecast(Cfg[b], Cfg[b].multiple)

\* An input that was found done is looked at before it can change.
SeenWhole(b, i) ==
    in_done[<<b, i>>] => /\ pc[b] \in {"inputs", "outputs", "guess", "fit"}
                         /\ Unread(b, i) = items[<<b, i>>]

DrainInv == Calm => \A b \in Blocks : \A i \in InPorts(b) : UsedUp(b, i) /\ SeenWhole(b, i)

\* What the buffers hold changes only where a thread consumes or produces.
LEMMA StepCounts ==
    ASSUME IInv, NEW b \in Blocks, Step(b) \/ Timeout(b)
    PROVE  /\ \A c \in Blocks : \A i \in InPorts(c) :
                  \/ Unread(c, i)' = Unread(c, i)
                  \/ c = b /\ pc[b] = "consume"
                  \/ Writer[Ins[c][i]] = b /\ pc[b] = "produce"
           /\ \A c \in Blocks \ {b} : \A i \in InPorts(c) :
                  in_done'[<<c, i>>] = in_done[<<c, i>>]
<1>0. TypeOK
  BY DEF IInv
<1>1. ASSUME NEW c \in Blocks, NEW i \in InPorts(c)
      PROVE  \/ Unread(c, i)' = Unread(c, i)
             \/ c = b /\ pc[b] = "consume"
             \/ Writer[Ins[c][i]] = b /\ pc[b] = "produce"
  <2>0. <<c, i>> \in Ports /\ Ins[c][i] \in Bufs
    BY Graph, PortIs
  <2>1. CASE Consume(b)
    <3>1. PICK j \in InPorts(b) : j = port[b]
      BY <2>1 DEF Consume
    <3>2. pc[b] = "consume" /\ written' = written
      BY <2>1 DEF Consume
    <3>3. c # b => read'[<<c, i>>] = read[<<c, i>>]
      BY <1>0, <2>0, <2>1, <3>1 DEF Consume, TypeOK
    <3> QED
      BY <3>2, <3>3 DEF Unread
  <2>2. CASE Produce(b)
    <3>1. PICK o \in OutPorts(b) : o = port[b]
      BY <2>2 DEF Produce, IInv, BlockInv, PortInRange
    <3>2. pc[b] = "produce" /\ read' = read /\ Writer[Outs[b][o]] = b
      BY <2>2, WriterIs DEF Produce
    <3>3. Ins[c][i] # Outs[b][o] => written'[Ins[c][i]] = written[Ins[c][i]]
      BY <1>0, <2>0, <2>2, <3>1 DEF Produce, TypeOK
    <3> QED
      BY <3>2, <3>3 DEF Unread
  <2>3. CASE ~Consume(b) /\ ~Produce(b)
    <3>1. read' = read /\ written' = written
      BY <2>3 DEF Step, Timeout, Top, SnapshotInput, SnapshotOutput, Guess, TryAgain, Work,
         Throw, SetDone, Notify, WakeOut, WakeIn, Interrupted, shared
    <3> QED
      BY <3>1 DEF Unread
  <2> QED
    BY <2>1, <2>2, <2>3
<1>2. ASSUME NEW c \in Blocks \ {b}, NEW i \in InPorts(c)
      PROVE  in_done'[<<c, i>>] = in_done[<<c, i>>]
  <2>0. <<c, i>> \in Ports /\ <<c, i>>[1] = c
    BY PortIs
  <2>1. CASE SnapshotInput(b)
    <3>1. ForgetInputs(b) \/ in_done' = [in_done EXCEPT ![<<b, port[b]>>] = done[Ins[b][port[b]]]]
      BY <2>1 DEF SnapshotInput
    <3> QED
      BY <1>0, <2>0, <3>1 DEF ForgetInputs, TypeOK
  <2>2. CASE ~SnapshotInput(b)
    <3>1. ForgetInputs(b) \/ in_done' = in_done
      BY <1>2, <2>2 DEF Step, Timeout, Top, SnapshotOutput, Guess, TryAgain, Work,
         Throw, Consume, Produce, SetDone, Notify, WakeOut, WakeIn, Interrupted, local
    <3> QED
      BY <2>0, <3>1 DEF ForgetInputs
  <2> QED
    BY <2>1, <2>2
<1> QED
  BY <1>1, <1>2

LEMMA WriterEnded ==
    ASSUME DoneInv, DrainInv, Calm, NEW buf \in Bufs, done[buf]
    PROVE  Finishing(Writer[buf])
<1>1. PICK b \in Blocks : Uses(b, buf) /\ Finishing(b)
  BY DEF DoneInv, EndedBy
<1>2. CASE b = Writer[buf]
  BY <1>1, <1>2
<1>3. CASE \E rd \in Readers[buf] : rd[1] = b
  <2>1. PICK rd \in Readers[buf] : rd[1] = b
    BY <1>3
  <2>2. rd[2] \in InPorts(b) /\ Ins[b][rd[2]] = buf
    BY <2>1, ReaderIs, PortIs
  <2> QED
    BY <1>1, <2>2 DEF DrainInv, UsedUp
<1> QED
  BY <1>1, <1>2, <1>3 DEF Uses

\* What the lemmas below show of each step of a block.
DrainsInTurn(b) ==
    \A i \in InPorts(b) :
        /\ Finishing(b)' => \/ Finishing(b)
                            \/ /\ Finishing(Writer[Ins[b][i]])
                               /\ Unread(b, i) < forecast(Cfg[b], Cfg[b].multiple)
                               /\ pc[b] # "consume"
        /\ in_done'[<<b, i>>] => /\ pc'[b] \in {"inputs", "outputs", "guess", "fit"}
                                 /\ Unread(b, i) = items'[<<b, i>>]
                                 /\ done[Ins[b][i]]
                                 /\ pc[b] # "consume"

LEMMA DrainKeeps ==
    ASSUME IInv, DoneInv, DrainInv, Calm, NEW b \in Blocks, Step(b) \/ Timeout(b),
           Framed(b), EndsInTurn(b), DrainsInTurn(b)
    PROVE  DrainInv'
<1>1. \A c \in Blocks : Finishing(c) => Finishing(c)'
  BY DEF Framed, EndsInTurn, Finishing
<1>2. SUFFICES ASSUME NEW c \in Blocks, NEW i \in InPorts(c)
               PROVE  UsedUp(c, i)' /\ SeenWhole(c, i)'
  BY DEF DrainInv
<1>3. Ins[c][i] \in Bufs /\ Writer[Ins[c][i]] \in Blocks
  BY Graph, WriterIs
<1>4. UsedUp(c, i) /\ SeenWhole(c, i)
  BY DEF DrainInv
<1>5. ASSUME Finishing(Writer[Ins[c][i]]), c # b \/ pc[b] # "consume"
      PROVE  Unread(c, i)' = Unread(c, i) /\ Finishing(Writer[Ins[c][i]])'
  <2>1. pc[Writer[Ins[c][i]]] # "produce"
    BY <1>5 DEF Finishing
  <2>2. Unread(c, i)' = Unread(c, i)
    BY <1>5, <2>1, StepCounts
  <2> QED
    BY <1>1, <1>3, <1>5, <2>2
<1>6. ASSUME Finishing(c)' PROVE UsedUp(c, i)'
  <2>1. CASE Finishing(c)
    <3>1. Finishing(Writer[Ins[c][i]]) /\ Unread(c, i) < forecast(Cfg[c], Cfg[c].multiple)
      BY <1>4, <2>1 DEF UsedUp
    <3>2. pc[c] # "consume"
      BY <2>1 DEF Finishing
    <3> QED
      BY <1>5, <3>1, <3>2 DEF UsedUp
  <2>2. CASE ~Finishing(c)
    <3>1. c = b
      BY <1>6, <2>2 DEF Framed, Finishing
    <3>2. /\ Finishing(Writer[Ins[c][i]])
          /\ Unread(c, i) < forecast(Cfg[c], Cfg[c].multiple)
          /\ pc[b] # "consume"
      BY <1>6, <2>2, <3>1 DEF DrainsInTurn
    <3> QED
      BY <1>5, <3>2 DEF UsedUp
  <2> QED
    BY <2>1, <2>2
<1>7. ASSUME in_done'[<<c, i>>] PROVE SeenWhole(c, i)'
  <2>1. CASE c # b
    <3>1. in_done[<<c, i>>] /\ pc'[c] = pc[c] /\ items'[<<c, i>>] = items[<<c, i>>]
      BY <1>7, <2>1, StepCounts DEF Framed
    <3>2. Finishing(Writer[Ins[c][i]])
      BY <1>3, <3>1, WriterEnded DEF DoneInv
    <3>3. Unread(c, i)' = Unread(c, i)
      BY <1>5, <2>1, <3>2
    <3> QED
      BY <1>4, <3>1, <3>3 DEF SeenWhole
  <2>2. CASE c = b
    <3>1. /\ pc'[b] \in {"inputs", "outputs", "guess", "fit"}
          /\ Unread(c, i) = items'[<<c, i>>] /\ done[Ins[c][i]] /\ pc[b] # "consume"
      BY <1>7, <2>2 DEF DrainsInTurn
    <3>2. Finishing(Writer[Ins[c][i]])
      BY <1>3, <3>1, WriterEnded
    <3>3. Unread(c, i)' = Unread(c, i)
      BY <1>5, <3>1, <3>2
    <3> QED
      BY <2>2, <3>1, <3>3 DEF SeenWhole
  <2> QED
    BY <2>1, <2>2
<1> QED
  BY <1>6, <1>7 DEF UsedUp, SeenWhole

\* Threads that died or were told to stop stay so.
LEMMA CalmBefore ==
    ASSUME IInv, NEW b \in Blocks, Step(b) \/ Timeout(b), Framed(b), Calm'
    PROVE  Calm /\ ~Throw(b) /\ ~Interrupted(b)
<1>0. TypeOK
  BY DEF IInv
<1>1. interrupted' = interrupted
  BY DEF Step, Timeout, Top, SnapshotInput, SnapshotOutput, Guess, TryAgain, Work, Throw, Consume,
     Produce, SetDone, Notify, WakeOut, WakeIn, Interrupted, shared
<1>2. pc[b] # "dead"
  BY DEF Step, Timeout, Top, SnapshotInput, SnapshotOutput, Guess, TryAgain, Work, Throw, Consume,
     Produce, SetDone, Notify, WakeOut, WakeIn, Interrupted, Interruptible
<1>3. Calm
  BY <1>1, <1>2 DEF Calm, Framed
<1>4. ~Throw(b)
  BY <1>0 DEF Throw, Goto, TypeOK, Calm
<1>5. ~Interrupted(b)
  BY <1>3 DEF Interrupted, Calm
<1> QED
  BY <1>3, <1>4, <1>5

LEMMA SnapshotInputDrains ==
    ASSUME SinkRates, OnlySourcesEnd, IInv, DoneInv, DrainInv, Calm, NEW b \in Blocks, SnapshotInput(b)
    PROVE  DrainsInTurn(b)
<1> DEFINE i == port[b]
<1>1. /\ TypeOK /\ pc[b] = "inputs" /\ i \in InPorts(b) /\ Ins[b][i] \in Bufs /\ <<b, i>> \in Ports
      /\ ~Finishing(b)
  BY Graph, PortIs DEF SnapshotInput, IInv, Finishing
<1>2. InPorts(b) = {i} /\ i = 1 /\ Len(Ins[b]) = 1
  <2> DEFINE l == Len(Ins[b])
  <2>1. l <= 1 /\ l \in Nat /\ InPorts(b) = 1 .. l /\ i \in 1 .. l
    BY <1>1, Graph DEF OnlySourcesEnd, InPorts
  <2> HIDE DEF l, i
  <2>2. l = 1 /\ i = 1
    BY <2>1
  <2>3. 1 .. l = {i}
    BY <2>2
  <2> QED
    BY <2>1, <2>2, <2>3 DEF l
<1>3. CASE sink_p(b) /\ Exhausted(b, Unread(b, i), done[Ins[b][i]])
  <2>1. done[Ins[b][i]] /\ Unread(b, i) < Cfg[b].multiple
    BY <1>3 DEF Exhausted
  <2>2. Finishing(Writer[Ins[b][i]])
    BY <1>1, <2>1, WriterEnded
  <2>3. Unread(b, i) < forecast(Cfg[b], Cfg[b].multiple)
    <3>1. Unread(b, i) \in Int /\ Cfg[b].multiple \in Nat
      BY <1>1, Counts, Graph, ConfigFields
    <3>2. Cfg[b].multiple <= forecast(Cfg[b], Cfg[b].multiple)
      BY <1>3 DEF SinkRates
    <3>3. forecast(Cfg[b], Cfg[b].multiple) \in Nat
      <4>1. Cfg[b] \in BlockConfig /\ Cfg[b].multiple <= Cfg[b].multiple
        BY <3>1, Graph
      <4> QED
        BY <3>1, <4>1, ForecastCovers
    <3> DEFINE f == forecast(Cfg[b], Cfg[b].multiple)
               u == Unread(b, i)
    <3>4. f \in Nat /\ u \in Int /\ u < Cfg[b].multiple /\ Cfg[b].multiple <= f
      BY <2>1, <3>1, <3>2, <3>3
    <3> HIDE DEF f, u
    <3>5. u < f
      BY <3>1, <3>4
    <3> QED
      BY <3>5 DEF f, u
  <2>4. ~in_done'[<<b, i>>]
    BY <1>1, <1>3 DEF SnapshotInput, ForgetInputs
  <2> QED
    BY <1>1, <1>2, <2>2, <2>3, <2>4 DEF DrainsInTurn
<1>4. CASE ~(sink_p(b) /\ Exhausted(b, Unread(b, i), done[Ins[b][i]]))
  <2>1. /\ items' = [items EXCEPT ![<<b, i>>] = Unread(b, i)]
        /\ in_done' = [in_done EXCEPT ![<<b, i>>] = done[Ins[b][i]]]
        /\ pc' = [pc EXCEPT ![b] = IF i < Len(Ins[b]) THEN "inputs"
                                   ELSE IF sink_p(b) THEN "guess" ELSE "outputs"]
    BY <1>4 DEF SnapshotInput, Goto
  <2>2. pc'[b] \in {"inputs", "guess", "outputs"}
    BY <1>1, <2>1 DEF TypeOK
  <2>3. items'[<<b, i>>] = Unread(b, i) /\ in_done'[<<b, i>>] = done[Ins[b][i]]
    BY <1>1, <2>1 DEF TypeOK
  <2> QED
    BY <1>1, <1>2, <2>2, <2>3 DEF DrainsInTurn, Finishing
<1> QED
  BY <1>3, <1>4

LEMMA SnapshotOutputDrains ==
    ASSUME OnlySourcesEnd, IInv, DoneInv, DrainInv, Calm, NEW b \in Blocks, SnapshotOutput(b)
    PROVE  DrainsInTurn(b)
<1> DEFINE o   == port[b]
           buf == Outs[b][o]
<1>1. TypeOK /\ pc[b] = "outputs" /\ o \in OutPorts(b) /\ buf \in Bufs /\ ~Finishing(b)
  BY Graph DEF SnapshotOutput, IInv, Finishing
<1>2. ~done[buf]
  BY <1>1, WriterIs, WriterEnded
<1>3. /\ ~Finishing(b)'
      /\ \/ ForgetInputs(b)
         \/ UNCHANGED <<items, in_done>> /\ (pc'[b] \in {"outputs", "fit"} \/ source_p(b))
  BY <1>1, <1>2 DEF SnapshotOutput, Goto, TypeOK, Finishing
<1>4. ASSUME NEW i \in InPorts(b), in_done'[<<b, i>>]
      PROVE  /\ pc'[b] \in {"outputs", "fit"} /\ Unread(b, i) = items'[<<b, i>>]
             /\ done[Ins[b][i]]
  <2>1. ~source_p(b) /\ <<b, i>> \in Ports
    BY PortIs, Graph DEF source_p, InPorts
  <2>2. ~ForgetInputs(b)
    BY <1>4, <2>1 DEF ForgetInputs
  <2> QED
    BY <1>3, <1>4, <2>1, <2>2 DEF DrainInv, SeenWhole, DoneInv
<1> QED
  BY <1>1, <1>3, <1>4 DEF DrainsInTurn

LEMMA TryAgainDrains ==
    ASSUME RoomForOne, InputsFit, OnlySourcesEnd, IInv, DoneInv, DrainInv, Calm,
           NEW b \in Blocks, TryAgain(b)
    PROVE  DrainsInTurn(b)
<1>1. PICK m \in {items[<<b, i>>] : i \in InPorts(b)} : TryAgain(b)!(m)
  BY DEF TryAgain
<1> DEFINE c     == Cfg[b]
           n     == Pass(c, off[b], m, noutput[b]).n
           short == ShortInput(b, n)
           fed   == \A i \in InPorts(b) : forecast(c, n) <= items[<<b, i>>]
<1>2. TypeOK /\ pc[b] = "fit" /\ ~Finishing(b)
  BY <1>1 DEF IInv, Finishing
<1>3. /\ UNCHANGED <<items, in_done, pc>> \/ ForgetInputs(b)
      /\ Finishing(b)' => ~fed /\ ~(n > c.multiple)
                            /\ (in_done[<<b, short>>] \/ forecast(c, n) > Size[Ins[b][short]] - 1)
  BY <1>1, <1>2 DEF Goto, TypeOK, Finishing
<1>4. ASSUME NEW i \in InPorts(b), Finishing(b)'
      PROVE  /\ Finishing(Writer[Ins[b][i]])
             /\ Unread(b, i) < forecast(c, c.multiple)
  <2>1. /\ short \in InPorts(b)
        /\ items[<<b, short>>] < forecast(c, n)
        /\ forecast(c, n) <= forecast(c, c.multiple)
        /\ forecast(c, n) \in Nat /\ forecast(c, c.multiple) \in Nat
    <3>1. n = Pass(c, off[b], m, noutput[b]).n
      OBVIOUS
    <3> HIDE DEF n
    <3> QED
      BY <1>2, <1>3, <1>4, <3>1, ShortIs
  <2>2. short = i
    <3> DEFINE l == Len(Ins[b])
    <3>1. l <= 1 /\ l \in Nat /\ InPorts(b) = 1 .. l
      BY Graph DEF OnlySourcesEnd, InPorts
    <3> HIDE DEF l, short
    <3> QED
      BY <2>1, <3>1
  <2>3. Ins[b][i] \in Bufs /\ <<b, i>> \in Ports
    BY Graph, PortIs
  <2>4. in_done[<<b, i>>]
    <3>1. forecast(c, c.multiple) <= Size[Ins[b][i]] - 1 /\ Size[Ins[b][i]] \in Nat
      BY <2>3, Sizes DEF InputsFit
    <3> HIDE DEF n
    <3> QED
      BY <1>3, <1>4, <2>1, <2>2, <3>1
  <2>5. Unread(b, i) = items[<<b, i>>] /\ done[Ins[b][i]]
    BY <2>4 DEF DrainInv, SeenWhole, DoneInv
  <2>6. items[<<b, i>>] \in Nat
    BY <1>2, <2>3 DEF TypeOK
  <2>7. Finishing(Writer[Ins[b][i]])
    BY <2>3, <2>5, WriterEnded
  <2>8. Unread(b, i) < forecast(c, c.multiple)
    <3> HIDE DEF n, c
    <3> QED
      BY <2>1, <2>2, <2>5, <2>6
  <2> QED
    BY <2>7, <2>8
<1>5. ASSUME NEW i \in InPorts(b), in_done'[<<b, i>>]
      PROVE  pc'[b] = "fit" /\ Unread(b, i) = items'[<<b, i>>] /\ done[Ins[b][i]]
  <2>1. <<b, i>> \in Ports
    BY PortIs
  <2>2. UNCHANGED <<items, in_done, pc>>
    BY <1>3, <1>5, <2>1 DEF ForgetInputs
  <2> QED
    BY <1>2, <1>5, <2>2 DEF DrainInv, SeenWhole, DoneInv
<1> QED
  BY <1>2, <1>4, <1>5 DEF DrainsInTurn

LEMMA GuessDrains ==
    ASSUME IInv, DoneInv, DrainInv, Calm, NEW b \in Blocks, Guess(b)
    PROVE  DrainsInTurn(b)
<1>1. TypeOK /\ pc[b] = "guess"
  BY DEF IInv, Guess
<1>2. ~Finishing(b)' /\ (ForgetInputs(b) \/ (UNCHANGED <<items, in_done>> /\ pc'[b] = "fit"))
  BY <1>1 DEF Guess, Goto, TypeOK, Finishing
<1>3. ASSUME NEW i \in InPorts(b), in_done'[<<b, i>>]
      PROVE  pc'[b] = "fit" /\ Unread(b, i) = items'[<<b, i>>] /\ done[Ins[b][i]]
  <2>1. <<b, i>> \in Ports
    BY PortIs
  <2>2. UNCHANGED <<items, in_done>> /\ pc'[b] = "fit"
    BY <1>2, <1>3, <2>1 DEF ForgetInputs
  <2> QED
    BY <1>3, <2>2 DEF DrainInv, SeenWhole, DoneInv
<1> QED
  BY <1>1, <1>2, <1>3 DEF DrainsInTurn

\* Away from where the inputs are looked at, none is held to be done.
LEMMA AwayDrains ==
    ASSUME OnlySourcesEnd, IInv, DoneInv, DrainInv, Calm, NEW b \in Blocks,
           \/ Top(b) \/ Work(b) \/ Consume(b) \/ Produce(b) \/ SetDone(b) \/ Notify(b)
           \/ WakeOut(b) \/ WakeIn(b) \/ Timeout(b)
    PROVE  DrainsInTurn(b)
<1>0. TypeOK
  BY DEF IInv
<1>1. in_done' = in_done /\ pc[b] \notin {"inputs", "outputs", "guess", "fit"}
  BY DEF Top, Work, Consume, Produce, SetDone, Notify, WakeOut, WakeIn, Timeout, local
<1>2. ASSUME NEW i \in InPorts(b) PROVE ~in_done'[<<b, i>>]
  BY <1>1 DEF DrainInv, SeenWhole
<1>3. ASSUME NEW i \in InPorts(b), Finishing(b)' PROVE Finishing(b)
  <2>1. ~Work(b)
    <3>1. ~source_p(b)
      BY Graph DEF source_p, InPorts
    <3>2. Quota[b] = -1
      BY <3>1 DEF OnlySourcesEnd
    <3> QED
      BY <1>3, <3>2, WorkInTurn
  <2>2. CASE Top(b)
    BY <1>0, <1>3, <2>2 DEF Top, Goto, TypeOK, Finishing
  <2>3. CASE Consume(b)
    BY <1>0, <1>3, <2>3 DEF Consume, Ready, Goto, TypeOK, Finishing
  <2>4. CASE Produce(b)
    BY <1>0, <1>3, <2>4 DEF Produce, Ready, Goto, TypeOK, Finishing
  <2>5. CASE SetDone(b)
    BY <2>5 DEF SetDone, Finishing
  <2>6. CASE Notify(b)
    BY <1>0, <1>3, <2>6 DEF Notify, Goto, TypeOK, Finishing
  <2>7. CASE WakeOut(b) \/ WakeIn(b) \/ Timeout(b)
    BY <1>0, <1>3, <2>7 DEF WakeOut, WakeIn, Timeout, Goto, TypeOK, Finishing
  <2> QED
    BY <2>1, <2>2, <2>3, <2>4, <2>5, <2>6, <2>7
<1> QED
  BY <1>2, <1>3 DEF DrainsInTurn

LEMMA NextDrain ==
    ASSUME RoomForOne, InputsFit, OnlySourcesEnd, SinkRates,
           IInv, DoneInv, DrainInv, [Next]_vars
    PROVE  DoneInv' /\ DrainInv'
<1>1. ASSUME NEW b \in Blocks, Step(b) \/ Timeout(b)
      PROVE  DoneInv' /\ DrainInv'
  <2>1. Framed(b) /\ EndsInTurn(b)
    BY <1>1, StepKept, StepInTurn DEF Kept
  <2>2. DoneInv'
    BY <2>1, InTurnKeeps
  <2>3. ASSUME Calm' PROVE DrainInv'
    <3>1. Calm /\ ~Throw(b) /\ ~Interrupted(b)
      BY <1>1, <2>1, <2>3, CalmBefore
    <3>2. DrainsInTurn(b)
      BY <1>1, <3>1, SnapshotInputDrains, SnapshotOutputDrains, TryAgainDrains, GuessDrains,
         AwayDrains DEF Step
    <3> QED
      BY <1>1, <2>1, <3>1, <3>2, DrainKeeps
  <2>4. ~Calm' => DrainInv'
    BY DEF DrainInv
  <2> QED
    BY <2>2, <2>3, <2>4
<1>2. ASSUME UNCHANGED <<local, read, written, done>>,
             \A b \in Blocks : pc[b] = "barrier" \/ pc'[b] = pc[b],
             \A b \in Blocks : Finishing(b)' <=> Finishing(b),
             \A b \in Blocks : (pc'[b] = "set_done") = (pc[b] = "set_done"),
             Calm' => Calm
      PROVE  DoneInv' /\ DrainInv'
  <2>1. DoneInv'
    BY <1>2, ShelteredDone
  <2>2. ASSUME Calm', NEW b \in Blocks, NEW i \in InPorts(b)
        PROVE  UsedUp(b, i)' /\ SeenWhole(b, i)'
    <3>1. UsedUp(b, i) /\ SeenWhole(b, i)
      BY <1>2, <2>2 DEF DrainInv
    <3>2. Unread(b, i)' = Unread(b, i) /\ items' = items /\ in_done' = in_done
      BY <1>2 DEF Unread, local
    <3>3. Writer[Ins[b][i]] \in Blocks
      BY WriterIs
    <3>4. UsedUp(b, i)'
      BY <1>2, <3>1, <3>2, <3>3 DEF UsedUp
    <3>5. SeenWhole(b, i)'
      BY <1>2, <3>1, <3>2 DEF SeenWhole
    <3> QED
      BY <3>4, <3>5
  <2> QED
    BY <2>1, <2>2 DEF DrainInv
<1>3. CASE Barrier
  BY <1>2, <1>3 DEF Barrier, shared, IInv, TypeOK, Finishing, Calm
<1>4. CASE Stop
  BY <1>2, <1>4 DEF Stop, Finishing, Calm
<1>5. CASE UNCHANGED vars
  BY <1>2, <1>5 DEF vars, shared, Finishing, Calm
<1> QED
  BY <1>1, <1>3, <1>4, <1>5 DEF Next

LEMMA EndsDrained == DrainInv => Drained
<1> SUFFICES ASSUME DrainInv, \A b \in Blocks : pc[b] = "exit" /\ ~interrupted[b],
                    NEW b \in Blocks, NEW i \in InPorts(b)
             PROVE  Unread(b, i) < forecast(Cfg[b], Cfg[b].multiple)
  BY DEF Drained
<1> QED
  BY DEF DrainInv, Calm, UsedUp, Finishing

(* When every thread has ended by itself, no reader has left items behind    *)
(* that it could still have used: whatever the rates, the multiples and the  *)
(* histories, in any tree of blocks whose sources alone end by themselves    *)
(* and whose inputs hold what one output multiple takes.                     *)
THEOREM AlwaysDrained ==
    ASSUME RoomForOne, InputsFit, OnlySourcesEnd, SinkRates PROVE Spec => []Drained
<1>1. Init => DoneInv /\ DrainInv
  <2>1. Init => \A b \in Blocks : pc[b] = "barrier" /\ \A i \in InPorts(b) : ~in_done[<<b, i>>]
    BY PortIs DEF Init
  <2> QED
    BY <2>1, InitDone DEF DrainInv, UsedUp, SeenWhole, Finishing
<1>2. IInv /\ DoneInv /\ DrainInv /\ [Next]_vars => DoneInv' /\ DrainInv'
  BY NextDrain
<1>3. Spec => []IInv
  BY Invariance
<1> QED
  BY <1>1, <1>2, <1>3, EndsDrained, PTL DEF Spec
=============================================================================
