--------------------------- MODULE NumericProofs ---------------------------
(***************************************************************************)
(* Proofs about the pure routines of Numeric and Limbs: fixed-point        *)
(* multiplication, division and conversion, the decimal parser and         *)
(* Display, and the arithmetic of limbs, for every width of a word, every  *)
(* scale and texts of every length.                                        *)
(*                                                                         *)
(* A state is one call's operands, so the invariants are facts about the   *)
(* routines.  They rest on long division in two halves (HalvesExact), the  *)
(* invariant of the parser's scan over the prefixes of a text (Scanned),   *)
(* and the words of a wide sum (ThreeLimbs).                               *)
(***************************************************************************)
EXTENDS Numeric, Limbs, NumberLemmas, SequenceTheorems

-----------------------------------------------------------------------------
(* Words and powers *)

\* Every scale has the same word and the same powers.
LEMMA OneWord ==
    ASSUME NEW D
    PROVE  /\ Fixed(D)!Pow2 = Ticks!Pow2 /\ Fixed(D)!Pow10 = Ticks!Pow10
           /\ Fixed(D)!Modulus = Ticks!Modulus /\ Fixed(D)!MIN = Ticks!MIN
           /\ Fixed(D)!MAX = Ticks!MAX /\ Fixed(D)!Raw = Ticks!Raw
           /\ Fixed(D)!SCALE = Ticks!Pow10[D]
  <1>1. Fixed(D)!Pow2 = Ticks!Pow2
    BY DEF Fixed!Pow2, Ticks!Pow2
  <1>2. Fixed(D)!Pow10 = Ticks!Pow10
    BY DEF Fixed!Pow10, Ticks!Pow10
  <1> QED BY <1>1, <1>2 DEF Fixed!Modulus, Fixed!MIN, Fixed!MAX, Fixed!Raw, Fixed!SCALE,
             Ticks!Modulus, Ticks!MIN, Ticks!MAX, Ticks!Raw

\* The recursive definitions are those of the powers.
LEMMA TwoTen == IsPower(Ticks!Pow2, 2) /\ IsPower(Ticks!Pow10, 10)
  <1>1. \E g : IsPower(g, 2)
    BY PowerExists
  <1>2. \E g : IsPower(g, 10)
    BY PowerExists
  <1> QED BY <1>1, <1>2 DEF IsPower, Ticks!Pow2, Ticks!Pow10

\* Each power of ten from the one before.
LEMMA TensStep ==
    /\ Ticks!Pow10[0] = 1
    /\ \A k \in Nat : /\ Ticks!Pow10[k] \in Nat \ {0} /\ Ticks!Pow10[k] \in Int
                      /\ Ticks!Pow10[k + 1] = 10 * Ticks!Pow10[k]
  <1> DEFINE g == Ticks!Pow10
  <1>1. IsPower(g, 10)
    BY TwoTen
  <1> SUFFICES /\ g[0] = 1
               /\ \A k \in Nat : g[k] \in Nat \ {0} /\ g[k] \in Int /\ g[k + 1] = 10 * g[k]
    OBVIOUS
  <1> HIDE DEF g
  <1> QED BY <1>1, PowerStep, PowerPositive

\* Powers of ten.
LEMMA Tens ==
    /\ Ticks!Pow10[0] = 1
    /\ \A k \in Nat : Ticks!Pow10[k] \in Nat \ {0} /\ Ticks!Pow10[k + 1] = 10 * Ticks!Pow10[k]
    /\ \A j, k \in Nat : Ticks!Pow10[j + k] = Ticks!Pow10[j] * Ticks!Pow10[k]
    /\ \A j, k \in Nat : j <= k => Ticks!Pow10[j] <= Ticks!Pow10[k]
    /\ \A j, k \in Nat : j < k => 10 * Ticks!Pow10[j] <= Ticks!Pow10[k]
  <1> DEFINE g == Ticks!Pow10
  <1>1. IsPower(g, 10)
    BY TwoTen
  <1> SUFFICES
        /\ g[0] = 1
        /\ \A k \in Nat : g[k] \in Nat \ {0} /\ g[k + 1] = 10 * g[k]
        /\ \A j, k \in Nat : g[j + k] = g[j] * g[k]
        /\ \A j, k \in Nat : j <= k => g[j] <= g[k]
        /\ \A j, k \in Nat : j < k => 10 * g[j] <= g[k]
    OBVIOUS
  <1> HIDE DEF g
  <1>2. g[0] = 1 /\ \A k \in Nat : g[k + 1] = 10 * g[k]
    BY <1>1, PowerStep
  <1>3. \A k \in Nat : g[k] \in Nat \ {0}
    BY <1>1, PowerPositive
  <1>4. ASSUME NEW j \in Nat PROVE \A k \in Nat : g[j + k] = g[j] * g[k]
    BY <1>1, PowerSum
  <1>5. ASSUME NEW j \in Nat, NEW k \in Nat
        PROVE  (j <= k => g[j] <= g[k]) /\ (j < k => 10 * g[j] <= g[k])
    BY <1>1, PowerLess
  <1> QED BY <1>2, <1>3, <1>4, <1>5

\* A word is two halves, or twice the numbers that are not negative.
LEMMA WordFacts ==
    /\ Ticks!Pow2[Bits \div 2] \in Nat \ {0}
    /\ Ticks!Modulus = Ticks!Pow2[Bits \div 2] * Ticks!Pow2[Bits \div 2]
    /\ Ticks!Modulus \in Nat \ {0} /\ Ticks!Modulus = 2 * (Ticks!MAX + 1)
    /\ Ticks!MAX \in Nat /\ Ticks!MIN = -(Ticks!MAX + 1) /\ Ticks!MIN \in Int
    /\ \A x : x \in Ticks!Raw <=> x \in Int /\ Ticks!MIN <= x /\ x <= Ticks!MAX
  <1> DEFINE g == Ticks!Pow2
  <1>1. IsPower(g, 2)
    BY TwoTen
  <1> HIDE DEF g
  <1>2. \A k \in Nat : g[k] \in Nat \ {0}
    BY <1>1, PowerPositive
  <1>3. /\ Bits \in Nat /\ Bits - 1 \in Nat /\ Bits \div 2 \in Nat
        /\ (Bits - 1) + 1 = Bits /\ (Bits \div 2) + (Bits \div 2) = Bits
    BY NumericAssumption
  <1>4. g[Bits] = 2 * g[Bits - 1]
    BY <1>1, <1>3, PowerStep
  <1>5. ASSUME NEW j \in Nat PROVE \A k \in Nat : g[j + k] = g[j] * g[k]
    BY <1>1, PowerSum
  <1>6. g[Bits] = g[Bits \div 2] * g[Bits \div 2]
    BY <1>3, <1>5
  <1>7. g[Bits] \in Nat \ {0} /\ g[Bits - 1] \in Nat \ {0} /\ g[Bits \div 2] \in Nat \ {0}
    BY <1>2, <1>3
  <1>8. Ticks!Modulus = g[Bits] /\ Ticks!MAX = g[Bits - 1] - 1 /\ Ticks!MIN = -g[Bits - 1]
    BY DEF Ticks!Modulus, Ticks!MAX, Ticks!MIN, g
  <1>9. \A x : x \in Ticks!Raw <=> x \in Int /\ Ticks!MIN <= x /\ x <= Ticks!MAX
    BY <1>7, <1>8 DEF Ticks!Raw
  <1>10. Ticks!Pow2 = g
    BY DEF g
  <1> QED BY <1>4, <1>6, <1>7, <1>8, <1>9, <1>10

-----------------------------------------------------------------------------
(* Multiplication and division *)

\* One digit of a long division in base H: a remainder below d and a digit
\* below H give a quotient below H.
LEMMA LongDivision ==
    ASSUME NEW d \in Nat \ {0}, NEW H \in Nat \ {0}, NEW r \in Nat, r < d, NEW u \in Nat, u < H
    PROVE  /\ r * H + u \in Nat /\ r * H + u < d * H
           /\ (r * H + u) \div d \in Nat /\ (r * H + u) \div d < H
           /\ ((r * H + u) \div d) * H \in Nat /\ ((r * H + u) \div d) * H < H * H
  <1> DEFINE m == r * H + u
             q == m \div d
  <1>1. m \in Nat /\ m < d * H
    <2>1. PICK k \in Nat : d = r + 1 + k
      <3>1. d - (r + 1) \in Nat /\ d = r + 1 + (d - (r + 1))
        OBVIOUS
      <3> QED BY <3>1
    <2>2. d * H = r * H + H + k * H /\ k * H >= 0 /\ r * H \in Nat /\ k * H \in Nat
      BY <2>1, SMT
    <2> DEFINE a == r * H
               b == k * H
               c == d * H
    <2>3. c = a + H + b /\ a \in Nat /\ b \in Nat
      BY <2>2
    <2> HIDE DEF a, b, c
    <2>4. a + u \in Nat /\ a + u < c
      BY <2>3
    <2> QED BY <2>4 DEF a, b, c
  <1> HIDE DEF m
  <1>2. q \in Nat /\ d * q <= m
    BY <1>1, Division
  <1> HIDE DEF q
  <1>3. q < H
    <2>1. d * q < d * ((H - 1) + 1)
      BY <1>1, <1>2, SMT
    <2>2. H - 1 \in Nat
      OBVIOUS
    <2>3. q <= H - 1
      BY <1>2, <2>1, <2>2, FactorCancels
    <2> QED BY <1>2, <2>3
  <1>4. q * H \in Nat /\ q * H < H * H
    <2>1. PICK k \in Nat : H = q + 1 + k
      <3>1. H - (q + 1) \in Nat /\ H = q + 1 + (H - (q + 1))
        BY <1>2, <1>3
      <3> QED BY <3>1
    <2>2. H * H = q * H + H + k * H /\ k * H >= 0 /\ q * H \in Nat
      BY <1>2, <2>1, SMT
    <2> QED BY <2>2, SMT
  <1> QED BY <1>1, <1>2, <1>3, <1>4 DEF m, q

\* div_u128_by_u64 is exact: its two quotient words are the quotient, and the
\* halves of the low one do not overlap.
LEMMA HalvesExact ==
    ASSUME NEW D, NEW hi \in Nat, NEW lo \in Nat, lo < Ticks!Modulus, NEW d \in Nat \ {0}
    PROVE  LET q == Fixed(D)!DivHalves(hi, lo, d)
           IN  /\ q.q_hi * Ticks!Modulus + q.q_lo = (hi * Ticks!Modulus + lo) \div d
               /\ q.q_hi \in Nat /\ q.q_lo \in Nat
  <1> DEFINE H == Ticks!Pow2[Bits \div 2]
             M == Ticks!Modulus
             qh == hi \div d
             r == hi % d
             u == lo \div H
             l == lo % H
             mid == r * H + u
             qm == mid \div d
             rm == mid % d
             low == rm * H + l
             ql == low \div d
             rl == low % d
  <1>1. H \in Nat \ {0} /\ M = H * H /\ M \in Nat \ {0}
    BY WordFacts
  <1>2. Fixed(D)!DivHalves(hi, lo, d) =
          [q_hi |-> qh, q_lo |-> ((qm * H) % M) + ql, rem |-> rl]
    BY OneWord DEF Fixed!DivHalves
  <1> SUFFICES qh * M + (((qm * H) % M) + ql) = (hi * M + lo) \div d
               /\ qh \in Nat /\ ((qm * H) % M) + ql \in Nat
    BY <1>2
  <1> HIDE DEF H, M
  <1>3. hi = d * qh + r /\ r \in Nat /\ r < d /\ qh \in Nat
    BY DivModNat
  <1> HIDE DEF qh, r
  <1>4. lo = H * u + l /\ l \in Nat /\ l < H /\ u \in Nat
    BY <1>1, DivModNat
  <1> HIDE DEF u, l
  <1>5. u < H
    <2>1. H * u < H * ((H - 1) + 1)
      <3>1. lo < H * H /\ (H - 1) + 1 = H
        BY <1>1 DEF M
      <3>2. H * u <= lo /\ H * u \in Int
        BY <1>1, <1>4, SMT
      <3> QED BY <1>1, <3>1, <3>2, SMT
    <2>2. H - 1 \in Nat
      BY <1>1
    <2>3. u <= H - 1
      BY <1>1, <1>4, <2>1, <2>2, FactorCancels
    <2> QED BY <1>1, <1>4, <2>3
  <1>6. mid \in Nat /\ qm \in Nat /\ qm < H /\ qm * H \in Nat /\ qm * H < M
    BY <1>1, <1>3, <1>4, <1>5, LongDivision
  <1>7. mid = d * qm + rm /\ rm \in Nat /\ rm < d
    BY <1>6, DivModNat
  <1> HIDE DEF qm, rm
  <1>8. low \in Nat /\ ql \in Nat /\ ql < H
    BY <1>1, <1>4, <1>7, LongDivision
  <1>9. low = d * ql + rl /\ rl \in Nat /\ rl < d
    BY <1>8, DivModNat
  <1> HIDE DEF ql, rl
  <1>10. (qm * H) % M = qm * H
    BY <1>1, <1>6
  <1>11. hi * M + lo = d * (qh * M + (qm * H + ql)) + rl
    <2>1. hi * M = d * (qh * M) + (r * H) * H
      BY <1>1, <1>3, SMT
    <2>2. (r * H) * H + H * u = d * (qm * H) + rm * H
      <3>1. (r * H) * H + H * u = mid * H
        BY <1>1, <1>3, <1>4, SMT
      <3>2. mid * H = d * (qm * H) + rm * H
        <4> HIDE DEF mid
        <4> QED BY <1>1, <1>6, <1>7, SMT
      <3> QED BY <3>1, <3>2
    <2>3. rm * H + l = d * ql + rl
      BY <1>9
    <2>4. d * (qh * M + (qm * H + ql)) = d * (qh * M) + d * (qm * H) + d * ql
      BY <1>1, <1>3, <1>6, <1>8, SMT
    <2> DEFINE a == d * (qh * M)
               b == d * (qm * H)
               c == d * ql
               e == rm * H
               f == (r * H) * H
               g == H * u
               s == hi * M
    <2>5. a \in Int /\ b \in Int /\ c \in Int /\ e \in Int /\ f \in Int /\ g \in Int /\ s \in Int
      BY <1>1, <1>3, <1>4, <1>6, <1>7, <1>8, SMT
    <2>6. s = a + f /\ f + g = b + e /\ e + l = c + rl /\ lo = g + l
      BY <1>4, <2>1, <2>2, <2>3
    <2> HIDE DEF a, b, c, e, f, g, s
    <2>7. s + lo = a + b + c + rl
      BY <1>4, <1>9, <2>5, <2>6
    <2> QED BY <2>4, <2>7 DEF a, b, c, s
  <1>12. qh * M + (qm * H + ql) \in Nat /\ hi * M + lo \in Nat
    BY <1>1, <1>3, <1>6, <1>8, SMT
  <1>13. (hi * M + lo) \div d = qh * M + (qm * H + ql)
    BY <1>9, <1>11, <1>12, QuotientIs
  <1> QED BY <1>3, <1>6, <1>8, <1>10, <1>13

\* Magnitudes are natural numbers.
LEMMA MagnitudeFacts ==
    ASSUME NEW n \in Int
    PROVE  /\ Magnitude(n) \in Nat /\ (n # 0 => Magnitude(n) \in Nat \ {0})
           /\ Magnitude(-n) = Magnitude(n)
  BY DEF Magnitude

\* The reference quotients with the sign written out.
LEMMA SignedQuotient ==
    ASSUME NEW n \in Int, NEW d \in Int \ {0}
    PROVE  LET q == Magnitude(n) \div Magnitude(d)
               h == (2 * Magnitude(n) + Magnitude(d)) \div (2 * Magnitude(d))
           IN  /\ q \in Nat /\ h \in Nat
               /\ Truncated(n, d) = IF (n < 0) = (d < 0) THEN q ELSE -q
               /\ Nearest(n, d) = IF (n < 0) = (d < 0) THEN h ELSE -h
  <1> DEFINE q == Magnitude(n) \div Magnitude(d)
             h == (2 * Magnitude(n) + Magnitude(d)) \div (2 * Magnitude(d))
  <1>1. Magnitude(n) \in Nat /\ Magnitude(d) \in Nat \ {0}
    BY MagnitudeFacts
  <1>2. 2 * Magnitude(n) + Magnitude(d) \in Nat /\ 2 * Magnitude(d) \in Nat \ {0}
    BY <1>1
  <1>3. q \in Nat /\ h \in Nat
    BY <1>1, <1>2, Division
  <1>4. Truncated(n, d) = SignOf(n, d) * q /\ Nearest(n, d) = SignOf(n, d) * h
    BY DEF Truncated, Nearest
  <1> HIDE DEF q, h
  <1>5. \A x \in Nat : 1 * x = x /\ (-1) * x = -x
    BY SMT
  <1>6. SignOf(n, d) = IF (n < 0) = (d < 0) THEN 1 ELSE -1
    BY DEF SignOf
  <1>7. /\ Truncated(n, d) = IF (n < 0) = (d < 0) THEN q ELSE -q
        /\ Nearest(n, d) = IF (n < 0) = (d < 0) THEN h ELSE -h
    BY <1>3, <1>4, <1>5, <1>6
  <1> QED BY <1>3, <1>7 DEF q, h

\* The same for a positive divisor.
LEMMA PositiveDivisor ==
    ASSUME NEW n \in Int, NEW d \in Nat \ {0}
    PROVE  LET q == Magnitude(n) \div d
               h == (2 * Magnitude(n) + d) \div (2 * d)
           IN  /\ q \in Nat /\ h \in Nat
               /\ Truncated(n, d) = IF n < 0 THEN -q ELSE q
               /\ Nearest(n, d) = IF n < 0 THEN -h ELSE h
  <1>1. Magnitude(d) = d /\ d \in Int \ {0} /\ ((n < 0) = (d < 0) <=> ~(n < 0))
    BY DEF Magnitude
  <1> QED BY ZenonT(30), <1>1, SignedQuotient

\* The division of Rust truncates.
LEMMA QuotTruncates ==
    ASSUME NEW D, NEW n \in Int, NEW d \in Int \ {0}
    PROVE  Fixed(D)!Quot(n, d) = Truncated(n, d)
  <1>1. Fixed(D)!AbsOf(n) = Magnitude(n) /\ Fixed(D)!AbsOf(d) = Magnitude(d)
    BY DEF Fixed!AbsOf, Magnitude
  <1>2. Fixed(D)!Quot(n, d) = IF (n < 0) = (d < 0) THEN Magnitude(n) \div Magnitude(d)
                              ELSE -(Magnitude(n) \div Magnitude(d))
    BY <1>1 DEF Fixed!Quot
  <1> QED BY <1>2, SignedQuotient

\* div_wide_by_const truncates: the two words of the absolute value are right,
\* the carry of the low one included.
LEMMA WideTruncates ==
    ASSUME NEW D, NEW wide \in Int, NEW d \in Nat \ {0}
    PROVE  Fixed(D)!DivWide(wide, d) = Truncated(wide, d)
  <1> DEFINE M == Ticks!Modulus
             hi == wide \div M
             lo == wide % M
             negative == hi < 0
             abs_lo == IF negative THEN (-lo) % M ELSE lo
             abs_hi == IF negative THEN -hi - 1 + (IF lo = 0 THEN 1 ELSE 0) ELSE hi
             q == Fixed(D)!DivHalves(abs_hi, abs_lo, d)
             quot == q.q_hi * M + q.q_lo
  <1>1. M \in Nat \ {0}
    BY WordFacts
  <1>2. Fixed(D)!DivWide(wide, d) = IF negative THEN -quot ELSE quot
    BY OneWord DEF Fixed!DivWide
  <1>3. wide = M * hi + lo /\ lo \in 0 .. M - 1 /\ hi \in Int
    BY <1>1, DivMod
  <1> SUFFICES (IF negative THEN -quot ELSE quot) = Truncated(wide, d)
    BY <1>2
  <1> HIDE DEF M, hi, lo
  <1>4. negative <=> wide < 0
    <2>1. hi >= 0 => M * hi >= 0
      BY <1>1, <1>3, SMT
    <2>2. hi < 0 => M * hi <= -M
      <3> SUFFICES ASSUME hi < 0 PROVE M * hi <= -M
        OBVIOUS
      <3>1. PICK k \in Nat : hi = -1 - k
        <4>1. -1 - hi \in Nat /\ hi = -1 - (-1 - hi)
          BY <1>3
        <4> QED BY <4>1
      <3>2. M * hi = -M - M * k /\ M * k >= 0
        BY <1>1, <3>1, SMT
      <3> QED BY <1>1, <3>2, SMT
    <2> DEFINE a == M * hi
    <2>3. a \in Int /\ wide = a + lo /\ (hi >= 0 => a >= 0) /\ (hi < 0 => a <= -M)
      BY <1>1, <1>3, <2>1, <2>2, SMT
    <2> HIDE DEF a
    <2> QED BY <1>1, <1>3, <2>3
  <1>5. abs_hi \in Nat /\ abs_lo \in Nat /\ abs_lo < M
    BY <1>1, <1>3
  <1>6. abs_hi * M + abs_lo = Magnitude(wide)
    <2>1. CASE ~negative
      <3>1. abs_hi = hi /\ abs_lo = lo
        BY <2>1
      <3>2. hi * M = M * hi
        BY <1>1, <1>3, SMT
      <3> QED BY <1>3, <1>4, <2>1, <3>1, <3>2 DEF Magnitude
    <2>2. CASE negative /\ lo = 0
      <3>1. abs_hi = -hi /\ abs_lo = 0
        BY <1>1, <1>3, <2>2
      <3>2. (-hi) * M + 0 = -(M * hi + 0)
        BY <1>1, <1>3, SMT
      <3> QED BY <1>3, <1>4, <2>2, <3>1, <3>2 DEF Magnitude
    <2>3. CASE negative /\ lo # 0
      <3>1. (-lo) % M = M - lo
        BY <1>1, <1>3, <2>3
      <3>2. abs_hi = -hi - 1 /\ abs_lo = M - lo
        BY <1>1, <1>3, <2>3, <3>1
      <3>3. (-hi - 1) * M + (M - lo) = -(M * hi + lo)
        BY <1>1, <1>3, SMT
      <3> QED BY <1>3, <1>4, <2>3, <3>2, <3>3 DEF Magnitude
    <2> QED BY <2>1, <2>2, <2>3
  <1> HIDE DEF abs_hi, abs_lo, negative
  <1>7. quot = Magnitude(wide) \div d
    BY <1>5, <1>6, HalvesExact DEF M
  <1> HIDE DEF quot
  <1>8. Magnitude(d) = d /\ d \in Int \ {0} /\ ~(d < 0)
    BY DEF Magnitude
  <1>9. Truncated(wide, d) = IF (wide < 0) = (d < 0) THEN Magnitude(wide) \div Magnitude(d)
                             ELSE -(Magnitude(wide) \div Magnitude(d))
    BY <1>8, SignedQuotient
  <1>10. ((wide < 0) = (d < 0)) <=> ~negative
    BY <1>4, <1>8
  <1> QED BY <1>7, <1>8, <1>9, <1>10

\* Half of the divisor, added away from zero before a division that truncates,
\* rounds to the nearest integer and ties away from zero, for odd divisors too.
LEMMA BiasRounds ==
    ASSUME NEW D, NEW n \in Int, NEW d \in Int \ {0}
    PROVE  /\ Fixed(D)!Biased(n, d) \in Int
           /\ Truncated(Fixed(D)!Biased(n, d), d) = Nearest(n, d)
  <1> DEFINE m == Magnitude(n)
             e == Magnitude(d)
             half == e \div 2
             b == Fixed(D)!Biased(n, d)
  <1>1. m \in Nat /\ e \in Nat \ {0}
    BY MagnitudeFacts
  <1>2. b = IF n >= 0 THEN n + half ELSE n - half
    BY DEF Fixed!Biased, Fixed!AbsOf, Magnitude
  <1>3. half \in Nat /\ e \in {2 * half, 2 * half + 1}
    BY <1>1
  <1> HIDE DEF half, e
  <1>4. b \in Int /\ Magnitude(b) = m + half /\ (b < 0 <=> n < 0)
    BY <1>2, <1>3 DEF Magnitude
  <1> HIDE DEF b, m
  <1> DEFINE q == (m + half) \div e
             r == (m + half) % e
  <1>5. m + half = e * q + r /\ r \in Nat /\ r < e /\ q \in Nat
    BY <1>1, <1>3, DivModNat
  <1> HIDE DEF q, r
  <1>6. (2 * m + e) \div (2 * e) = q
    <2> DEFINE a == e * q
               s == 2 * m + e - 2 * a
    <2>1. a \in Int /\ m + half = a + r /\ (2 * e) * q = 2 * a
      BY <1>1, <1>5, SMT
    <2> HIDE DEF a
    <2>2. s \in Int /\ 0 <= s /\ s < 2 * e
      BY <1>1, <1>3, <1>5, <2>1
    <2>3. 2 * m + e = (2 * e) * q + s
      BY <1>1, <2>1
    <2> HIDE DEF s
    <2>4. 2 * e \in Nat \ {0} /\ 2 * m + e \in Int /\ q \in Int
      BY <1>1, <1>5
    <2> QED BY <2>2, <2>3, <2>4, QuotientIs
  <1>7. Truncated(b, d) = IF (n < 0) = (d < 0) THEN q ELSE -q
    <2>1. Truncated(b, d) = IF (b < 0) = (d < 0) THEN Magnitude(b) \div Magnitude(d)
                            ELSE -(Magnitude(b) \div Magnitude(d))
      BY <1>4, SignedQuotient
    <2>2. Magnitude(b) \div Magnitude(d) = q
      BY <1>4 DEF q, e
    <2>3. ((b < 0) = (d < 0)) <=> ((n < 0) = (d < 0))
      BY <1>4
    <2> QED BY <2>1, <2>2, <2>3
  <1>8. Nearest(n, d) = IF (n < 0) = (d < 0) THEN q ELSE -q
    BY <1>6, SignedQuotient DEF m, e
  <1> QED BY <1>4, <1>7, <1>8 DEF b

\* A value narrowed to the word.
LEMMA NarrowIsOnly ==
    ASSUME NEW D, NEW q
    PROVE  Fixed(D)!Narrow(q) = Only(q)
  <1>1. Fixed(D)!Raw = Ticks!Raw
    BY OneWord
  <1> QED BY <1>1 DEF Fixed!Narrow, Fixed!Some, Fixed!None, Only

\* The scales in use.
LEMMA PlacesFacts ==
    /\ \A D \in Places : D \in Nat /\ D <= MaxPlaces /\ Ticks!Pow10[D] \in Nat \ {0}
    /\ MaxPlaces \in Nat /\ Ticks!MAX >= 1
  <1>1. \A D \in Places : D \in Nat /\ D <= MaxPlaces
    BY NumericAssumption DEF Places
  <1>2. MaxPlaces \in Nat /\ Ticks!Pow10[MaxPlaces] <= Ticks!MAX
    BY NumericAssumption
  <1>3. Ticks!Pow10[MaxPlaces] \in Nat \ {0} /\ Ticks!MAX \in Nat
    BY <1>2, Tens, WordFacts
  <1>4. \A D \in Places : Ticks!Pow10[D] \in Nat \ {0}
    BY <1>1, Tens
  <1>5. Ticks!MAX >= 1
    BY <1>2, <1>3
  <1> QED BY <1>1, <1>2, <1>4, <1>5

\* The products and quotients of two values.
LEMMA ProductsExact ==
    ASSUME NEW D \in Places, NEW x \in Ticks!Raw, NEW y \in Ticks!Raw
    PROVE  LET scale == Ticks!Pow10[D]
           IN  /\ Fixed(D)!CheckedMulTrunc(x, y) = Only(Truncated(x * y, scale))
               /\ Fixed(D)!CheckedMulRound(x, y) = Only(Nearest(x * y, scale))
               /\ y # 0 =>
                    /\ Fixed(D)!CheckedDivTrunc(x, y) = Only(Truncated(x * scale, y))
                    /\ Fixed(D)!CheckedDivRound(x, y) = Only(Nearest(x * scale, y))
  <1> DEFINE scale == Ticks!Pow10[D]
  <1>1. scale \in Nat \ {0} /\ scale \in Int \ {0} /\ Fixed(D)!SCALE = scale
    BY PlacesFacts, OneWord
  <1> HIDE DEF scale
  <1>2. x \in Int /\ y \in Int
    BY WordFacts
  <1>3. x * y \in Int /\ x * scale \in Int
    BY <1>1, <1>2, SMT
  <1>4. Fixed(D)!CheckedMulTrunc(x, y) = Only(Truncated(x * y, scale))
    BY <1>1, <1>3, WideTruncates, NarrowIsOnly DEF Fixed!CheckedMulTrunc
  <1>5. Fixed(D)!CheckedMulRound(x, y) = Only(Nearest(x * y, scale))
    <2>1. /\ Fixed(D)!Biased(x * y, scale) \in Int
          /\ Truncated(Fixed(D)!Biased(x * y, scale), scale) = Nearest(x * y, scale)
      BY <1>1, <1>3, BiasRounds
    <2> QED BY <1>1, <2>1, WideTruncates, NarrowIsOnly DEF Fixed!CheckedMulRound
  <1>6. ASSUME y # 0
        PROVE  /\ Fixed(D)!CheckedDivTrunc(x, y) = Only(Truncated(x * scale, y))
               /\ Fixed(D)!CheckedDivRound(x, y) = Only(Nearest(x * scale, y))
    <2>1. y \in Int \ {0}
      BY <1>2, <1>6
    <2>2. Fixed(D)!Quot(x * scale, y) = Truncated(x * scale, y)
      BY <1>3, <2>1, QuotTruncates
    <2>3. /\ Fixed(D)!Biased(x * scale, y) \in Int
          /\ Truncated(Fixed(D)!Biased(x * scale, y), y) = Nearest(x * scale, y)
      BY <1>3, <2>1, BiasRounds
    <2>4. Fixed(D)!Quot(Fixed(D)!Biased(x * scale, y), y) = Nearest(x * scale, y)
      BY <2>1, <2>3, QuotTruncates
    <2> QED BY <1>1, <1>6, <2>2, <2>4, NarrowIsOnly
            DEF Fixed!CheckedDivTrunc, Fixed!CheckedDivRound
  <1> QED BY <1>4, <1>5, <1>6 DEF scale

\* A product that does not fit is not zero, so the signs of the factors tell
\* at which limit the saturating one ends.
LEMMA SaturatesRight ==
    ASSUME NEW D \in Places, NEW x \in Ticks!Raw, NEW y \in Ticks!Raw,
           Fixed(D)!CheckedMulTrunc(x, y) = {}
    PROVE  Fixed(D)!SaturatingMulTrunc(x, y) = IF x * y > 0 THEN Ticks!MAX ELSE Ticks!MIN
  <1> DEFINE scale == Ticks!Pow10[D]
  <1>1. scale \in Nat \ {0} /\ scale \in Int \ {0}
    BY PlacesFacts
  <1>2. Fixed(D)!CheckedMulTrunc(x, y) = Only(Truncated(x * y, scale))
    BY ProductsExact
  <1> HIDE DEF scale
  <1>3. x \in Int /\ y \in Int /\ 0 \in Ticks!Raw
    BY WordFacts
  <1>4. x * y # 0
    <2> SUFFICES ASSUME x * y = 0 PROVE FALSE
      OBVIOUS
    <2>1. Magnitude(0) = 0 /\ Magnitude(scale) = scale
      BY <1>1 DEF Magnitude
    <2>2. 0 \div scale = 0
      BY <1>1
    <2>3. Truncated(0, scale) = 0
      BY <1>1, <2>1, <2>2, SignedQuotient
    <2> QED BY <1>2, <1>3, <2>3 DEF Only
  <1>5. (x * y > 0) <=> ((x >= 0) = (y >= 0))
    <2>1. x # 0 /\ y # 0
      BY <1>3, <1>4, SMT
    <2>2. CASE x > 0 /\ y > 0
      <3>1. x * y > 0
        BY <1>3, <2>2, SMT
      <3> QED BY <1>3, <2>2, <3>1
    <2>3. CASE x < 0 /\ y < 0
      <3>1. x * y > 0
        BY <1>3, <2>3, SMT
      <3> QED BY <1>3, <2>3, <3>1
    <2>4. CASE x < 0 /\ y > 0
      <3>1. ~(x * y > 0)
        BY <1>3, <2>4, SMT
      <3> QED BY <1>3, <2>4, <3>1
    <2>5. CASE x > 0 /\ y < 0
      <3>1. ~(x * y > 0)
        BY <1>3, <2>5, SMT
      <3> QED BY <1>3, <2>5, <3>1
    <2> QED BY <1>3, <2>1, <2>2, <2>3, <2>4, <2>5
  <1> QED BY <1>5, OneWord DEF Fixed!SaturatingMulTrunc, Fixed!None

\* checked_div_int has one quotient that is no word.
LEMMA DivIntPanicsOnce ==
    ASSUME NEW D, NEW x \in Ticks!Raw, NEW y \in Ticks!Raw
    PROVE  Fixed(D)!DivIntPanics(x, y) <=> x = Ticks!MIN /\ y = -1
  <1> DEFINE X == Ticks!MAX
             q == Magnitude(x) \div Magnitude(y)
  <1>1. /\ X \in Nat /\ X >= 1 /\ Ticks!MIN = -(X + 1) /\ x \in Int /\ y \in Int
        /\ x >= -(X + 1) /\ x <= X
    BY WordFacts, PlacesFacts
  <1>2. Fixed(D)!DivIntPanics(x, y) <=> y # 0 /\ Fixed(D)!Quot(x, y) \notin Ticks!Raw
    BY OneWord DEF Fixed!DivIntPanics
  <1>3. CASE y = 0
    BY <1>2, <1>3
  <1>4. CASE y # 0
    <2>1. y \in Int \ {0} /\ Magnitude(x) \in Nat /\ Magnitude(y) \in Nat \ {0}
      BY <1>1, <1>4, MagnitudeFacts
    <2>2. Fixed(D)!Quot(x, y) = IF (x < 0) = (y < 0) THEN q ELSE -q
      <3>1. Fixed(D)!Quot(x, y) = Truncated(x, y)
        BY <1>1, <2>1, QuotTruncates
      <3> QED BY <1>1, <2>1, <3>1, SignedQuotient
    <2>3. q \in Nat /\ q <= Magnitude(x) /\ Magnitude(y) * q <= Magnitude(x)
      BY <2>1, Division
    <2>4. Magnitude(y) = 1 => q = Magnitude(x)
      BY <2>1
    <2>5. Magnitude(y) # 1 => 2 * q <= Magnitude(x)
      <3> HIDE DEF q
      <3> SUFFICES ASSUME Magnitude(y) # 1 PROVE 2 * q <= Magnitude(x)
        OBVIOUS
      <3>1. PICK k \in Nat : Magnitude(y) = 2 + k
        <4>1. Magnitude(y) - 2 \in Nat /\ Magnitude(y) = 2 + (Magnitude(y) - 2)
          BY <2>1
        <4> QED BY <4>1
      <3>2. Magnitude(y) * q = 2 * q + k * q /\ k * q >= 0
        BY <2>3, <3>1, SMT
      <3> QED BY <2>1, <2>3, <3>2, SMT
    <2>6. \A z : z \in Ticks!Raw <=> z \in Int /\ -(X + 1) <= z /\ z <= X
      BY <1>1, WordFacts
    <2> HIDE DEF q, X
    <2>7. CASE x = -(X + 1) /\ y = -1
      <3>1. Fixed(D)!Quot(x, y) = X + 1
        <4>1. Magnitude(x) = X + 1 /\ Magnitude(y) = 1
          <5>1. \A z \in Nat : Magnitude(-(z + 1)) = z + 1
            BY DEF Magnitude
          <5>2. Magnitude(y) = 1
            <6>1. \A z \in Int : z < 0 => Magnitude(z) = -z
              BY DEF Magnitude
            <6> QED BY <1>1, <2>7, <6>1
          <5> QED BY <1>1, <2>7, <5>1, <5>2
        <4>2. q = X + 1 /\ x < 0 /\ y < 0
          BY <1>1, <2>4, <2>7, <4>1
        <4> QED BY <2>2, <4>2
      <3> QED BY <1>1, <1>2, <1>4, <2>6, <2>7, <3>1
    <2>8. CASE ~(x = -(X + 1) /\ y = -1)
      <3>1. Fixed(D)!Quot(x, y) \in Int /\ -(X + 1) <= Fixed(D)!Quot(x, y)
        <4>1. Magnitude(x) <= X + 1
          BY <1>1 DEF Magnitude
        <4> QED BY <1>1, <2>1, <2>2, <2>3, <4>1
      <3>2. Fixed(D)!Quot(x, y) <= X
        <4>1. CASE x = -(X + 1)
          <5>1. Magnitude(x) = X + 1 /\ (Magnitude(y) = 1 => y = 1)
            BY <1>1, <2>8, <4>1 DEF Magnitude
          <5>2. CASE Magnitude(y) = 1
            <6>1. x < 0 /\ ~(y < 0)
              BY <1>1, <4>1, <5>1, <5>2
            <6> QED BY <1>1, <2>2, <2>3, <6>1
          <5>3. CASE Magnitude(y) # 1
            <6>1. 2 * q <= X + 1
              BY <2>5, <5>1, <5>3
            <6> QED BY <1>1, <2>2, <2>3, <6>1
          <5> QED BY <5>2, <5>3
        <4>2. CASE x # -(X + 1)
          <5>1. Magnitude(x) <= X
            BY <1>1, <4>2 DEF Magnitude
          <5> QED BY <1>1, <2>1, <2>2, <2>3, <5>1
        <4> QED BY <4>1, <4>2
      <3> QED BY <1>1, <1>2, <2>6, <2>8, <3>1, <3>2
    <2> QED BY <2>7, <2>8
  <1> QED BY <1>3, <1>4

-----------------------------------------------------------------------------
(* The calls *)

\* The operands of the call that was made.
Call ==
    \/ arg = NoCall
    \/ \E x \in Ticks!Raw, y \in Operands : arg = [kind |-> "fixed", x |-> x, y |-> y]
    \/ \E s \in Texts : arg = [kind |-> "parse", s |-> s]

\* Only such calls are made.
LEMMA CallAlways == NumericSpec => []Call
  <1>1. NumericInit => Call
    BY DEF NumericInit, Call
  <1>2. Call /\ [NumericNext]_arg => Call'
    BY DEF Call, NumericNext, CallFixed, CallParse
  <1> QED BY <1>1, <1>2, PTL DEF NumericSpec

\* What is known of a call of the arithmetic.
LEMMA FixedCall ==
    ASSUME Call, arg.kind = "fixed"
    PROVE  arg.x \in Ticks!Raw /\ arg.y \in Ticks!Raw
  BY DEF Call, NoCall, Operands

\* Multiplication and division of fixed-point numbers are exact up to the
\* documented rounding for every width of the word, every scale and all
\* operands.
THEOREM MulDivIsExact == NumericSpec => []MulDivExact
  <1>1. Call => MulDivExact
    <2> SUFFICES ASSUME Call, arg.kind = "fixed", NEW D \in Places
                 PROVE  LET x == arg.x
                            y == arg.y
                            scale == Ticks!Pow10[D]
                        IN  /\ Fixed(D)!CheckedMulTrunc(x, y) = Only(Truncated(x * y, scale))
                            /\ Fixed(D)!CheckedMulRound(x, y) = Only(Nearest(x * y, scale))
                            /\ y # 0 =>
                                 /\ Fixed(D)!CheckedDivTrunc(x, y) = Only(Truncated(x * scale, y))
                                 /\ Fixed(D)!CheckedDivRound(x, y) = Only(Nearest(x * scale, y))
                            /\ Fixed(D)!CheckedMulTrunc(x, y) = {} =>
                                 Fixed(D)!SaturatingMulTrunc(x, y) =
                                     IF x * y > 0 THEN Ticks!MAX ELSE Ticks!MIN
                            /\ Fixed(D)!DivIntPanics(x, y) <=> x = Ticks!MIN /\ y = -1
      BY DEF MulDivExact
    <2>1. arg.x \in Ticks!Raw /\ arg.y \in Ticks!Raw
      BY FixedCall
    <2> QED BY <2>1, ProductsExact, SaturatesRight, DivIntPanicsOnce
  <1> QED BY <1>1, CallAlways, PTL

-----------------------------------------------------------------------------
(* Changes of scale *)

\* A positive factor leaves the sign alone and multiplies the magnitude.
LEMMA ScaledMagnitude ==
    ASSUME NEW x \in Int, NEW c \in Nat \ {0}
    PROVE  x * c \in Int /\ (x * c < 0 <=> x < 0) /\ Magnitude(x * c) = c * Magnitude(x)
  <1>1. x * c \in Int /\ c * x = x * c /\ c * (-x) = -(x * c)
    BY SMT
  <1>2. x < 0 => x * c < 0
    BY SMT
  <1>3. x >= 0 => x * c >= 0
    BY SMT
  <1> QED BY <1>1, <1>2, <1>3 DEF Magnitude

\* A common factor cancels from a quotient.
LEMMA FactorDivides ==
    ASSUME NEW n \in Nat, NEW c \in Nat \ {0}, NEW d \in Nat \ {0}
    PROVE  (c * n) \div (c * d) = n \div d
  <1> DEFINE q == n \div d
             r == n % d
  <1>1. n = d * q + r /\ r \in Nat /\ r < d /\ q \in Nat
    BY DivModNat
  <1> HIDE DEF q, r
  <1>2. c * n = (c * d) * q + c * r /\ c * n \in Int /\ c * r \in Int /\ 0 <= c * r
    BY <1>1, SMT
  <1>3. c * d \in Nat \ {0}
    BY SMT
  <1>4. c * r < c * d
    <2>1. PICK k \in Nat : d = r + 1 + k
      <3>1. d - (r + 1) \in Nat /\ d = r + 1 + (d - (r + 1))
        BY <1>1
      <3> QED BY <3>1
    <2>2. c * d = c * r + c + c * k /\ c * k >= 0
      BY <1>1, <2>1, SMT
    <2> QED BY <1>2, <2>2, SMT
  <1>5. (c * n) \div (c * d) = q
    BY <1>1, <1>2, <1>3, <1>4, QuotientIs
  <1> QED BY <1>5 DEF q

\* It cancels from the reference quotients, and from the test for a remainder;
\* without one the quotient is the truncated one.
LEMMA ScaleCancels ==
    ASSUME NEW x \in Int, NEW c \in Nat \ {0}, NEW d \in Nat \ {0}
    PROVE  /\ Truncated(x * c, c * d) = Truncated(x, d)
           /\ Nearest(x * c, c * d) = Nearest(x, d)
           /\ (x * c) % (c * d) = 0 <=> Magnitude(x) % d = 0
           /\ Magnitude(x) % d = 0 => (x * c) \div (c * d) = Truncated(x, d)
  <1> DEFINE m == Magnitude(x)
             e == c * d
             n == x * c
             q == m \div d
             h == (2 * m + d) \div (2 * d)
  <1>1. /\ m \in Nat /\ e \in Nat \ {0} /\ e \in Int \ {0} /\ d \in Int \ {0}
        /\ Magnitude(d) = d /\ Magnitude(e) = e /\ ~(e < 0) /\ ~(d < 0)
    <2>1. e \in Nat \ {0}
      BY SMT
    <2>2. m \in Nat
      BY MagnitudeFacts
    <2> HIDE DEF e, m
    <2> QED BY <2>1, <2>2 DEF Magnitude
  <1>2. n \in Int /\ (n < 0 <=> x < 0) /\ Magnitude(n) = c * m
    BY ScaledMagnitude
  <1>3. Magnitude(n) \div Magnitude(e) = q
    BY <1>1, <1>2, FactorDivides
  <1>4. (2 * Magnitude(n) + e) \div (2 * e) = h
    <2> DEFINE a == 2 * m + d
               b == 2 * d
    <2>1. 2 * Magnitude(n) + e = c * a /\ 2 * e = c * b
      <3>1. 2 * (c * m) + c * d = c * (2 * m + d) /\ 2 * (c * d) = c * (2 * d)
        BY <1>1, SMT
      <3> QED BY <1>2, <3>1
    <2>2. a \in Nat /\ b \in Nat \ {0}
      BY <1>1
    <2>3. h = a \div b
      OBVIOUS
    <2> HIDE DEF a, b, h, e
    <2>4. (c * a) \div (c * b) = a \div b
      BY <2>2, FactorDivides
    <2> QED BY <2>1, <2>3, <2>4
  <1>5. Truncated(x, d) = IF x < 0 THEN -q ELSE q
    BY PositiveDivisor
  <1>6. Nearest(x, d) = IF x < 0 THEN -h ELSE h
    BY PositiveDivisor
  <1> HIDE DEF n, e
  <1>7. Truncated(n, e) = IF n < 0 THEN -q ELSE q
    <2>1. Truncated(n, e) = IF n < 0 THEN -(Magnitude(n) \div e) ELSE Magnitude(n) \div e
      BY <1>1, <1>2, PositiveDivisor
    <2> QED BY <1>1, <1>3, <2>1
  <1>8. Nearest(n, e) = IF n < 0 THEN -h ELSE h
    <2> DEFINE g == (2 * Magnitude(n) + e) \div (2 * e)
    <2>1. Nearest(n, e) = IF n < 0 THEN -g ELSE g
      BY <1>1, <1>2, PositiveDivisor
    <2> QED BY <1>4, <2>1
  <1>9. m = d * q + (m % d) /\ q \in Nat
    BY <1>1, DivModNat
  <1>10. ASSUME m % d = 0 PROVE n % e = 0 /\ n \div e = Truncated(x, d)
    <2> DEFINE z == Truncated(x, d)
    <2>1. z \in Int /\ x = d * z
      <3>1. m = d * q
        BY <1>1, <1>9, <1>10
      <3> HIDE DEF q
      <3>2. d * (-q) = -(d * q)
        BY <1>9, SMT
      <3> QED BY <1>5, <1>9, <3>1, <3>2 DEF Magnitude, m
    <2> HIDE DEF z
    <2>2. n = e * z + 0
      BY <2>1, SMT DEF n, e
    <2>3. n \div e = z /\ n % e = 0
      <3>1. 0 \in Int /\ 0 <= 0 /\ 0 < e
        BY <1>1
      <3> QED BY <1>1, <1>2, <2>1, <2>2, <3>1, QuotientIs
    <2> QED BY <2>3 DEF z
  <1>11. ASSUME n % e = 0 PROVE m % d = 0
    <2> DEFINE z == n \div e
    <2>1. z \in Int /\ n = e * z
      BY <1>1, <1>2, <1>11, DivMod
    <2> HIDE DEF z
    <2>2. Magnitude(z) \in Nat
      BY <2>1, MagnitudeFacts
    <2>3. n = z * e
      BY <1>1, <2>1, SMT
    <2>4. Magnitude(n) = e * Magnitude(z)
      BY <1>1, <2>1, <2>3, ScaledMagnitude
    <2> DEFINE k == Magnitude(z)
    <2>5. c * m = c * (d * k)
      <3>1. (c * d) * k = c * (d * k)
        BY <2>2, SMT
      <3> QED BY <1>2, <2>4, <3>1 DEF e
    <2> HIDE DEF k, m
    <2>6. k \in Nat /\ d * k \in Nat
      BY <2>2, SMT DEF k
    <2>7. c * m < c * (d * k + 1) /\ c * (d * k) < c * (m + 1)
      <3> DEFINE a == d * k
      <3> HIDE DEF a
      <3>1. a \in Nat /\ c * m = c * a
        BY <2>5, <2>6 DEF a
      <3>2. c * m < c * (a + 1) /\ c * a < c * (m + 1)
        BY <1>1, <3>1, SMT
      <3> QED BY <3>2 DEF a
    <2>8. m = d * k + 0
      <3>1. m <= d * k /\ d * k <= m
        BY <1>1, <2>6, <2>7, FactorCancels
      <3> QED BY <1>1, <2>6, <3>1
    <2>9. m % d = 0
      BY <1>1, <2>6, <2>8, QuotientIs
    <2> QED BY <2>9
  <1> QED BY <1>2, <1>5, <1>6, <1>7, <1>8, <1>10, <1>11 DEF n, e, m

\* A multiple of a scale.
LEMMA MultipleIsExact ==
    ASSUME NEW z \in Int, NEW c \in Nat \ {0}
    PROVE  /\ Truncated(z * c, c) = z /\ Nearest(z * c, c) = z
           /\ (z * c) % c = 0 /\ (z * c) \div c = z
  <1> DEFINE m == Magnitude(z)
  <1>1. c * 1 = c /\ 1 \in Nat \ {0} /\ 1 \in Int \ {0} /\ Magnitude(1) = 1 /\ m \in Nat
    BY MagnitudeFacts DEF Magnitude
  <1>2. m \div 1 = m /\ m % 1 = 0 /\ (2 * m + 1) \div (2 * 1) = m
    BY <1>1
  <1>3. /\ Truncated(z, 1) = IF z < 0 THEN -m ELSE m
        /\ Nearest(z, 1) = IF z < 0 THEN -m ELSE m
    <2> DEFINE h == (2 * m + 1) \div (2 * 1)
               q == m \div 1
    <2>1. /\ Truncated(z, 1) = IF z < 0 THEN -q ELSE q
          /\ Nearest(z, 1) = IF z < 0 THEN -h ELSE h
      BY <1>1, PositiveDivisor
    <2> QED BY <1>2, <2>1
  <1>4. Truncated(z, 1) = z /\ Nearest(z, 1) = z
    BY <1>3 DEF Magnitude
  <1> DEFINE e == c * 1
  <1>5. /\ Truncated(z * c, e) = Truncated(z, 1) /\ Nearest(z * c, e) = Nearest(z, 1)
        /\ ((z * c) % e = 0 <=> m % 1 = 0)
        /\ (m % 1 = 0 => (z * c) \div e = Truncated(z, 1))
    BY <1>1, ScaleCancels
  <1> QED BY <1>1, <1>2, <1>4, <1>5

\* The three conversions between scales.
LEMMA RescaleExact ==
    ASSUME NEW D \in Places, NEW E \in Places, NEW x \in Ticks!Raw
    PROVE  LET up == x * Ticks!Pow10[E]
               down == Ticks!Pow10[D]
           IN  /\ Fixed(D)!RescaleTrunc(x, E) = Only(Truncated(up, down))
               /\ Fixed(D)!RescaleRound(x, E) = Only(Nearest(up, down))
               /\ Fixed(D)!CheckedRescaleExact(x, E) =
                      IF up % down = 0 THEN Only(up \div down) ELSE {}
  <1> DEFINE T == Ticks!Pow10
             up == x * T[E]
             down == T[D]
  <1>1. x \in Int /\ D \in Nat /\ E \in Nat /\ T[E] \in Nat \ {0} /\ T[D] \in Nat \ {0}
    BY WordFacts, PlacesFacts
  <1>2. Fixed(D)!Pow10 = T
    BY OneWord
  <1>3. \A q : Fixed(D)!Narrow(q) = Only(q)
    BY NarrowIsOnly
  <1>4. \A j, k \in Nat : T[j + k] = T[j] * T[k]
    BY Tens
  <1>5. \A k \in Nat : T[k] \in Nat \ {0}
    BY Tens
  <1> HIDE DEF T
  <1>6. CASE E >= D
    <2> DEFINE w == T[E - D]
               z == x * w
    <2>1. E - D \in Nat /\ T[E] = w * T[D] /\ w \in Nat \ {0}
      <3>1. E - D \in Nat /\ (E - D) + D = E
        BY <1>1, <1>6
      <3> QED BY <1>1, <1>4, <1>5, <3>1
    <2>2. z \in Int /\ up = z * down
      <3> HIDE DEF w
      <3> QED BY <1>1, <2>1, SMT
    <2>3. E = D => z = x
      <3>1. T[0] = 1
        BY Tens DEF T
      <3> QED BY <1>1, <3>1
    <2>4. E = D => Fixed(D)!Some(x) = Only(z)
      BY <2>3 DEF Fixed!Some, Only
    <2>5. Fixed(D)!Widened(x, E) = Only(z)
      BY <1>2, <1>3 DEF Fixed!Widened
    <2>6. /\ Fixed(D)!RescaleTrunc(x, E) = Only(z)
          /\ Fixed(D)!RescaleRound(x, E) = Only(z)
          /\ Fixed(D)!CheckedRescaleExact(x, E) = Only(z)
      BY <1>1, <1>6, <2>4, <2>5
         DEF Fixed!RescaleTrunc, Fixed!RescaleRound, Fixed!CheckedRescaleExact
    <2> HIDE DEF z, down, up
    <2>7. /\ Truncated(up, down) = z /\ Nearest(up, down) = z
          /\ up % down = 0 /\ up \div down = z
      BY <1>1, <2>2, MultipleIsExact DEF down
    <2> QED BY <2>6, <2>7 DEF up, down, T
  <1>7. CASE E < D
    <2> DEFINE f == T[D - E]
    <2>1. D - E \in Nat /\ down = T[E] * f /\ f \in Nat \ {0}
      <3>1. D - E \in Nat /\ E + (D - E) = D
        BY <1>1, <1>7
      <3> QED BY <1>1, <1>4, <1>5, <3>1
    <2>2. f \in Int \ {0} /\ x \in Int
      BY <1>1, <2>1
    <2>3. ~(E = D) /\ ~(E > D)
      BY <1>1, <1>7
    <2>4. Fixed(D)!AbsOf(x) = Magnitude(x)
      BY DEF Fixed!AbsOf, Magnitude
    <2> HIDE DEF f
    <2>5. Fixed(D)!Quot(x, f) = Truncated(x, f)
      BY <2>2, QuotTruncates
    <2>6. Fixed(D)!Quot(Fixed(D)!Biased(x, f), f) = Nearest(x, f)
      <3>1. /\ Fixed(D)!Biased(x, f) \in Int
            /\ Truncated(Fixed(D)!Biased(x, f), f) = Nearest(x, f)
        BY <2>2, BiasRounds
      <3> QED BY <2>2, <3>1, QuotTruncates
    <2>7. /\ Fixed(D)!RescaleTrunc(x, E) = Only(Truncated(x, f))
          /\ Fixed(D)!RescaleRound(x, E) = Only(Nearest(x, f))
          /\ Fixed(D)!CheckedRescaleExact(x, E) =
                 IF Magnitude(x) % f # 0 THEN {} ELSE Only(Truncated(x, f))
      BY <1>2, <1>3, <2>3, <2>4, <2>5, <2>6
         DEF Fixed!RescaleTrunc, Fixed!RescaleRound, Fixed!CheckedRescaleExact, Fixed!None, f
    <2>8. /\ Truncated(up, down) = Truncated(x, f) /\ Nearest(up, down) = Nearest(x, f)
          /\ (up % down = 0 <=> Magnitude(x) % f = 0)
          /\ (Magnitude(x) % f = 0 => up \div down = Truncated(x, f))
      <3> DEFINE c == T[E]
      <3>1. c \in Nat \ {0} /\ up = x * c /\ down = c * f
        BY <1>1, <2>1
      <3> HIDE DEF c, up, down
      <3>2. /\ Truncated(x * c, c * f) = Truncated(x, f) /\ Nearest(x * c, c * f) = Nearest(x, f)
            /\ (x * c) % (c * f) = 0 <=> Magnitude(x) % f = 0
            /\ Magnitude(x) % f = 0 => (x * c) \div (c * f) = Truncated(x, f)
        BY <2>1, <2>2, <3>1, ScaleCancels
      <3> QED BY <3>1, <3>2
    <2> HIDE DEF down, up
    <2> QED BY <2>7, <2>8 DEF up, down, T
  <1> QED BY <1>1, <1>6, <1>7

\* A price in ticks and a quantity in lots.
LEMMA TickAndBack ==
    ASSUME NEW x \in Ticks!Raw, NEW y \in Ticks!Raw, y > 0
    PROVE  LET Near(back) == \E b \in back : /\ b * x >= 0 /\ Magnitude(b) <= Magnitude(x)
                                             /\ Magnitude(x - b) < y
           IN  /\ Near(TicksToPrice(PriceToTicks(x, y), y))
               /\ Near(LotsToQty(QtyToLots(x, y), y))
  <1> DEFINE m == Magnitude(x)
             q == m \div y
             t == Truncated(x, y)
             b == y * t
  <1>1. x \in Int /\ y \in Int \ {0} /\ y \in Nat \ {0} /\ m \in Nat /\ Magnitude(y) = y /\ ~(y < 0)
    BY WordFacts, MagnitudeFacts DEF Magnitude
  <1>2. PriceToTicks(x, y) = t /\ QtyToLots(x, y) = t
    <2>1. Ticks!Quot(x, y) = Fixed(0)!Quot(x, y) /\ Lots!Quot(x, y) = Fixed(0)!Quot(x, y)
      BY DEF Ticks!Quot, Lots!Quot, Fixed!Quot, Ticks!AbsOf, Lots!AbsOf, Fixed!AbsOf
    <2> QED BY <1>1, <2>1, QuotTruncates DEF PriceToTicks, QtyToLots
  <1>3. TicksToPrice(t, y) = Only(b) /\ LotsToQty(t, y) = Only(b)
    <2>1. UsdcAmount!CheckedMulInt(y, t) = Fixed(UsdcPlaces)!CheckedMulInt(y, t)
      BY DEF UsdcAmount!CheckedMulInt, Fixed!CheckedMulInt, UsdcAmount!Narrow, Fixed!Narrow,
             UsdcAmount!Some, Fixed!Some, UsdcAmount!None, Fixed!None, UsdcAmount!Raw, Fixed!Raw,
             UsdcAmount!MIN, UsdcAmount!MAX, Fixed!MIN, Fixed!MAX, UsdcAmount!Pow2, Fixed!Pow2
    <2>2. Fixed(UsdcPlaces)!CheckedMulInt(y, t) = Only(b)
      BY NarrowIsOnly DEF Fixed!CheckedMulInt
    <2> QED BY <2>1, <2>2 DEF TicksToPrice, LotsToQty
  <1>4. q \in Nat /\ y * q <= m /\ m <= y * q + y - 1
    BY <1>1, Division
  <1>5. t = IF x < 0 THEN -q ELSE q
    BY <1>1, PositiveDivisor
  <1> HIDE DEF t, q
  <1> DEFINE a == y * q
  <1>6. a \in Nat /\ b = IF x < 0 THEN -a ELSE a
    <2>1. y * (-q) = -(y * q) /\ y * q \in Nat
      BY <1>1, <1>4, SMT
    <2> QED BY <1>5, <2>1
  <1>7. a <= m /\ m <= a + y - 1
    BY <1>4
  <1> HIDE DEF a, b
  <1>8. b \in Int /\ Magnitude(b) <= m /\ Magnitude(x - b) < y
    BY <1>1, <1>6, <1>7 DEF Magnitude
  <1>9. b * x >= 0
    <2>1. CASE x >= 0
      <3>1. b \in Nat /\ x \in Nat
        BY <1>1, <1>6, <2>1
      <3> QED BY <3>1, SMT
    <2>2. CASE x < 0
      <3>1. PICK k \in Nat : x = -k
        BY <1>1, <2>2
      <3>2. b = -a
        BY <1>6, <2>2
      <3>3. \A i, j \in Nat : (-i) * (-j) >= 0
        BY SMT
      <3> QED BY <1>6, <3>1, <3>2, <3>3
    <2> QED BY <1>1, <2>1, <2>2
  <1>10. b \in Ticks!Raw
    BY <1>1, <1>6, <1>7, WordFacts DEF Magnitude
  <1>11. b \in Only(b)
    BY <1>10 DEF Only
  <1> QED BY <1>2, <1>3, <1>8, <1>9, <1>11

\* Every conversion between scales is that of the rational value, ticks and
\* lots lose less than one unit, and complements of probabilities are
\* probabilities, for every width of the word and every scale.
THEOREM ConversionsAreBounded == NumericSpec => []ConversionsBounded
  <1>1. Call => ConversionsBounded
    <2> SUFFICES ASSUME Call, arg.kind = "fixed" PROVE ConversionsBounded
      BY DEF ConversionsBounded
    <2> DEFINE x == arg.x
               y == arg.y
    <2>1. x \in Ticks!Raw /\ y \in Ticks!Raw
      BY FixedCall
    <2>2. \A p \in NewProbability(x) :
            NewProbability(Complement(p)) = {Complement(p)} /\ Complement(Complement(p)) = p
      <3>1. UsdcAmount!SCALE \in Nat
        <4>1. UsdcAmount!SCALE = Fixed(UsdcPlaces)!SCALE
          BY DEF UsdcAmount!SCALE, Fixed!SCALE, UsdcAmount!Pow10, Fixed!Pow10
        <4>2. UsdcPlaces \in Places
          BY DEF Places
        <4> QED BY <4>1, <4>2, OneWord, PlacesFacts
      <3>2. x \in Int
        BY <2>1, WordFacts
      <3> HIDE DEF x
      <3> QED BY <3>1, <3>2 DEF NewProbability, Complement, UsdcAmount!Some, UsdcAmount!None
    <2> HIDE DEF x, y
    <2>3. NewInstrumentMeta(y, y) =>
            LET Near(back) == \E b \in back : /\ b * x >= 0 /\ Magnitude(b) <= Magnitude(x)
                                              /\ Magnitude(x - b) < y
            IN  /\ Near(TicksToPrice(PriceToTicks(x, y), y))
                /\ Near(LotsToQty(QtyToLots(x, y), y))
      BY <2>1, TickAndBack DEF NewInstrumentMeta
    <2>4. \A D \in Places, E \in Places :
            LET up == x * Ticks!Pow10[E]
                down == Ticks!Pow10[D]
            IN  /\ Fixed(D)!RescaleTrunc(x, E) = Only(Truncated(up, down))
                /\ Fixed(D)!RescaleRound(x, E) = Only(Nearest(up, down))
                /\ Fixed(D)!CheckedRescaleExact(x, E) =
                       IF up % down = 0 THEN Only(up \div down) ELSE {}
      BY <2>1, RescaleExact
    <2> QED BY <2>2, <2>3, <2>4 DEF ConversionsBounded, x, y
  <1> QED BY <1>1, CallAlways, PTL

-----------------------------------------------------------------------------
(* Texts *)

\* The digits, and what is no digit.
LEMMA Characters ==
    /\ \A k \in 0 .. 9 : /\ Ticks!IsDigit(Ticks!Digits[k + 1])
                         /\ Ticks!DigitValue(Ticks!Digits[k + 1]) = k
    /\ \A c : Ticks!IsDigit(c) => Ticks!DigitValue(c) \in 0 .. 9
    /\ ~Ticks!IsDigit(".") /\ ~Ticks!IsDigit("-") /\ ~Ticks!IsDigit("+")
  <1> DEFINE g == Ticks!Digits
  <1>1. \A j, k \in 1 .. 10 : g[j] = g[k] => j = k
    BY DEF Ticks!Digits
  <1>2. \A k \in 1 .. 10 : g[k] # "." /\ g[k] # "-" /\ g[k] # "+"
    BY DEF Ticks!Digits
  <1> HIDE DEF g
  <1>3. \A c : Ticks!IsDigit(c) <=> \E k \in 1 .. 10 : g[k] = c
    BY DEF Ticks!IsDigit, g
  <1>4. \A c : Ticks!DigitValue(c) = (CHOOSE k \in 1 .. 10 : g[k] = c) - 1
    BY DEF Ticks!DigitValue, g
  <1>5. ASSUME NEW k \in 0 .. 9 PROVE Ticks!IsDigit(g[k + 1]) /\ Ticks!DigitValue(g[k + 1]) = k
    <2>1. k + 1 \in 1 .. 10 /\ (k + 1) - 1 = k
      OBVIOUS
    <2>2. (CHOOSE j \in 1 .. 10 : g[j] = g[k + 1]) = k + 1
      BY <1>1, <2>1
    <2> QED BY <1>3, <1>4, <2>1, <2>2
  <1>6. ASSUME NEW c, Ticks!IsDigit(c) PROVE Ticks!DigitValue(c) \in 0 .. 9
    <2>1. (CHOOSE k \in 1 .. 10 : g[k] = c) \in 1 .. 10
      BY <1>3, <1>6
    <2> QED BY <1>4, <2>1
  <1> QED BY <1>2, <1>3, <1>5, <1>6 DEF g

\* Every scale has the same characters.
LEMMA OneAlphabet ==
    ASSUME NEW D
    PROVE  /\ Fixed(D)!Digits = Ticks!Digits
           /\ \A c : Fixed(D)!IsDigit(c) <=> Ticks!IsDigit(c)
           /\ \A c : Fixed(D)!DigitValue(c) = Ticks!DigitValue(c)
  BY DEF Fixed!Digits, Ticks!Digits, Fixed!IsDigit, Ticks!IsDigit,
         Fixed!DigitValue, Ticks!DigitValue

\* What the first i characters of a text b hold.
DigitsTo(b, i) == {j \in 1 .. i : Ticks!IsDigit(b[j])}
DotsTo(b, i) == {j \in 1 .. i : b[j] = "."}
FractionTo(b, i) == {j \in DigitsTo(b, i) : \E k \in DotsTo(b, i) : k < j}
After(b, i, j) == {k \in DigitsTo(b, i) : k > j}
WorthTo(b, i) ==
    [j \in DigitsTo(b, i) |-> Ticks!DigitValue(b[j]) * Ticks!Pow10[Cardinality(After(b, i, j))]]
ValueTo(b, i) == SumFunctionOnSet(WorthTo(b, i), DigitsTo(b, i))

\* Those sets are finite.
LEMMA PrefixFinite ==
    ASSUME NEW b, NEW i \in Nat
    PROVE  /\ IsFiniteSet(DigitsTo(b, i)) /\ IsFiniteSet(DotsTo(b, i))
           /\ IsFiniteSet(FractionTo(b, i)) /\ Cardinality(FractionTo(b, i)) \in Nat
           /\ \A j : IsFiniteSet(After(b, i, j)) /\ Cardinality(After(b, i, j)) \in Nat
  <1>1. IsFiniteSet(1 .. i)
    BY FS_Interval
  <1>2. /\ DigitsTo(b, i) \in SUBSET (1 .. i) /\ DotsTo(b, i) \in SUBSET (1 .. i)
        /\ FractionTo(b, i) \in SUBSET (1 .. i)
        /\ \A j : After(b, i, j) \in SUBSET (1 .. i)
    BY DEF DigitsTo, DotsTo, FractionTo, After
  <1>3. \A T \in SUBSET (1 .. i) : IsFiniteSet(T) /\ Cardinality(T) \in Nat
    BY <1>1, FS_Subset, FS_CardinalityType
  <1> QED BY <1>2, <1>3

\* The value of a prefix is a natural number.
LEMMA ValueNat ==
    ASSUME NEW b, NEW i \in Nat
    PROVE  /\ \A j \in DigitsTo(b, i) : WorthTo(b, i)[j] \in Nat
           /\ ValueTo(b, i) \in Nat
           /\ DigitsTo(b, i) = {} => ValueTo(b, i) = 0
  <1>1. ASSUME NEW j \in DigitsTo(b, i) PROVE WorthTo(b, i)[j] \in Nat
    <2> DEFINE v == Ticks!DigitValue(b[j])
               w == Ticks!Pow10[Cardinality(After(b, i, j))]
    <2>1. v \in Nat
      BY Characters DEF DigitsTo
    <2>2. w \in Nat
      BY PrefixFinite, TensStep
    <2>3. WorthTo(b, i)[j] = v * w
      BY DEF WorthTo
    <2> HIDE DEF v, w
    <2>4. v * w \in Nat
      BY <2>1, <2>2, SMT
    <2> QED BY <2>3, <2>4
  <1>2. ValueTo(b, i) \in Int
    <2>1. \A j \in DigitsTo(b, i) : WorthTo(b, i)[j] \in Int
      BY <1>1
    <2> QED BY <2>1, PrefixFinite, SumInt DEF ValueTo
  <1>3. ValueTo(b, i) >= 0
    BY <1>1, PrefixFinite, SumSign DEF ValueTo
  <1>4. DigitsTo(b, i) = {} => ValueTo(b, i) = 0
    BY SumEmpty DEF ValueTo
  <1> QED BY <1>1, <1>2, <1>3, <1>4

\* One more character: a digit shifts the value by one place, any other one
\* leaves it.
LEMMA ValueStep ==
    ASSUME NEW b, NEW i \in Nat
    PROVE  ValueTo(b, i + 1) = IF Ticks!IsDigit(b[i + 1])
                               THEN 10 * ValueTo(b, i) + Ticks!DigitValue(b[i + 1])
                               ELSE ValueTo(b, i)
  <1> DEFINE n == i + 1
             S == DigitsTo(b, i)
             N == DigitsTo(b, n)
             f == WorthTo(b, i)
             g == WorthTo(b, n)
  <1>1. n \in Nat /\ \A j : j \in 1 .. n <=> j \in 1 .. i \/ j = n
    OBVIOUS
  <1>2. \A j \in S : j \in Nat /\ j < n
    BY DEF DigitsTo
  <1>3. CASE ~Ticks!IsDigit(b[n])
    <2>1. N = S
      BY <1>1, <1>3 DEF DigitsTo
    <2>2. g = f
      BY <2>1 DEF WorthTo, After
    <2> QED BY <1>3, <2>1, <2>2 DEF ValueTo
  <1>4. CASE Ticks!IsDigit(b[n])
    <2>1. N = S \cup {n} /\ n \notin S
      BY <1>1, <1>2, <1>4 DEF DigitsTo
    <2>2. g[n] = Ticks!DigitValue(b[n])
      <3>1. After(b, n, n) = {}
        BY <1>2, <2>1 DEF After
      <3>2. Cardinality(After(b, n, n)) = 0 /\ Ticks!Pow10[0] = 1
        BY <3>1, FS_EmptySet, TensStep
      <3>3. Ticks!DigitValue(b[n]) \in Int
        BY <1>4, Characters
      <3>4. g[n] = Ticks!DigitValue(b[n]) * Ticks!Pow10[Cardinality(After(b, n, n))]
        BY <2>1 DEF WorthTo
      <3> QED BY <3>2, <3>3, <3>4
    <2>3. ASSUME NEW j \in S PROVE f[j] \in Int /\ g[j] = 10 * f[j]
      <3> DEFINE A == After(b, i, j)
                 v == Ticks!DigitValue(b[j])
      <3>1. After(b, n, j) = A \cup {n} /\ n \notin A
        BY <1>2, <2>1 DEF After
      <3>2. IsFiniteSet(A) /\ Cardinality(A) \in Nat
        BY PrefixFinite
      <3>3. Cardinality(After(b, n, j)) = Cardinality(A) + 1
        BY <3>1, <3>2, FS_AddElement
      <3>4. f[j] = v * Ticks!Pow10[Cardinality(A)]
        BY DEF WorthTo
      <3>5. g[j] = v * Ticks!Pow10[Cardinality(A) + 1]
        BY <2>1, <3>3 DEF WorthTo
      <3>6. /\ Ticks!Pow10[Cardinality(A) + 1] = 10 * Ticks!Pow10[Cardinality(A)]
            /\ Ticks!Pow10[Cardinality(A)] \in Int
        <4>1. \A k \in Nat : Ticks!Pow10[k + 1] = 10 * Ticks!Pow10[k] /\ Ticks!Pow10[k] \in Int
          BY TensStep
        <4> QED BY <3>2, <4>1
      <3>7. v \in Int
        BY Characters DEF DigitsTo
      <3>8. \A x, y \in Int : x * (10 * y) = 10 * (x * y) /\ x * y \in Int
        BY SMT
      <3> QED BY <3>4, <3>5, <3>6, <3>7, <3>8
    <2>4. IsFiniteSet(S) /\ IsFiniteSet(N)
      BY <1>1, PrefixFinite
    <2> HIDE DEF S, N, f, g, n
    <2>5. SumFunctionOnSet(g, S) = 10 * SumFunctionOnSet(f, S)
      BY <2>3, <2>4, SumScaled
    <2>6. \A j \in N : g[j] \in Int
      BY <1>1, ValueNat DEF N, g
    <2>7. SumFunctionOnSet(g, N) = g[n] + SumFunctionOnSet(g, N \ {n})
      BY <2>1, <2>4, <2>6, SumRemove
    <2>8. N \ {n} = S
      BY <2>1
    <2>9. ValueTo(b, i) \in Int /\ Ticks!DigitValue(b[n]) \in Int
      BY <1>4, ValueNat, Characters
    <2>10. ValueTo(b, n) = Ticks!DigitValue(b[n]) + 10 * ValueTo(b, i)
      BY <2>2, <2>5, <2>7, <2>8 DEF ValueTo, S, N, f, g
    <2> QED BY <1>4, <2>9, <2>10 DEF n
  <1> QED BY <1>3, <1>4

\* One more character: the places of digits, dots and fractional digits.
LEMMA PrefixStep ==
    ASSUME NEW b, NEW i \in Nat
    PROVE  /\ DigitsTo(b, i + 1) = IF Ticks!IsDigit(b[i + 1]) THEN DigitsTo(b, i) \cup {i + 1}
                                   ELSE DigitsTo(b, i)
           /\ DotsTo(b, i + 1) = IF b[i + 1] = "." THEN DotsTo(b, i) \cup {i + 1}
                                 ELSE DotsTo(b, i)
           /\ Cardinality(FractionTo(b, i + 1)) =
                  IF Ticks!IsDigit(b[i + 1]) /\ DotsTo(b, i) # {}
                  THEN Cardinality(FractionTo(b, i)) + 1 ELSE Cardinality(FractionTo(b, i))
  <1> DEFINE n == i + 1
  <1>1. n \in Nat /\ \A j : j \in 1 .. n <=> j \in 1 .. i \/ j = n
    OBVIOUS
  <1>2. DigitsTo(b, n) = IF Ticks!IsDigit(b[n]) THEN DigitsTo(b, i) \cup {n} ELSE DigitsTo(b, i)
    BY <1>1 DEF DigitsTo
  <1>3. DotsTo(b, n) = IF b[n] = "." THEN DotsTo(b, i) \cup {n} ELSE DotsTo(b, i)
    BY <1>1 DEF DotsTo
  <1>4. \A j : j \in DigitsTo(b, i) \/ j \in DotsTo(b, i) => j \in Nat /\ j < n
    BY DEF DigitsTo, DotsTo
  <1>5. ~Ticks!IsDigit(".")
    BY Characters
  <1>6. CASE Ticks!IsDigit(b[n]) /\ DotsTo(b, i) # {}
    <2>1. FractionTo(b, n) = FractionTo(b, i) \cup {n} /\ n \notin FractionTo(b, i)
      BY <1>2, <1>3, <1>4, <1>5, <1>6 DEF FractionTo
    <2>2. Cardinality(FractionTo(b, n)) = Cardinality(FractionTo(b, i)) + 1
      BY <2>1, PrefixFinite, FS_AddElement
    <2> QED BY <1>2, <1>3, <1>6, <2>2
  <1>7. CASE ~(Ticks!IsDigit(b[n]) /\ DotsTo(b, i) # {})
    <2>1. \A j, k \in Nat : j < k => ~(k < j)
      OBVIOUS
    <2>2. \A j \in DigitsTo(b, i) : j \in Nat /\ j < n /\ ~(n < j)
      BY <1>1, <1>4
    <2> HIDE DEF n
    <2>3. CASE Ticks!IsDigit(b[n])
      <3>1. DotsTo(b, n) = {} /\ DotsTo(b, i) = {}
        BY <1>3, <1>5, <1>7, <2>3
      <3> QED BY <1>2, <1>3, <2>3, <3>1 DEF FractionTo, n
    <2>4. CASE ~Ticks!IsDigit(b[n])
      <3>1. FractionTo(b, n) = FractionTo(b, i)
        BY <1>2, <1>3, <2>2, <2>4 DEF FractionTo
      <3> QED BY <1>2, <1>3, <2>4, <3>1 DEF n
    <2> QED BY <2>3, <2>4
  <1> QED BY <1>6, <1>7

-----------------------------------------------------------------------------
(* The scan *)

\* f holds the accumulator after each of the first n characters.
IsScan(f, D, b, n) ==
    f = [i \in 0 .. n |-> IF i = 0 THEN Fixed(D)!Start ELSE Fixed(D)!Feed(f[i - 1], b[i])]

\* There is such a function.
LEMMA ScanExists ==
    ASSUME NEW D, NEW b
    PROVE  \A n \in Nat : \E f : IsScan(f, D, b, n)
  <1> DEFINE S == {n \in Nat : \E f : IsScan(f, D, b, n)}
  <1>1. 0 \in S
    <2>1. IsScan([k \in 0 .. 0 |-> Fixed(D)!Start], D, b, 0)
      BY DEF IsScan
    <2> QED BY <2>1
  <1>2. ASSUME NEW n \in S PROVE n + 1 \in S
    <2>1. PICK p : IsScan(p, D, b, n)
      OBVIOUS
    <2> DEFINE q == [k \in 0 .. n + 1 |->
                        IF k = 0 THEN Fixed(D)!Start ELSE Fixed(D)!Feed(p[k - 1], b[k])]
    <2>2. \A k \in 0 .. n : q[k] = p[k]
      BY <2>1 DEF IsScan
    <2>3. \A k \in 0 .. n + 1 : k # 0 => k - 1 \in 0 .. n
      OBVIOUS
    <2>4. \A k \in 0 .. n + 1 :
             q[k] = IF k = 0 THEN Fixed(D)!Start ELSE Fixed(D)!Feed(q[k - 1], b[k])
      BY <2>2, <2>3
    <2>5. q = [k \in 0 .. n + 1 |-> q[k]]
      OBVIOUS
    <2> HIDE DEF q
    <2>6. IsScan(q, D, b, n + 1)
      BY <2>4, <2>5 DEF IsScan
    <2> QED BY <2>6
  <1> HIDE DEF S
  <1>3. S = Nat
    BY <1>1, <1>2, SetInduction DEF S
  <1> QED BY <1>3 DEF S

\* Scan is its last value.
LEMMA ScanIs ==
    ASSUME NEW D, NEW b, Len(b) \in Nat
    PROVE  \E f : IsScan(f, D, b, Len(b)) /\ Fixed(D)!Scan(b) = f[Len(b)]
  <1> DEFINE f == CHOOSE g : IsScan(g, D, b, Len(b))
  <1>1. IsScan(f, D, b, Len(b))
    BY ScanExists
  <1>2. Fixed(D)!Scan(b) = f[Len(b)]
    BY DEF Fixed!Scan, IsScan
  <1> QED BY <1>1, <1>2

\* The first i characters are digits and at most one dot.
Decimal(b, i) ==
    /\ \A j \in 1 .. i : j \in DotsTo(b, i) \cup DigitsTo(b, i)
    /\ \A j, k \in DotsTo(b, i) : j = k

\* v has t digits, none of them leading zeros.
Sized(v, t) ==
    /\ t \in 0 .. MaxPlaces + 1 /\ (t = 0 <=> v = 0)
    /\ t > 0 => Ticks!Pow10[t - 1] <= v
    /\ v < Ticks!Pow10[t]

\* The accumulator holds what has been read.
Holds(b, i, a) ==
    /\ Decimal(b, i)
    /\ a.saw_dot \in BOOLEAN /\ (a.saw_dot <=> DotsTo(b, i) # {})
    /\ a.saw_any_digit \in BOOLEAN /\ (a.saw_any_digit <=> DigitsTo(b, i) # {})
    /\ a.frac_digits = Cardinality(FractionTo(b, i))
    /\ a.mantissa = -ValueTo(b, i) /\ ValueTo(b, i) <= Ticks!MAX + 1
    /\ Sized(ValueTo(b, i), a.total_digits)

Accumulators ==
    [mantissa : Int, total_digits : Nat, frac_digits : Nat,
     saw_dot : BOOLEAN, saw_any_digit : BOOLEAN, err : {"Ok", "Overflow", "InvalidFormat"}]

\* The invariant of the scan.
Scanned(b, i, a) ==
    /\ a \in Accumulators
    /\ a.err = "Ok" => Holds(b, i, a)
    /\ a.err = "Overflow" => ValueTo(b, i) > Ticks!MAX + 1
    /\ a.err = "InvalidFormat" => ~Decimal(b, i)

\* A digit more: the length of the number and its bound tell whether it still
\* fits the word.
LEMMA DigitFits ==
    ASSUME NEW D, NEW v \in Nat, NEW t, NEW d \in 0 .. 9, Sized(v, t), v <= Ticks!MAX + 1,
           ~(d = 0 /\ v = 0)
    PROVE  LET w == 10 * v + d
           IN  IF t + 1 > MaxPlaces + 1 \/ (t + 1 = MaxPlaces + 1 /\ -w \notin Ticks!Raw)
               THEN w > Ticks!MAX + 1
               ELSE /\ Fixed(D)!Wrapped(-w) = -w /\ w <= Ticks!MAX + 1 /\ Sized(w, t + 1)
  <1> DEFINE w == 10 * v + d
             X == Ticks!MAX
             T == Ticks!Pow10
  <1>1. MaxPlaces \in Nat /\ X \in Nat /\ t \in Nat /\ t <= MaxPlaces + 1
    BY PlacesFacts, WordFacts DEF Sized
  <1>2. T[MaxPlaces] <= X /\ X + 1 < T[MaxPlaces + 1]
    <2>1. Ticks!MIN = -(X + 1) /\ X \in Int
      BY WordFacts
    <2>2. -Ticks!MIN < T[MaxPlaces + 1] /\ T[MaxPlaces] <= X
      BY NumericAssumption
    <2>3. -Ticks!MIN = X + 1
      BY <2>1
    <2> QED BY <2>2, <2>3
  <1>3. T[0] = 1 /\ \A k \in Nat : T[k] \in Nat \ {0} /\ T[k] \in Int /\ T[k + 1] = 10 * T[k]
    BY TensStep
  <1>4. \A j, k \in Nat : j <= k => T[j] <= T[k]
    BY Tens
  <1>5. (t = 0 <=> v = 0) /\ (t > 0 => T[t - 1] <= v) /\ v < T[t]
    BY DEF Sized
  <1>6. \A z : z \in Ticks!Raw <=> z \in Int /\ -(X + 1) <= z /\ z <= X
    BY WordFacts
  <1>7. w \in Nat /\ w # 0
    OBVIOUS
  <1> HIDE DEF X, T
  <1>8. T[t] \in Int /\ T[t + 1] = 10 * T[t]
    BY <1>1, <1>3
  <1>9. w < T[t + 1]
    BY <1>5, <1>8
  <1>10. T[t] <= w
    <2>1. CASE t = 0
      BY <1>3, <1>7, <2>1
    <2>2. CASE t # 0
      <3>1. t - 1 \in Nat /\ (t - 1) + 1 = t /\ t > 0
        BY <1>1, <2>2
      <3>2. T[t] = 10 * T[t - 1] /\ T[t - 1] \in Int /\ T[t - 1] <= v
        BY <1>3, <1>5, <3>1
      <3> QED BY <3>2
    <2> QED BY <2>1, <2>2
  <1>11. CASE t + 1 > MaxPlaces + 1
    <2>1. t = MaxPlaces + 1
      BY <1>1, <1>11
    <2>2. w > X + 1
      BY <1>1, <1>2, <1>7, <1>8, <1>10, <2>1
    <2> QED BY <1>11, <2>2 DEF X
  <1>12. CASE t + 1 = MaxPlaces + 1 /\ -w \notin Ticks!Raw
    <2>1. w > X + 1
      BY <1>1, <1>6, <1>7, <1>12
    <2> QED BY <1>12, <2>1 DEF X
  <1>13. CASE ~(t + 1 > MaxPlaces + 1) /\ ~(t + 1 = MaxPlaces + 1 /\ -w \notin Ticks!Raw)
    <2>1. w <= X + 1
      <3>1. CASE t + 1 = MaxPlaces + 1
        <4>1. -(X + 1) <= -w
          BY <1>6, <1>13, <3>1
        <4> HIDE DEF w
        <4> QED BY <1>1, <1>7, <4>1
      <3>2. CASE t + 1 # MaxPlaces + 1
        <4>1. t + 1 <= MaxPlaces /\ t + 1 \in Nat
          BY <1>1, <1>13, <3>2
        <4>2. T[t + 1] <= T[MaxPlaces] /\ T[t + 1] \in Int /\ T[MaxPlaces] \in Int
          BY <1>1, <1>3, <1>4, <4>1
        <4> HIDE DEF w
        <4> QED BY <1>1, <1>2, <1>7, <1>9, <4>2
      <3> QED BY <3>1, <3>2
    <2>2. Fixed(D)!Wrapped(-w) = -w
      <3> DEFINE M == Ticks!Modulus
                 m == Ticks!MIN
      <3>1. M \in Nat \ {0} /\ M = 2 * (X + 1) /\ m = -(X + 1)
        BY WordFacts DEF X
      <3>2. Fixed(D)!Wrapped(-w) = ((-w - m) % M) + m
        BY OneWord DEF Fixed!Wrapped
      <3> HIDE DEF M, m, w
      <3>3. -w - m \in Int /\ 0 <= -w - m /\ -w - m < M
        BY <1>1, <1>7, <2>1, <3>1
      <3>4. (-w - m) % M = -w - m
        BY <3>1, <3>3
      <3> QED BY <1>1, <1>7, <3>1, <3>2, <3>4
    <2>3. Sized(w, t + 1)
      <3>1. t + 1 \in 0 .. MaxPlaces + 1 /\ t + 1 # 0 /\ (t + 1) - 1 = t
        BY <1>1, <1>13
      <3> HIDE DEF w
      <3> QED BY <1>7, <1>9, <1>10, <3>1 DEF Sized, T
    <2> QED BY <1>13, <2>1, <2>2, <2>3 DEF X
  <1> QED BY <1>11, <1>12, <1>13

\* What is read stays read: a malformed prefix does not become decimal.
LEMMA DecimalStep ==
    ASSUME NEW b, NEW i \in Nat
    PROVE  Decimal(b, i + 1) <=>
             /\ Decimal(b, i)
             /\ Ticks!IsDigit(b[i + 1]) \/ b[i + 1] = "."
             /\ b[i + 1] = "." => DotsTo(b, i) = {}
  <1> DEFINE n == i + 1
             S == DigitsTo(b, i)
             O == DotsTo(b, i)
  <1>1. \A j : j \in 1 .. n <=> j \in 1 .. i \/ j = n
    OBVIOUS
  <1>2. n \notin 1 .. i
    OBVIOUS
  <1>3. DigitsTo(b, n) = IF Ticks!IsDigit(b[n]) THEN S \cup {n} ELSE S
    BY PrefixStep
  <1>4. DotsTo(b, n) = IF b[n] = "." THEN O \cup {n} ELSE O
    BY PrefixStep
  <1>5. n \notin S /\ n \notin O /\ S \subseteq 1 .. i /\ O \subseteq 1 .. i
    BY <1>2 DEF DigitsTo, DotsTo
  <1> HIDE DEF n, S, O
  <1>6. Decimal(b, n) <=> /\ \A j \in 1 .. n : j \in DotsTo(b, n) \cup DigitsTo(b, n)
                          /\ \A j, k \in DotsTo(b, n) : j = k
    BY DEF Decimal
  <1>7. Decimal(b, i) <=> /\ \A j \in 1 .. i : j \in O \cup S
                          /\ \A j, k \in O : j = k
    BY DEF Decimal, O, S
  <1>8. /\ (\A j \in 1 .. n : j \in DotsTo(b, n) \cup DigitsTo(b, n)) <=>
              (\A j \in 1 .. i : j \in O \cup S) /\ (Ticks!IsDigit(b[n]) \/ b[n] = ".")
        /\ (\A j, k \in DotsTo(b, n) : j = k) <=>
              (\A j, k \in O : j = k) /\ (b[n] = "." => O = {})
    <2>1. \A j \in 1 .. i : j \in DotsTo(b, n) \cup DigitsTo(b, n) <=> j \in O \cup S
      BY <1>2, <1>3, <1>4
    <2>2. n \in DotsTo(b, n) \cup DigitsTo(b, n) <=> Ticks!IsDigit(b[n]) \/ b[n] = "."
      BY <1>3, <1>4, <1>5
    <2>3. (\A j \in 1 .. n : j \in DotsTo(b, n) \cup DigitsTo(b, n)) <=>
              (\A j \in 1 .. i : j \in O \cup S) /\ (Ticks!IsDigit(b[n]) \/ b[n] = ".")
      BY <1>1, <2>1, <2>2, Zenon
    <2>4. CASE b[n] = "."
      BY <1>4, <1>5, <2>3, <2>4
    <2>5. CASE b[n] # "."
      BY <1>4, <2>3, <2>5
    <2> QED BY <2>4, <2>5
  <1>9. Decimal(b, n) <=> /\ Decimal(b, i)
                          /\ Ticks!IsDigit(b[n]) \/ b[n] = "."
                          /\ b[n] = "." => O = {}
    BY <1>6, <1>7, <1>8
  <1> QED BY <1>9 DEF n, O

\* The first accumulator.
LEMMA ScanStarts ==
    ASSUME NEW D, NEW b
    PROVE  Scanned(b, 0, Fixed(D)!Start)
  <1>1. DigitsTo(b, 0) = {} /\ DotsTo(b, 0) = {} /\ FractionTo(b, 0) = {}
    BY DEF DigitsTo, DotsTo, FractionTo
  <1>2. ValueTo(b, 0) = 0 /\ Cardinality(FractionTo(b, 0)) = 0
    BY <1>1, ValueNat, FS_EmptySet
  <1>3. Decimal(b, 0)
    BY <1>1 DEF Decimal
  <1>4. Sized(0, 0)
    BY PlacesFacts, TensStep DEF Sized
  <1>5. Ticks!MAX \in Nat
    BY WordFacts
  <1>6. /\ Fixed(D)!Start \in Accumulators /\ Fixed(D)!Start.err = "Ok"
        /\ Fixed(D)!Start.mantissa = 0 /\ Fixed(D)!Start.total_digits = 0
        /\ Fixed(D)!Start.frac_digits = 0 /\ Fixed(D)!Start.saw_dot = FALSE
        /\ Fixed(D)!Start.saw_any_digit = FALSE
    BY DEF Fixed!Start, Accumulators
  <1>7. Holds(b, 0, Fixed(D)!Start)
    <2> DEFINE a == Fixed(D)!Start
    <2>1. /\ a.mantissa = -ValueTo(b, 0) /\ ValueTo(b, 0) <= Ticks!MAX + 1
          /\ Sized(ValueTo(b, 0), a.total_digits)
      BY <1>2, <1>4, <1>5, <1>6
    <2>2. /\ a.saw_dot \in BOOLEAN /\ (a.saw_dot <=> DotsTo(b, 0) # {})
          /\ a.saw_any_digit \in BOOLEAN /\ (a.saw_any_digit <=> DigitsTo(b, 0) # {})
          /\ a.frac_digits = Cardinality(FractionTo(b, 0))
      BY <1>1, <1>2, <1>6
    <2> QED BY <1>3, <2>1, <2>2 DEF Holds
  <1> QED BY <1>6, <1>7 DEF Scanned

\* A digit.
LEMMA DigitStep ==
    ASSUME NEW D, NEW b, NEW i \in Nat, NEW a, Scanned(b, i, a), a.err = "Ok",
           Ticks!IsDigit(b[i + 1])
    PROVE  Scanned(b, i + 1, Fixed(D)!FeedDigit(a, Ticks!DigitValue(b[i + 1])))
  <1> DEFINE n == i + 1
             d == Ticks!DigitValue(b[n])
             v == ValueTo(b, i)
             w == 10 * v + d
             t == a.total_digits
             X == Ticks!MAX
             frac == IF a.saw_dot THEN a.frac_digits + 1 ELSE a.frac_digits
             seen == [a EXCEPT !.frac_digits = frac, !.saw_any_digit = TRUE]
             over == t + 1 > MaxPlaces + 1 \/ (t + 1 = MaxPlaces + 1 /\ -w \notin Ticks!Raw)
             last == Fixed(D)!FeedDigit(a, d)
  <1>1. Holds(b, i, a) /\ a \in Accumulators
    BY DEF Scanned
  <1>2. d \in 0 .. 9 /\ v \in Nat /\ X \in Nat /\ MaxPlaces \in Nat /\ n \in Nat
    BY Characters, ValueNat, WordFacts, PlacesFacts
  <1>3. ValueTo(b, n) = w
    BY ValueStep
  <1>4. DotsTo(b, n) = DotsTo(b, i)
    <2>1. b[n] # "."
      BY Characters
    <2> QED BY <2>1, PrefixStep
  <1>5. DigitsTo(b, n) # {}
    BY PrefixStep
  <1>6. frac = Cardinality(FractionTo(b, n)) /\ frac \in Nat
    <2>1. a.frac_digits = Cardinality(FractionTo(b, i)) /\ (a.saw_dot <=> DotsTo(b, i) # {})
          /\ a.frac_digits \in Nat /\ a.saw_dot \in BOOLEAN
      BY <1>1 DEF Holds, Accumulators
    <2>2. Cardinality(FractionTo(b, n)) = IF DotsTo(b, i) # {} THEN a.frac_digits + 1
                                          ELSE a.frac_digits
      BY <2>1, PrefixStep
    <2> QED BY <2>1, <2>2
  <1>7. Decimal(b, n)
    <2>1. b[n] # "."
      BY Characters
    <2> QED BY <1>1, <2>1, DecimalStep DEF Holds
  <1>8. a.mantissa = -v /\ v <= X + 1 /\ Sized(v, t)
    BY <1>1 DEF Holds
  <1> HIDE DEF d, v, X, frac, n
  <1>9. a.mantissa * 10 - d = -w
    BY <1>2, <1>8
  <1>10. last = IF d = 0 /\ a.mantissa = 0 THEN seen
                ELSE IF over THEN [a EXCEPT !.err = "Overflow"]
                ELSE [seen EXCEPT !.mantissa = Fixed(D)!Wrapped(-w), !.total_digits = t + 1]
    <2>1. Fixed(D)!Raw = Ticks!Raw /\ Fixed(D)!MaxDigits = MaxPlaces + 1
      BY OneWord DEF Fixed!MaxDigits
    <2> HIDE DEF w
    <2>2. last = IF d = 0 /\ a.mantissa = 0 THEN seen
                 ELSE IF \/ t + 1 > Fixed(D)!MaxDigits
                         \/ t + 1 = Fixed(D)!MaxDigits /\ a.mantissa * 10 - d \notin Fixed(D)!Raw
                 THEN [a EXCEPT !.err = "Overflow"]
                 ELSE [seen EXCEPT !.mantissa = Fixed(D)!Wrapped(a.mantissa * 10 - d),
                                   !.total_digits = @ + 1]
      BY DEF Fixed!FeedDigit, frac
    <2>3. seen.total_digits = t
      BY <1>1 DEF Accumulators
    <2> HIDE DEF seen, last
    <2> QED BY <1>9, <2>1, <2>2, <2>3
  <1>11. /\ seen \in Accumulators /\ seen.err = "Ok" /\ seen.frac_digits = frac
         /\ seen.saw_any_digit = TRUE /\ seen.saw_dot = a.saw_dot
         /\ seen.mantissa = a.mantissa /\ seen.total_digits = t
    BY <1>1, <1>6 DEF Accumulators
  <1>12. a.saw_dot \in BOOLEAN /\ (a.saw_dot <=> DotsTo(b, n) # {})
    BY <1>1, <1>4 DEF Holds
  <1>13. t \in Nat
    BY <1>1 DEF Accumulators
  <1> HIDE DEF seen, last
  <1>14. CASE d = 0 /\ a.mantissa = 0
    <2>1. last = seen /\ w = v /\ w = 0
      BY <1>2, <1>8, <1>10, <1>14
    <2>2. Holds(b, n, seen)
      BY <1>3, <1>5, <1>6, <1>7, <1>8, <1>11, <1>12, <2>1 DEF Holds, X
    <2>3. Scanned(b, n, seen)
      BY <1>11, <2>2 DEF Scanned
    <2> QED BY <2>1, <2>3 DEF last, n, d
  <1>15. CASE ~(d = 0 /\ a.mantissa = 0)
    <2>1. ~(d = 0 /\ v = 0)
      BY <1>2, <1>8, <1>15
    <2>2. IF over THEN w > X + 1
          ELSE Fixed(D)!Wrapped(-w) = -w /\ w <= X + 1 /\ Sized(w, t + 1)
      BY <1>2, <1>8, <2>1, DigitFits DEF X
    <2>3. CASE over
      <3>1. last = [a EXCEPT !.err = "Overflow"]
        BY <1>10, <1>15, <2>3
      <3>2. last \in Accumulators /\ last.err = "Overflow"
        BY <1>1, <3>1 DEF Accumulators
      <3>3. w > X + 1
        BY <2>2, <2>3
      <3>4. Scanned(b, n, last)
        BY <1>3, <3>2, <3>3 DEF Scanned, X
      <3> QED BY <3>4 DEF last, n, d
    <2>4. CASE ~over
      <3>1. last = [seen EXCEPT !.mantissa = -w, !.total_digits = t + 1]
        BY <1>10, <1>15, <2>2, <2>4
      <3>2. -w \in Int /\ t + 1 \in Nat
        BY <1>2, <1>13
      <3> HIDE DEF w
      <3>3. /\ last \in Accumulators /\ last.err = "Ok" /\ last.frac_digits = frac
            /\ last.saw_any_digit = TRUE /\ last.saw_dot = a.saw_dot
            /\ last.mantissa = -w /\ last.total_digits = t + 1
        BY <1>11, <3>1, <3>2 DEF Accumulators
      <3>4. w <= X + 1 /\ Sized(w, t + 1)
        BY <2>2, <2>4
      <3>5. Holds(b, n, last)
        BY <1>3, <1>5, <1>6, <1>7, <1>12, <3>3, <3>4 DEF Holds, X
      <3>6. Scanned(b, n, last)
        BY <3>3, <3>5 DEF Scanned
      <3> QED BY <3>6 DEF last, n, d
    <2> QED BY <2>3, <2>4
  <1> QED BY <1>14, <1>15

\* Every character keeps the invariant of the scan.
LEMMA ScanStep ==
    ASSUME NEW D, NEW b, NEW i \in Nat, NEW a, Scanned(b, i, a)
    PROVE  Scanned(b, i + 1, Fixed(D)!Feed(a, b[i + 1]))
  <1> DEFINE n == i + 1
             c == b[n]
             next == Fixed(D)!Feed(a, c)
  <1>1. next = IF a.err # "Ok" THEN a
               ELSE IF Ticks!IsDigit(c) THEN Fixed(D)!FeedDigit(a, Ticks!DigitValue(c))
               ELSE IF c = "." /\ ~a.saw_dot THEN [a EXCEPT !.saw_dot = TRUE]
               ELSE [a EXCEPT !.err = "InvalidFormat"]
    BY OneAlphabet DEF Fixed!Feed
  <1>2. ValueTo(b, i) \in Nat /\ Ticks!MAX \in Nat
    BY ValueNat, WordFacts
  <1>3. a \in Accumulators
    BY DEF Scanned
  <1>4. CASE a.err # "Ok"
    <2>1. next = a
      BY <1>1, <1>4
    <2>2. ValueTo(b, n) >= ValueTo(b, i)
      <3>1. ValueTo(b, n) = IF Ticks!IsDigit(c) THEN 10 * ValueTo(b, i) + Ticks!DigitValue(c)
                            ELSE ValueTo(b, i)
        BY ValueStep
      <3>2. Ticks!IsDigit(c) => Ticks!DigitValue(c) \in 0 .. 9
        BY Characters
      <3> QED BY <1>2, <3>1, <3>2
    <2>3. ValueTo(b, n) \in Nat
      BY ValueNat
    <2>4. a.err = "Overflow" => ValueTo(b, n) > Ticks!MAX + 1
      BY <1>2, <2>2, <2>3 DEF Scanned
    <2>5. Decimal(b, n) => Decimal(b, i)
      BY DecimalStep
    <2>6. Scanned(b, n, a)
      BY <1>3, <1>4, <2>4, <2>5 DEF Scanned
    <2> QED BY <2>1, <2>6
  <1>5. CASE a.err = "Ok" /\ Ticks!IsDigit(c)
    BY <1>1, <1>5, DigitStep
  <1>6. CASE a.err = "Ok" /\ ~Ticks!IsDigit(c)
    <2>1. Holds(b, i, a)
      BY <1>6 DEF Scanned
    <2>2. a.saw_dot \in BOOLEAN /\ (a.saw_dot <=> DotsTo(b, i) # {})
      BY <2>1 DEF Holds
    <2>3. CASE c = "." /\ ~a.saw_dot
      <3>1. next = [a EXCEPT !.saw_dot = TRUE]
        BY <1>1, <1>6, <2>3
      <3>2. /\ next \in Accumulators /\ next.err = "Ok" /\ next.saw_dot = TRUE
            /\ next.saw_any_digit = a.saw_any_digit /\ next.frac_digits = a.frac_digits
            /\ next.mantissa = a.mantissa /\ next.total_digits = a.total_digits
        BY <1>3, <1>6, <3>1 DEF Accumulators
      <3>3. /\ DigitsTo(b, n) = DigitsTo(b, i) /\ DotsTo(b, n) # {}
            /\ Cardinality(FractionTo(b, n)) = Cardinality(FractionTo(b, i))
        BY <1>6, <2>3, PrefixStep
      <3>4. ValueTo(b, n) = ValueTo(b, i)
        BY <1>6, ValueStep
      <3>5. Decimal(b, n)
        BY <2>1, <2>2, <2>3, DecimalStep DEF Holds
      <3> HIDE DEF next, n
      <3>6. Holds(b, n, next)
        BY <2>1, <3>2, <3>3, <3>4, <3>5 DEF Holds
      <3>7. Scanned(b, n, next)
        BY <3>2, <3>6 DEF Scanned
      <3> QED BY <3>7 DEF next, n
    <2>4. CASE ~(c = "." /\ ~a.saw_dot)
      <3>1. next = [a EXCEPT !.err = "InvalidFormat"]
        BY <1>1, <1>6, <2>4
      <3>2. next \in Accumulators /\ next.err = "InvalidFormat"
        BY <1>3, <3>1 DEF Accumulators
      <3>3. ~Decimal(b, n)
        BY <1>6, <2>2, <2>4, DecimalStep
      <3> QED BY <3>2, <3>3 DEF Scanned
    <2> QED BY <2>3, <2>4
  <1> QED BY <1>4, <1>5, <1>6

\* The accumulator at the end of a text.
LEMMA ScanHolds ==
    ASSUME NEW D, NEW b, Len(b) \in Nat
    PROVE  Scanned(b, Len(b), Fixed(D)!Scan(b))
  <1> DEFINE n == Len(b)
  <1>1. PICK f : IsScan(f, D, b, n) /\ Fixed(D)!Scan(b) = f[n]
    BY ScanIs
  <1> HIDE DEF n
  <1> DEFINE S == {i \in Nat : i <= n => Scanned(b, i, f[i])}
  <1>2. n \in Nat
    BY DEF n
  <1>3. f[0] = Fixed(D)!Start
    BY <1>1, <1>2 DEF IsScan
  <1>4. 0 \in S
    BY <1>3, ScanStarts
  <1>5. ASSUME NEW i \in S PROVE i + 1 \in S
    <2> SUFFICES ASSUME i + 1 <= n PROVE Scanned(b, i + 1, f[i + 1])
      OBVIOUS
    <2>1. i \in Nat /\ i <= n /\ i + 1 \in 0 .. n /\ i + 1 # 0 /\ (i + 1) - 1 = i
      BY <1>2
    <2>2. f[i + 1] = Fixed(D)!Feed(f[i], b[i + 1])
      BY <1>1, <2>1 DEF IsScan
    <2>3. Scanned(b, i, f[i])
      BY <2>1
    <2> QED BY <2>1, <2>2, <2>3, ScanStep
  <1> HIDE DEF S
  <1>6. S = Nat
    BY <1>4, <1>5, SetInduction DEF S
  <1> QED BY <1>1, <1>2, <1>6 DEF S, n

-----------------------------------------------------------------------------
(* Whole texts *)

\* The whole of a text, by its first Len(b) characters.
LEMMA WholeText ==
    ASSUME NEW S, NEW b \in Seq(S)
    PROVE  /\ Len(b) \in Nat /\ DOMAIN b = 1 .. Len(b)
           /\ DotsOf(b) = DotsTo(b, Len(b)) /\ DigitsIn(b) = DigitsTo(b, Len(b))
           /\ FractionDigits(b) = Cardinality(FractionTo(b, Len(b)))
           /\ FractionDigits(b) \in Nat
           /\ WellFormed(b) <=> Decimal(b, Len(b)) /\ DigitsTo(b, Len(b)) # {}
  <1> DEFINE n == Len(b)
             O == DotsTo(b, n)
             T == DigitsTo(b, n)
  <1>1. n \in Nat /\ DOMAIN b = 1 .. n
    OBVIOUS
  <1>2. DotsOf(b) = O /\ DigitsIn(b) = T
    BY <1>1 DEF DotsOf, DigitsIn, DotsTo, DigitsTo
  <1>3. FractionDigits(b) = Cardinality(FractionTo(b, n))
    BY <1>2 DEF FractionDigits, FractionTo
  <1>4. IsFiniteSet(O) /\ Cardinality(FractionTo(b, n)) \in Nat
    BY <1>1, PrefixFinite
  <1>5. Cardinality(O) <= 1 <=> \A j, k \in O : j = k
    <2> HIDE DEF O
    <2>0. Cardinality(O) \in Nat
      BY <1>4, FS_CardinalityType
    <2>1. CASE O = {}
      BY <2>1, FS_EmptySet
    <2>2. CASE O # {}
      <3>1. Cardinality(O) # 0
        BY <1>4, <2>2, FS_EmptySet
      <3>2. Cardinality(O) = 1 <=> \E x : O = {x}
        BY <1>4, FS_Singleton
      <3>3. (\E x : O = {x}) <=> \A j, k \in O : j = k
        <4>1. PICK x \in O : TRUE
          BY <2>2
        <4>2. ASSUME \A j, k \in O : j = k PROVE O = {x}
          BY <4>1, <4>2
        <4>3. ASSUME NEW y, O = {y} PROVE \A j, k \in O : j = k
          BY <4>3
        <4> QED BY <4>2, <4>3
      <3> QED BY <2>0, <3>1, <3>2, <3>3
    <2> QED BY <2>1, <2>2
  <1>6. 1 .. n = O \cup T <=> \A j \in 1 .. n : j \in O \cup T
    BY DEF DotsTo, DigitsTo
  <1> HIDE DEF O, T, n
  <1>7. WellFormed(b) <=> Decimal(b, n) /\ T # {}
    BY <1>1, <1>2, <1>5, <1>6 DEF WellFormed, Decimal, O, T
  <1> QED BY <1>1, <1>2, <1>3, <1>4, <1>7 DEF n, O, T

\* The reference value of a text.
LEMMA UnscaledIs ==
    ASSUME NEW S, NEW s \in Seq(S)
    PROVE  LET v == ValueTo(Body(s), Len(Body(s)))
           IN  /\ Body(s) \in Seq(S) /\ v \in Nat
               /\ Unscaled(s) = IF s[1] = "-" THEN -v ELSE v
  <1> DEFINE b == Body(s)
             n == Len(b)
             T == DigitsTo(b, n)
  <1>1. b \in Seq(S)
    BY DEF Body
  <1>2. DigitsIn(b) = T /\ n \in Nat
    BY <1>1, WholeText
  <1>3. ValueTo(b, n) \in Nat
    BY <1>2, ValueNat
  <1> DEFINE worth == [i \in DigitsIn(b) |-> Ticks!DigitValue(b[i])
                         * Ticks!Pow10[Cardinality({j \in DigitsIn(b) : j > i})]]
  <1>4. worth = WorthTo(b, n) /\ DOMAIN worth = T
    BY <1>2 DEF WorthTo, After
  <1>5. Unscaled(s) = IF s[1] = "-" THEN -SumFunction(worth) ELSE SumFunction(worth)
    BY DEF Unscaled
  <1> HIDE DEF worth, T
  <1>6. SumFunction(worth) = ValueTo(b, n)
    BY <1>4 DEF SumFunction, ValueTo, T
  <1> QED BY <1>1, <1>3, <1>5, <1>6

\* parse_decimal_bytes: the value of a text that fits, an error for any other,
\* and which error.
LEMMA ParseExact ==
    ASSUME NEW D \in Nat, NEW S, NEW s \in Seq(S)
    PROVE  LET p == Fixed(D)!ParseDecimal(s)
               b == Body(s)
               fits == /\ WellFormed(b) /\ FractionDigits(b) <= D
                       /\ Unscaled(s) * Ticks!Pow10[D - FractionDigits(b)] \in Ticks!Raw
           IN  /\ (p.err = "Ok") <=> fits
               /\ fits => p = [err |-> "Ok",
                               value |-> Unscaled(s) * Ticks!Pow10[D - FractionDigits(b)]]
               /\ (WellFormed(b) /\ p.err = "ExcessPrecision") => FractionDigits(b) > D
               /\ WellFormed(b) => p.err # "InvalidFormat"
  <1> DEFINE p == Fixed(D)!ParseDecimal(s)
             b == Body(s)
             n == Len(b)
             v == ValueTo(b, n)
             u == Unscaled(s)
             F == FractionDigits(b)
             acc == Fixed(D)!Scan(b)
             T == Ticks!Pow10
             value == u * T[D - F]
             fits == WellFormed(b) /\ F <= D /\ value \in Ticks!Raw
             X == Ticks!MAX
             negative == s # <<>> /\ s[1] = "-"
             signed == IF negative THEN acc.mantissa ELSE -acc.mantissa
             scaled == signed * T[D - acc.frac_digits]
             Fail(e) == [err |-> e, value |-> 0]
  <1> SUFFICES /\ (p.err = "Ok") <=> fits
               /\ fits => p = [err |-> "Ok", value |-> value]
               /\ (WellFormed(b) /\ p.err = "ExcessPrecision") => F > D
               /\ WellFormed(b) => p.err # "InvalidFormat"
    OBVIOUS
  <1>1. b \in Seq(S) /\ v \in Nat /\ u = IF s[1] = "-" THEN -v ELSE v
    BY UnscaledIs
  <1>2. /\ n \in Nat /\ F = Cardinality(FractionTo(b, n)) /\ F \in Nat
        /\ (WellFormed(b) <=> Decimal(b, n) /\ DigitsTo(b, n) # {})
    BY <1>1, WholeText
  <1>3. Scanned(b, n, acc)
    BY <1>2, ScanHolds
  <1>4. p = IF b = <<>> THEN Fail("InvalidFormat")
            ELSE IF acc.err # "Ok" THEN Fail(acc.err)
            ELSE IF ~acc.saw_any_digit THEN Fail("InvalidFormat")
            ELSE IF acc.frac_digits > D THEN Fail("ExcessPrecision")
            ELSE IF signed \notin Ticks!Raw \/ scaled \notin Ticks!Raw THEN Fail("Overflow")
            ELSE [err |-> "Ok", value |-> scaled]
    <2>1. Fixed(D)!Raw = Ticks!Raw /\ Fixed(D)!Pow10 = T
      BY OneWord
    <2> QED BY <2>1 DEF Fixed!ParseDecimal, Body
  <1>5. X \in Nat /\ \A z : z \in Ticks!Raw <=> z \in Int /\ -(X + 1) <= z /\ z <= X
    BY WordFacts
  <1>6. \A k \in Nat : T[k] \in Nat \ {0}
    BY TensStep
  <1>7. acc \in Accumulators
    BY <1>3 DEF Scanned
  <1> HIDE DEF p, n, v, u, F, acc, T, X, b
  <1>8. F <= D => value \in Int /\ (value \in Ticks!Raw => u \in Ticks!Raw /\ v <= X + 1)
    <2> SUFFICES ASSUME F <= D
                 PROVE  value \in Int /\ (value \in Ticks!Raw => u \in Ticks!Raw /\ v <= X + 1)
      OBVIOUS
    <2> DEFINE w == T[D - F]
    <2>1. D - F \in Nat
      BY <1>2
    <2>2. w \in Nat \ {0}
      BY <1>6, <2>1
    <2> HIDE DEF w
    <2>3. v * w \in Nat /\ v <= v * w /\ (-v) * w = -(v * w)
      BY <1>1, <2>2, SMT
    <2> DEFINE a == v * w
    <2>4. value = IF s[1] = "-" THEN -a ELSE a
      BY <1>1, <2>3 DEF w
    <2>5. a \in Nat /\ v <= a
      BY <2>3
    <2> HIDE DEF value, a
    <2> QED BY <1>1, <1>5, <2>4, <2>5
  <1>9. CASE b = <<>>
    <2>1. ~WellFormed(b)
      BY <1>9 DEF WellFormed, DigitsIn
    <2>2. p.err = "InvalidFormat"
      BY <1>4, <1>9
    <2> QED BY <2>1, <2>2
  <1>10. CASE b # <<>> /\ acc.err = "Overflow"
    <2>1. v > X + 1
      BY <1>3, <1>10 DEF Scanned, v, X
    <2>2. p.err = "Overflow"
      BY <1>4, <1>10
    <2>3. ~fits
      BY <1>1, <1>5, <1>8, <2>1
    <2> QED BY <2>2, <2>3
  <1>11. CASE b # <<>> /\ acc.err = "InvalidFormat"
    <2>1. ~WellFormed(b)
      BY <1>2, <1>3, <1>11 DEF Scanned
    <2>2. p.err = "InvalidFormat"
      BY <1>4, <1>11
    <2> QED BY <2>1, <2>2
  <1>12. CASE b # <<>> /\ acc.err = "Ok"
    <2>1. Holds(b, n, acc)
      BY <1>3, <1>12 DEF Scanned
    <2>2. /\ Decimal(b, n) /\ (acc.saw_any_digit <=> DigitsTo(b, n) # {})
          /\ acc.frac_digits = F /\ acc.mantissa = -v
      BY <1>2, <2>1 DEF Holds, v
    <2>3. CASE ~acc.saw_any_digit
      <3>1. p.err = "InvalidFormat"
        BY <1>4, <1>12, <2>3
      <3>2. ~WellFormed(b)
        BY <1>2, <2>2, <2>3
      <3> QED BY <3>1, <3>2
    <2>4. CASE acc.saw_any_digit /\ F > D
      <3>1. p.err = "ExcessPrecision"
        BY <1>4, <1>12, <2>2, <2>4
      <3>2. ~(F <= D)
        BY <1>2, <2>4
      <3> QED BY <2>4, <3>1, <3>2
    <2>5. CASE acc.saw_any_digit /\ ~(F > D)
      <3>1. s # <<>>
        BY <1>12 DEF b, Body
      <3>2. signed = u
        <4>1. -(-v) = v
          BY <1>1
        <4> QED BY <1>1, <2>2, <3>1, <4>1
      <3>3. scaled = value
        BY <2>2, <3>2
      <3>4. WellFormed(b) /\ F <= D
        BY <1>2, <2>2, <2>5
      <3>5. p = IF u \notin Ticks!Raw \/ value \notin Ticks!Raw THEN Fail("Overflow")
                ELSE [err |-> "Ok", value |-> value]
        BY <1>4, <1>12, <2>2, <2>5, <3>2, <3>3
      <3> HIDE DEF value
      <3>6. CASE value \in Ticks!Raw
        <4>1. p = [err |-> "Ok", value |-> value]
          BY <1>8, <3>4, <3>5, <3>6
        <4> QED BY <3>4, <3>6, <4>1
      <3>7. CASE value \notin Ticks!Raw
        <4>1. p.err = "Overflow"
          BY <3>5, <3>7
        <4> QED BY <3>7, <4>1
      <3> QED BY <3>6, <3>7
    <2> QED BY <2>3, <2>4, <2>5
  <1> QED BY <1>7, <1>9, <1>10, <1>11, <1>12 DEF Accumulators

-----------------------------------------------------------------------------
(* Display *)

\* One more digit of n, from the left.
LEMMA NextDigit ==
    ASSUME NEW n \in Nat, NEW k \in Nat
    PROVE  LET w == n \div Ticks!Pow10[k]
           IN  /\ w \in Nat /\ w % 10 \in 0 .. 9
               /\ w = 10 * (n \div Ticks!Pow10[k + 1]) + (w % 10)
  <1> DEFINE t == Ticks!Pow10[k]
             q == n \div t
             r == n % t
             h == q \div 10
             e == q % 10
  <1>1. t \in Nat \ {0} /\ Ticks!Pow10[k + 1] = 10 * t
    BY TensStep
  <1> SUFFICES q \in Nat /\ q % 10 \in 0 .. 9 /\ q = 10 * (n \div (10 * t)) + (q % 10)
    BY <1>1
  <1> HIDE DEF t
  <1>2. n = t * q + r /\ r \in Nat /\ r < t /\ q \in Nat
    BY <1>1, DivModNat
  <1> HIDE DEF q, r
  <1>3. q = 10 * h + e /\ e \in 0 .. 9 /\ h \in Nat
    BY <1>2
  <1> HIDE DEF h, e
  <1>4. n = (10 * t) * h + (t * e + r)
    BY <1>1, <1>2, <1>3, SMT
  <1>5. t * e + r \in Int /\ 0 <= t * e + r /\ t * e + r < 10 * t
    <2>1. t * e \in Int /\ 0 <= t * e /\ t * e <= t * 9
      BY <1>1, <1>3, SMT
    <2> DEFINE a == t * e
    <2>2. a \in Int /\ 0 <= a /\ a <= 9 * t
      BY <1>1, <2>1
    <2> HIDE DEF a
    <2>3. a + r \in Int /\ 0 <= a + r /\ a + r < 10 * t
      BY <1>1, <1>2, <2>2
    <2> QED BY <2>3 DEF a
  <1>6. 10 * t \in Nat \ {0} /\ h \in Int
    BY <1>1, <1>3
  <1>7. n \div (10 * t) = h
    BY <1>4, <1>5, <1>6, QuotientIs
  <1>8. q % 10 = e
    BY DEF e
  <1> QED BY <1>2, <1>3, <1>7, <1>8

\* The digits of n in a text, after its first p characters.
Written(b, p, c, n) ==
    \A i \in 1 .. c : b[p + i] = Ticks!Digits[((n \div Ticks!Pow10[c - i]) % 10) + 1]

\* They are digits, and add n to the value of the text.
Adds(b, p, c, n) ==
    /\ \A i \in 1 .. c : Ticks!IsDigit(b[p + i])
    /\ ValueTo(b, p + c) = ValueTo(b, p) * Ticks!Pow10[c] + n

\* The digits of n add n.
LEMMA WrittenValue ==
    ASSUME NEW b, NEW p \in Nat, NEW c \in Nat, NEW n \in Nat, n < Ticks!Pow10[c],
           Written(b, p, c, n)
    PROVE  Adds(b, p, c, n)
  <1> DEFINE T == Ticks!Pow10
             V(i) == ValueTo(b, p + i)
             rest(i) == n \div T[c - i]
             v == ValueTo(b, p)
  <1>1. T[0] = 1 /\ \A k \in Nat : T[k] \in Nat \ {0} /\ T[k] \in Int /\ T[k + 1] = 10 * T[k]
    BY TensStep
  <1>2. \A i \in 0 .. c : V(i) \in Nat
    <2>1. \A i \in 0 .. c : p + i \in Nat
      OBVIOUS
    <2> QED BY <2>1, ValueNat
  <1>3. v \in Nat
    BY ValueNat
  <1>4. ASSUME NEW i \in Nat, i + 1 <= c
        PROVE  /\ Ticks!IsDigit(b[p + (i + 1)])
               /\ V(i + 1) = 10 * V(i) + (rest(i + 1) % 10)
               /\ rest(i + 1) = 10 * rest(i) + (rest(i + 1) % 10)
               /\ rest(i + 1) \in Nat /\ rest(i + 1) % 10 \in 0 .. 9
    <2> DEFINE k == c - (i + 1)
               w == n \div T[k]
               e == w % 10
    <2>1. /\ k \in Nat /\ k + 1 = c - i /\ i + 1 \in 1 .. c
          /\ p + (i + 1) = (p + i) + 1 /\ p + i \in Nat
      BY <1>4
    <2>2. w \in Nat /\ e \in 0 .. 9 /\ w = 10 * (n \div T[k + 1]) + e
      <3> HIDE DEF k
      <3> QED BY <2>1, NextDigit
    <2>3. b[p + (i + 1)] = Ticks!Digits[e + 1]
      BY <2>1 DEF Written
    <2> HIDE DEF e
    <2>4. Ticks!IsDigit(b[p + (i + 1)]) /\ Ticks!DigitValue(b[p + (i + 1)]) = e
      BY <2>2, <2>3, Characters
    <2>5. ValueTo(b, (p + i) + 1) = IF Ticks!IsDigit(b[(p + i) + 1])
                                    THEN 10 * ValueTo(b, p + i) + Ticks!DigitValue(b[(p + i) + 1])
                                    ELSE ValueTo(b, p + i)
      BY <2>1, ValueStep
    <2>6. V(i + 1) = 10 * V(i) + e
      BY <2>1, <2>4, <2>5
    <2>7. rest(i) = n \div T[k + 1] /\ rest(i + 1) = w
      BY <2>1
    <2>8. rest(i + 1) % 10 = e
      BY <2>7 DEF e
    <2> HIDE DEF V, rest, w
    <2> QED BY <2>2, <2>4, <2>6, <2>7, <2>8
  <1> HIDE DEF T, V, v, rest
  <1> DEFINE I == {i \in Nat : i <= c => V(i) = v * T[i] + rest(i) /\ rest(i) \in Nat}
  <1>5. 0 \in I
    <2>1. rest(0) = 0
      <3>1. T[c] \in Nat \ {0} /\ c - 0 = c /\ n < T[c]
        BY <1>1 DEF T
      <3>2. n \div T[c] = 0
        BY <3>1
      <3> QED BY <3>1, <3>2 DEF rest
    <2>2. V(0) = v
      BY DEF V, v
    <2>3. v * T[0] + 0 = v
      BY <1>1, <1>3
    <2> QED BY <2>1, <2>2, <2>3
  <1>6. ASSUME NEW i \in I PROVE i + 1 \in I
    <2> SUFFICES ASSUME i + 1 <= c
                 PROVE  V(i + 1) = v * T[i + 1] + rest(i + 1) /\ rest(i + 1) \in Nat
      OBVIOUS
    <2>1. i \in Nat /\ i <= c
      OBVIOUS
    <2>2. V(i) = v * T[i] + rest(i) /\ rest(i) \in Nat
      BY <2>1
    <2> DEFINE e == rest(i + 1) % 10
    <2>3. V(i + 1) = 10 * V(i) + e /\ rest(i + 1) = 10 * rest(i) + e /\ rest(i + 1) \in Nat
          /\ e \in 0 .. 9
      BY <1>4, <2>1, Zenon
    <2> HIDE DEF e
    <2>4. T[i + 1] = 10 * T[i] /\ T[i] \in Int
      BY <1>1, <2>1
    <2>5. v * (10 * T[i]) = 10 * (v * T[i]) /\ v * T[i] \in Int
      BY <1>3, <2>4, SMT
    <2> DEFINE a == v * T[i]
    <2>6. a \in Int /\ V(i) = a + rest(i) /\ v * T[i + 1] = 10 * a
      BY <2>2, <2>4, <2>5
    <2> HIDE DEF a
    <2>7. V(i + 1) = 10 * a + rest(i + 1)
      BY <2>2, <2>3, <2>6
    <2> QED BY <2>3, <2>6, <2>7
  <1> HIDE DEF I
  <1>7. I = Nat
    BY <1>5, <1>6, SetInduction DEF I
  <1>8. V(c) = v * T[c] + rest(c)
    BY <1>7 DEF I
  <1>9. rest(c) = n
    <2>1. c - c = 0 /\ n \div 1 = n
      OBVIOUS
    <2> QED BY <1>1, <2>1 DEF rest
  <1>10. ASSUME NEW i \in 1 .. c PROVE Ticks!IsDigit(b[p + i])
    <2>1. i - 1 \in Nat /\ (i - 1) + 1 <= c /\ (i - 1) + 1 = i
      OBVIOUS
    <2>2. Ticks!IsDigit(b[p + ((i - 1) + 1)])
      BY <1>4, <2>1
    <2> QED BY <2>1, <2>2
  <1> QED BY <1>8, <1>9, <1>10 DEF V, v, T, Adds

\* The digits of a number that has at most MaxPlaces + 1 of them.
LEMMA DigitsOfIs ==
    ASSUME NEW D, NEW n \in Nat, NEW width \in 1 .. MaxPlaces + 1,
           n < Ticks!Pow10[MaxPlaces + 1]
    PROVE  LET g == Fixed(D)!DigitsOf(n, width)
           IN  \E c \in Nat : /\ c >= width /\ n < Ticks!Pow10[c]
                              /\ n < Ticks!Pow10[width] => c = width
                              /\ g = [i \in 1 .. c |->
                                        Ticks!Digits[((n \div Ticks!Pow10[c - i]) % 10) + 1]]
  <1> DEFINE T == Ticks!Pow10
             Q(k) == n < T[k] /\ k >= width /\ ((k > 1 /\ k > width) => n >= T[k - 1])
             count == CHOOSE k \in 1 .. MaxPlaces + 1 : Q(k)
             K == {k \in Nat : k >= width /\ n < T[k]}
  <1>1. MaxPlaces \in Nat /\ width \in Nat /\ width >= 1 /\ width <= MaxPlaces + 1
    BY PlacesFacts
  <1>2. \A k \in Nat : T[k] \in Int
    BY TensStep
  <1>3. \A j, k \in Nat : j <= k => T[j] <= T[k]
    BY Tens
  <1>4. Fixed(D)!DigitsOf(n, width) =
          [i \in 1 .. count |-> Ticks!Digits[((n \div T[count - i]) % 10) + 1]]
    <2>1. Fixed(D)!Pow10 = T /\ Fixed(D)!Digits = Ticks!Digits
      BY OneWord, OneAlphabet
    <2>2. Fixed(D)!MaxDigits = MaxPlaces + 1
      BY DEF Fixed!MaxDigits
    <2> QED BY <2>1, <2>2 DEF Fixed!DigitsOf
  <1> HIDE DEF T
  <1>5. MaxPlaces + 1 \in K
    BY <1>1 DEF T
  <1>6. PICK m \in K : \A k \in K : m <= k
    <2>1. K \in SUBSET Nat
      OBVIOUS
    <2> HIDE DEF K
    <2> QED BY <1>5, <2>1, LeastNumber
  <1>7. m \in 1 .. MaxPlaces + 1 /\ Q(m)
    <2>1. m \in Nat /\ m >= width /\ n < T[m] /\ m <= MaxPlaces + 1
      BY <1>5, <1>6
    <2>2. ASSUME m > width PROVE n >= T[m - 1]
      <3>1. m - 1 \in Nat /\ m - 1 >= width /\ m - 1 \notin K
        BY <1>1, <1>6, <2>1, <2>2
      <3>2. ~(n < T[m - 1]) /\ T[m - 1] \in Int
        BY <1>2, <3>1
      <3> QED BY <3>2
    <2> QED BY <1>1, <2>1, <2>2
  <1>8. count \in 1 .. MaxPlaces + 1 /\ Q(count)
    <2> HIDE DEF Q
    <2> QED BY <1>7
  <1> HIDE DEF count
  <1>9. ASSUME n < T[width] PROVE count = width
    <2> SUFFICES ASSUME count # width PROVE FALSE
      OBVIOUS
    <2>1. count - 1 \in Nat /\ width <= count - 1 /\ n >= T[count - 1]
      BY <1>1, <1>8
    <2>2. T[width] <= T[count - 1] /\ T[width] \in Int /\ T[count - 1] \in Int
      BY <1>1, <1>2, <1>3, <2>1
    <2> QED BY <1>9, <2>1, <2>2
  <1> QED BY <1>4, <1>8, <1>9 DEF T

TextChars == {Ticks!Digits[k] : k \in 1 .. 10} \cup {".", "-"}

\* A text that Display writes, without its sign.
Shown(t, D, m) ==
    /\ t \in Seq(TextChars) /\ Len(t) >= 1 /\ Ticks!IsDigit(t[1])
    /\ Decimal(t, Len(t)) /\ Cardinality(FractionTo(t, Len(t))) = D
    /\ ValueTo(t, Len(t)) = m

\* g holds the digits of n, at least width of them.
IsDigitsOf(g, n, width) ==
    /\ g \in Seq(TextChars) /\ Len(g) >= width /\ n < Ticks!Pow10[Len(g)]
    /\ n < Ticks!Pow10[width] => Len(g) = width
    /\ \A i \in 1 .. Len(g) : g[i] = Ticks!Digits[((n \div Ticks!Pow10[Len(g) - i]) % 10) + 1]

\* The digits of a number as a sequence.
LEMMA DigitsText ==
    ASSUME NEW D, NEW n \in Nat, NEW width \in 1 .. MaxPlaces + 1,
           n < Ticks!Pow10[MaxPlaces + 1]
    PROVE  IsDigitsOf(Fixed(D)!DigitsOf(n, width), n, width)
  <1> DEFINE T == Ticks!Pow10
             g == Fixed(D)!DigitsOf(n, width)
             e(c, i) == Ticks!Digits[((n \div T[c - i]) % 10) + 1]
  <1>1. PICK c \in Nat : /\ c >= width /\ n < T[c] /\ (n < T[width] => c = width)
                         /\ g = [i \in 1 .. c |-> e(c, i)]
    BY DigitsOfIs
  <1>2. ASSUME NEW i \in 1 .. c PROVE e(c, i) \in TextChars
    <2>1. c - i \in Nat
      OBVIOUS
    <2> DEFINE w == n \div T[c - i]
    <2>2. w \in Nat /\ w % 10 \in 0 .. 9
      BY <2>1, NextDigit
    <2>3. (w % 10) + 1 \in 1 .. 10
      BY <2>2
    <2> HIDE DEF w
    <2>4. Ticks!Digits[(w % 10) + 1] \in TextChars
      BY <2>3 DEF TextChars
    <2> QED BY <2>4 DEF w
  <1> HIDE DEF e, g, T
  <1>3. g \in Seq(TextChars) /\ Len(g) = c /\ \A i \in 1 .. c : g[i] = e(c, i)
    BY <1>1, <1>2
  <1> QED BY <1>1, <1>3 DEF e, g, T, IsDigitsOf

\* A number without fractional digits.
LEMMA ShownWhole ==
    ASSUME NEW m \in Nat, m < Ticks!Pow10[MaxPlaces + 1]
    PROVE  Shown(Fixed(0)!DigitsOf(m, 1), 0, m)
  <1> DEFINE t == Fixed(0)!DigitsOf(m, 1)
             c == Len(t)
  <1>1. 1 \in 1 .. MaxPlaces + 1
    BY PlacesFacts
  <1>2. /\ t \in Seq(TextChars) /\ c >= 1 /\ m < Ticks!Pow10[c]
        /\ \A i \in 1 .. c : t[i] = Ticks!Digits[((m \div Ticks!Pow10[c - i]) % 10) + 1]
    <2>1. IsDigitsOf(t, m, 1)
      BY <1>1, DigitsText
    <2> HIDE DEF t
    <2> QED BY <2>1 DEF IsDigitsOf
  <1> HIDE DEF t
  <1>3. c \in Nat
    BY <1>2
  <1> HIDE DEF c
  <1>4. Written(t, 0, c, m)
    <2>1. \A i \in 1 .. c : 0 + i = i
      BY <1>3
    <2> QED BY <1>2, <2>1 DEF Written
  <1>5. /\ \A i \in 1 .. c : Ticks!IsDigit(t[0 + i])
        /\ ValueTo(t, 0 + c) = ValueTo(t, 0) * Ticks!Pow10[c] + m
    <2>1. Adds(t, 0, c, m)
      BY <1>2, <1>3, <1>4, WrittenValue
    <2> QED BY <2>1 DEF Adds
  <1>6. \A i \in 1 .. c : Ticks!IsDigit(t[i])
    <2>1. \A i \in 1 .. c : 0 + i = i
      BY <1>3
    <2> QED BY <1>5, <2>1
  <1>7. ValueTo(t, c) = m
    <2>1. DigitsTo(t, 0) = {}
      BY DEF DigitsTo
    <2>2. ValueTo(t, 0) = 0
      BY <2>1, ValueNat
    <2>3. Ticks!Pow10[c] \in Int
      BY <1>3, TensStep
    <2>4. 0 * Ticks!Pow10[c] + m = m /\ 0 + c = c
      BY <1>3, <2>3
    <2> QED BY <1>5, <2>2, <2>4
  <1>8. DotsTo(t, c) = {} /\ DigitsTo(t, c) = 1 .. c
    BY <1>6, Characters DEF DotsTo, DigitsTo
  <1>9. Decimal(t, c)
    BY <1>8 DEF Decimal
  <1>10. Cardinality(FractionTo(t, c)) = 0
    <2>1. FractionTo(t, c) = {}
      BY <1>8 DEF FractionTo
    <2> QED BY <2>1, FS_EmptySet
  <1>11. 1 \in 1 .. c
    BY <1>2, <1>3
  <1>12. Shown(t, 0, m)
    BY <1>2, <1>6, <1>7, <1>9, <1>10, <1>11 DEF Shown, c
  <1> QED BY <1>12 DEF t

\* A number with D fractional digits, D of them after the dot.
LEMMA ShownDecimal ==
    ASSUME NEW D \in 1 .. MaxPlaces, NEW m \in Nat, m < Ticks!Pow10[MaxPlaces + 1]
    PROVE  LET scale == Ticks!Pow10[D]
           IN  Shown((Fixed(D)!DigitsOf(m \div scale, 1) \o <<".">>)
                        \o Fixed(D)!DigitsOf(m % scale, D), D, m)
  <1> DEFINE T == Ticks!Pow10
             scale == T[D]
             q == m \div scale
             r == m % scale
             g == Fixed(D)!DigitsOf(q, 1)
             h == Fixed(D)!DigitsOf(r, D)
             c == Len(g)
             t == (g \o <<".">>) \o h
             p == c + 1
             n == p + D
  <1>1. /\ MaxPlaces \in Nat /\ D \in Nat /\ D \in 1 .. MaxPlaces + 1 /\ 1 \in 1 .. MaxPlaces + 1
        /\ scale \in Nat \ {0} /\ T[MaxPlaces + 1] \in Int
    BY PlacesFacts, TensStep
  <1>2. m = scale * q + r /\ r \in Nat /\ r < scale /\ q \in Nat /\ q <= m
    BY <1>1, DivModNat, Division
  <1>3. scale <= T[MaxPlaces + 1]
    BY <1>1, Tens
  <1> HIDE DEF q, r, scale
  <1>4. q < T[MaxPlaces + 1] /\ r < T[MaxPlaces + 1] /\ r < T[D]
    BY <1>1, <1>2, <1>3 DEF scale
  <1> HIDE DEF T
  <1>5. /\ g \in Seq(TextChars) /\ c >= 1 /\ q < T[c]
        /\ \A i \in 1 .. c : g[i] = Ticks!Digits[((q \div T[c - i]) % 10) + 1]
    <2>1. IsDigitsOf(g, q, 1)
      BY <1>1, <1>2, <1>4, DigitsText DEF T
    <2> HIDE DEF g
    <2> QED BY <2>1 DEF IsDigitsOf, T
  <1>6. /\ h \in Seq(TextChars) /\ Len(h) = D
        /\ \A i \in 1 .. D : h[i] = Ticks!Digits[((r \div T[D - i]) % 10) + 1]
    <2>1. IsDigitsOf(h, r, D)
      BY <1>1, <1>2, <1>4, DigitsText DEF T
    <2> HIDE DEF h
    <2> QED BY <1>4, <2>1 DEF IsDigitsOf, T
  <1> HIDE DEF g, h
  <1>7. c \in Nat
    BY <1>5
  <1>8. /\ t \in Seq(TextChars) /\ Len(t) = n
        /\ \A i \in 1 .. c : t[i] = g[i]
        /\ t[p] = "."
        /\ \A i \in 1 .. D : t[p + i] = h[i]
    <2> DEFINE u == g \o <<".">>
    <2>1. <<".">> \in Seq(TextChars) /\ Len(<<".">>) = 1 /\ <<".">>[1] = "."
      BY DEF TextChars
    <2>2. /\ u \in Seq(TextChars) /\ Len(u) = c + 1
          /\ \A i \in 1 .. c + 1 : u[i] = IF i <= c THEN g[i] ELSE <<".">>[i - c]
      BY <1>5, <2>1, ConcatProperties
    <2> HIDE DEF u, c
    <2>3. u[c + 1] = "." /\ \A i \in 1 .. c : u[i] = g[i]
      <3>1. c + 1 \in 1 .. c + 1 /\ ~(c + 1 <= c) /\ (c + 1) - c = 1
        BY <1>7
      <3>2. \A i \in 1 .. c : i \in 1 .. c + 1 /\ i <= c
        BY <1>7
      <3> QED BY <2>1, <2>2, <3>1, <3>2
    <2>4. /\ u \o h \in Seq(TextChars) /\ Len(u \o h) = p + D
          /\ \A i \in 1 .. p + D : (u \o h)[i] = IF i <= p THEN u[i] ELSE h[i - p]
      <3>1. /\ u \o h \in Seq(TextChars) /\ Len(u \o h) = Len(u) + Len(h)
            /\ \A i \in 1 .. Len(u) + Len(h) :
                 (u \o h)[i] = IF i <= Len(u) THEN u[i] ELSE h[i - Len(u)]
        BY <1>6, <2>2, ConcatProperties
      <3>2. Len(u) = p /\ Len(h) = D
        BY <1>6, <2>2
      <3> QED BY <3>1, <3>2
    <2>5. t = u \o h
      BY DEF u
    <2> HIDE DEF t
    <2>6. \A i \in 1 .. c : i \in 1 .. p + D /\ i <= p
      BY <1>1, <1>7
    <2>7. p \in 1 .. p + D /\ p <= p
      BY <1>1, <1>7
    <2>8. \A i \in 1 .. D : p + i \in 1 .. p + D /\ ~(p + i <= p) /\ (p + i) - p = i
      BY <1>1, <1>7
    <2> QED BY ZenonT(30), <2>3, <2>4, <2>5, <2>6, <2>7, <2>8
  <1> HIDE DEF t, c
  <1>9. Written(t, 0, c, q)
    <2>1. \A i \in 1 .. c : 0 + i = i
      BY <1>7
    <2> QED BY <1>5, <1>8, <2>1 DEF Written, T
  <1>10. Written(t, p, D, r)
    BY <1>6, <1>8 DEF Written, T
  <1>11. p \in Nat /\ n \in Nat /\ p = c + 1
    BY <1>1, <1>7
  <1>12. /\ \A i \in 1 .. c : Ticks!IsDigit(t[i])
         /\ ValueTo(t, c) = q
    <2>1. /\ \A i \in 1 .. c : Ticks!IsDigit(t[0 + i])
          /\ ValueTo(t, 0 + c) = ValueTo(t, 0) * T[c] + q
      <3>1. Adds(t, 0, c, q)
        BY <1>2, <1>5, <1>7, <1>9, WrittenValue DEF T
      <3> QED BY <3>1 DEF Adds, T
    <2>2. \A i \in 1 .. c : 0 + i = i
      BY <1>7
    <2>3. DigitsTo(t, 0) = {}
      BY DEF DigitsTo
    <2>4. ValueTo(t, 0) = 0
      BY <2>3, ValueNat
    <2>5. T[c] \in Int
      BY <1>7, TensStep DEF T
    <2>6. 0 * T[c] + q = q /\ 0 + c = c
      BY <1>2, <1>7, <2>5
    <2> QED BY <2>1, <2>2, <2>4, <2>6
  <1>13. ~Ticks!IsDigit(".")
    BY Characters
  <1>14. ValueTo(t, p) = q
    BY <1>7, <1>8, <1>12, <1>13, ValueStep
  <1> HIDE DEF p
  <1>15. /\ \A i \in 1 .. D : Ticks!IsDigit(t[p + i])
         /\ ValueTo(t, n) = m
    <2>1. /\ \A i \in 1 .. D : Ticks!IsDigit(t[p + i])
          /\ ValueTo(t, p + D) = ValueTo(t, p) * T[D] + r
      <3>1. Adds(t, p, D, r)
        BY <1>1, <1>2, <1>4, <1>10, <1>11, WrittenValue DEF T
      <3> QED BY <3>1 DEF Adds, T
    <2>2. q * scale = scale * q
      BY <1>1, <1>2, SMT
    <2> QED BY <1>2, <1>14, <2>1, <2>2 DEF scale
  <1>16. \A j \in 1 .. n : j # p => Ticks!IsDigit(t[j])
    <2> SUFFICES ASSUME NEW j \in 1 .. n, j # p PROVE Ticks!IsDigit(t[j])
      OBVIOUS
    <2>1. CASE j < p
      <3>1. j \in 1 .. c
        BY <1>7, <1>11, <2>1
      <3> QED BY <1>12, <3>1
    <2>2. CASE j > p
      <3>1. j - p \in 1 .. D /\ p + (j - p) = j
        BY <1>1, <1>11, <2>2
      <3>2. Ticks!IsDigit(t[p + (j - p)])
        BY <1>15, <3>1
      <3> QED BY <3>1, <3>2
    <2> QED BY <1>11, <2>1, <2>2
  <1>17. p \in 1 .. n /\ 1 \in 1 .. c /\ p # 1
    BY <1>1, <1>5, <1>7, <1>11 DEF c
  <1>18. DotsTo(t, n) = {p} /\ DigitsTo(t, n) = (1 .. n) \ {p}
    BY <1>8, <1>13, <1>16, <1>17 DEF DotsTo, DigitsTo
  <1>19. Decimal(t, n)
    BY <1>18 DEF Decimal
  <1>20. Cardinality(FractionTo(t, n)) = D
    <2>1. FractionTo(t, n) = p + 1 .. n
      <3>1. FractionTo(t, n) = {j \in (1 .. n) \ {p} : p < j}
        BY <1>18 DEF FractionTo
      <3>2. \A j : j \in (1 .. n) \ {p} /\ p < j <=> j \in p + 1 .. n
        BY <1>11
      <3> QED BY <3>1, <3>2
    <2>2. p + 1 \in Int /\ n \in Int /\ ~(p + 1 > n) /\ n - (p + 1) + 1 = D
      BY <1>1, <1>11
    <2> QED BY <2>1, <2>2, FS_Interval
  <1>21. Shown(t, D, m)
    BY <1>8, <1>11, <1>12, <1>15, <1>17, <1>19, <1>20 DEF Shown
  <1> QED BY <1>21 DEF t, g, h, q, r, scale, T

\* What Display writes.
LEMMA DisplayShows ==
    ASSUME NEW D \in Places, NEW x \in Ticks!Raw
    PROVE  \E t : /\ Shown(t, D, Magnitude(x))
                  /\ Fixed(D)!Display(x) = IF x < 0 THEN <<"-">> \o t ELSE t
  <1> DEFINE m == Magnitude(x)
             scale == Ticks!Pow10[D]
             sign == IF x < 0 THEN <<"-">> ELSE <<>>
  <1>1. x \in Int /\ D \in Nat /\ D <= MaxPlaces /\ MaxPlaces \in Nat
    BY WordFacts, PlacesFacts
  <1>2. m \in Nat /\ m < Ticks!Pow10[MaxPlaces + 1]
    <2>1. Ticks!MAX \in Nat /\ Ticks!MIN = -(Ticks!MAX + 1) /\ Ticks!MIN <= x /\ x <= Ticks!MAX
      BY WordFacts
    <2>2. -Ticks!MIN < Ticks!Pow10[MaxPlaces + 1]
      BY NumericAssumption
    <2>3. Ticks!Pow10[MaxPlaces + 1] \in Int
      BY <1>1, TensStep
    <2>4. m \in Nat /\ m <= -Ticks!MIN
      BY <1>1, <2>1 DEF Magnitude
    <2> QED BY <2>1, <2>2, <2>3, <2>4
  <1>3. Fixed(D)!AbsOf(x) = m /\ Fixed(D)!SCALE = scale
    BY OneWord DEF Fixed!AbsOf, Magnitude
  <1>4. <<"-">> \in Seq(TextChars) /\ <<".">> \in Seq(TextChars) /\ <<>> \in Seq(TextChars)
    BY DEF TextChars
  <1>5. \A t \in Seq(TextChars) : sign \o t = IF x < 0 THEN <<"-">> \o t ELSE t
    BY ConcatEmptySeq
  <1>6. sign \in Seq(TextChars)
    BY <1>4
  <1> HIDE DEF m, scale, sign
  <1>7. CASE D = 0
    <2> DEFINE t == Fixed(0)!DigitsOf(m, 1)
    <2>1. Shown(t, 0, m)
      BY <1>2, ShownWhole
    <2>2. Fixed(D)!Display(x) = sign \o t
      BY <1>3, <1>7 DEF Fixed!Display, sign
    <2>3. t \in Seq(TextChars)
      BY <2>1 DEF Shown
    <2> HIDE DEF t
    <2> QED BY <1>5, <1>7, <2>1, <2>2, <2>3 DEF m
  <1>8. CASE D # 0
    <2> DEFINE g == Fixed(D)!DigitsOf(m \div scale, 1)
               h == Fixed(D)!DigitsOf(m % scale, D)
               t == (g \o <<".">>) \o h
    <2>1. D \in 1 .. MaxPlaces /\ D \in 1 .. MaxPlaces + 1 /\ 1 \in 1 .. MaxPlaces + 1
      BY <1>1, <1>8
    <2>2. Shown(t, D, m)
      BY <1>2, <2>1, ShownDecimal DEF scale
    <2>3. Fixed(D)!Display(x) = ((sign \o g) \o <<".">>) \o h
      BY <1>3, <1>8 DEF Fixed!Display, sign
    <2>4. g \in Seq(TextChars) /\ h \in Seq(TextChars)
      <3>1. scale \in Nat \ {0} /\ Ticks!Pow10[MaxPlaces + 1] \in Int
            /\ scale <= Ticks!Pow10[MaxPlaces + 1]
        <4>1. scale \in Nat \ {0} /\ Ticks!Pow10[MaxPlaces + 1] \in Int
          BY <1>1, TensStep DEF scale
        <4>2. \A j, k \in Nat : j <= k => Ticks!Pow10[j] <= Ticks!Pow10[k]
          BY Tens
        <4>3. D <= MaxPlaces + 1 /\ MaxPlaces + 1 \in Nat
          BY <1>1
        <4> QED BY <1>1, <4>1, <4>2, <4>3 DEF scale
      <3>2. m \div scale \in Nat /\ m \div scale <= m /\ m % scale \in Nat /\ m % scale < scale
        BY <1>2, <3>1, DivModNat, Division
      <3>3. m \div scale < Ticks!Pow10[MaxPlaces + 1] /\ m % scale < Ticks!Pow10[MaxPlaces + 1]
        BY <1>2, <3>1, <3>2
      <3> QED BY <2>1, <3>2, <3>3, DigitsText DEF IsDigitsOf
    <2> HIDE DEF g, h
    <2>5. ((sign \o g) \o <<".">>) \o h = sign \o t
      <3>1. (sign \o g) \o <<".">> = sign \o (g \o <<".">>)
        BY <1>4, <1>6, <2>4, ConcatAssociative
      <3>2. g \o <<".">> \in Seq(TextChars)
        BY <1>4, <2>4, ConcatProperties
      <3>3. (sign \o (g \o <<".">>)) \o h = sign \o t
        BY SMTT(30), <1>6, <2>4, <3>2, ConcatAssociative
      <3> QED BY <3>1, <3>3
    <2> HIDE DEF t
    <2>6. t \in Seq(TextChars)
      BY <2>2 DEF Shown
    <2> QED BY <1>5, <2>2, <2>3, <2>5, <2>6 DEF m
  <1> QED BY <1>7, <1>8

\* It is a text that fits, and its value is the number.
LEMMA DisplayReadsBack ==
    ASSUME NEW D \in Places, NEW x \in Ticks!Raw
    PROVE  Fixed(D)!ParseDecimal(Fixed(D)!Display(x)) = [err |-> "Ok", value |-> x]
  <1> DEFINE s == Fixed(D)!Display(x)
             b == Body(s)
             m == Magnitude(x)
  <1>1. PICK t : Shown(t, D, m) /\ s = IF x < 0 THEN <<"-">> \o t ELSE t
    BY DisplayShows
  <1> HIDE DEF s
  <1>2. x \in Int /\ D \in Nat
    BY WordFacts, PlacesFacts
  <1>3. t \in Seq(TextChars) /\ Len(t) >= 1 /\ Ticks!IsDigit(t[1]) /\ ValueTo(t, Len(t)) = m
    BY <1>1 DEF Shown
  <1>4. s \in Seq(TextChars) /\ s # <<>> /\ b = t /\ (s[1] = "-" <=> x < 0)
    <2>1. CASE x < 0
      <3> DEFINE u == <<"-">> \o t
      <3>1. <<"-">> \in Seq(TextChars) /\ Len(<<"-">>) = 1 /\ <<"-">>[1] = "-"
        BY DEF TextChars
      <3>2. /\ u \in Seq(TextChars) /\ Len(u) = 1 + Len(t)
            /\ \A i \in 1 .. 1 + Len(t) : u[i] = IF i <= 1 THEN <<"-">>[i] ELSE t[i - 1]
        BY <1>3, <3>1, ConcatProperties
      <3>3. s = u
        BY <1>1, <2>1
      <3> HIDE DEF u
      <3>4. u # <<>> /\ u[1] = "-"
        BY <1>3, <3>1, <3>2
      <3>5. /\ Tail(u) \in Seq(TextChars) /\ Len(Tail(u)) = Len(t)
            /\ \A i \in 1 .. Len(t) : Tail(u)[i] = u[i + 1]
        BY <1>3, <3>2, <3>4, HeadTailProperties
      <3>6. \A i \in 1 .. Len(t) : u[i + 1] = t[i]
        BY <1>3, <3>2
      <3>7. Tail(u) = t
        BY <1>3, <3>5, <3>6, SeqEqual
      <3> QED BY <2>1, <3>2, <3>3, <3>4, <3>7 DEF Body
    <2>2. CASE ~(x < 0)
      <3>1. t[1] # "-" /\ t[1] # "+"
        BY <1>3, Characters
      <3> QED BY <1>1, <1>3, <2>2, <3>1 DEF Body
    <2> QED BY <2>1, <2>2
  <1>5. WellFormed(b) /\ FractionDigits(b) = D
    <2>1. 1 \in DigitsTo(t, Len(t))
      BY <1>3 DEF DigitsTo
    <2> QED BY <1>1, <1>3, <1>4, <2>1, WholeText DEF Shown
  <1>6. Unscaled(s) = x
    <2>1. Unscaled(s) = IF s[1] = "-" THEN -m ELSE m
      BY <1>3, <1>4, UnscaledIs
    <2> QED BY <1>2, <1>4, <2>1 DEF Magnitude
  <1>7. Unscaled(s) * Ticks!Pow10[D - FractionDigits(b)] = x
    <2>1. D - D = 0 /\ x * 1 = x
      BY <1>2
    <2> QED BY <1>5, <1>6, <2>1, TensStep
  <1>8. FractionDigits(b) <= D
    BY <1>2, <1>5
  <1>9. Fixed(D)!ParseDecimal(s) = [err |-> "Ok", value |-> x]
    BY <1>2, <1>4, <1>5, <1>7, <1>8, ParseExact
  <1> QED BY <1>9 DEF s

\* The parser accepts exactly the texts whose value fits, and returns that
\* value, for texts of every length and words of every width; and it reads
\* back every number that Display writes.
THEOREM ParserIsFaithful == NumericSpec => []ParseFaithful
  <1>1. Call => ParseFaithful
    <2> SUFFICES ASSUME Call, NEW D \in Places
                 PROVE  /\ arg.kind = "parse" =>
                             LET p == Fixed(D)!ParseDecimal(arg.s)
                                 b == Body(arg.s)
                                 fits == /\ WellFormed(b) /\ FractionDigits(b) <= D
                                         /\ Unscaled(arg.s) * Ticks!Pow10[D - FractionDigits(b)]
                                              \in Ticks!Raw
                             IN  /\ (p.err = "Ok") <=> fits
                                 /\ fits => p.value =
                                      Unscaled(arg.s) * Ticks!Pow10[D - FractionDigits(b)]
                                 /\ (WellFormed(b) /\ p.err = "ExcessPrecision") =>
                                      FractionDigits(b) > D
                                 /\ WellFormed(b) => p.err # "InvalidFormat"
                        /\ arg.kind = "fixed" =>
                             Fixed(D)!ParseDecimal(Fixed(D)!Display(arg.x))
                               = [err |-> "Ok", value |-> arg.x]
      BY DEF ParseFaithful
    <2>1. D \in Nat
      BY PlacesFacts
    <2>2. ASSUME arg.kind = "parse" PROVE arg.s \in Seq(Alphabet)
      <3>1. PICK s \in Texts : arg = [kind |-> "parse", s |-> s]
        BY <2>2 DEF Call, NoCall
      <3>2. PICK n \in 0 .. MaxText : s \in [1 .. n -> Alphabet]
        BY DEF Texts
      <3>3. n \in Nat
        BY NumericAssumption
      <3>4. s \in Seq(Alphabet)
        BY <3>2, <3>3
      <3> QED BY <3>1, <3>4
    <2>3. ASSUME arg.kind = "fixed"
          PROVE  Fixed(D)!ParseDecimal(Fixed(D)!Display(arg.x)) = [err |-> "Ok", value |-> arg.x]
      BY <2>3, FixedCall, DisplayReadsBack
    <2>4. ASSUME arg.kind = "parse"
          PROVE  LET p == Fixed(D)!ParseDecimal(arg.s)
                     b == Body(arg.s)
                     fits == /\ WellFormed(b) /\ FractionDigits(b) <= D
                             /\ Unscaled(arg.s) * Ticks!Pow10[D - FractionDigits(b)] \in Ticks!Raw
                 IN  /\ (p.err = "Ok") <=> fits
                     /\ fits => p.value = Unscaled(arg.s) * Ticks!Pow10[D - FractionDigits(b)]
                     /\ (WellFormed(b) /\ p.err = "ExcessPrecision") => FractionDigits(b) > D
                     /\ WellFormed(b) => p.err # "InvalidFormat"
      <3> DEFINE s == arg.s
                 p == Fixed(D)!ParseDecimal(s)
                 b == Body(s)
                 value == Unscaled(s) * Ticks!Pow10[D - FractionDigits(b)]
                 fits == WellFormed(b) /\ FractionDigits(b) <= D /\ value \in Ticks!Raw
      <3>1. s \in Seq(Alphabet)
        BY <2>2, <2>4
      <3>2. /\ (p.err = "Ok") <=> fits
            /\ fits => p = [err |-> "Ok", value |-> value]
            /\ (WellFormed(b) /\ p.err = "ExcessPrecision") => FractionDigits(b) > D
            /\ WellFormed(b) => p.err # "InvalidFormat"
        <4> HIDE DEF s
        <4> QED BY <2>1, <3>1, ParseExact
      <3>3. fits => p.value = value
        <4>1. ASSUME fits PROVE p.value = value
          <5>1. p = [err |-> "Ok", value |-> value]
            BY <3>2, <4>1
          <5> HIDE DEF p, value
          <5> QED BY <5>1
        <4> QED BY <4>1
      <3> QED BY <3>2, <3>3
    <2> QED BY <2>3, <2>4
  <1> QED BY <1>1, CallAlways, PTL

-----------------------------------------------------------------------------
(* Limbs *)

\* A word of a limb is even in number and at least two.
LEMMA BaseFacts ==
    /\ Base \in Nat \ {0} /\ Base \in Int /\ Base >= 2 /\ Base % 2 = 0
    /\ \A x : x \in Word <=> x \in Int /\ 0 <= x /\ x < Base
  <1>1. IsPower(Pow2, 2)
    <2>1. \E g : IsPower(g, 2)
      BY PowerExists
    <2> QED BY <2>1 DEF IsPower, Pow2
  <1>2. W \in Nat /\ W - 1 \in Nat /\ (W - 1) + 1 = W
    BY WidthAssumption
  <1> DEFINE h == Pow2[W - 1]
  <1>3. h \in Nat \ {0}
    <2>1. \A k \in Nat : Pow2[k] \in Nat \ {0}
      BY <1>1, PowerPositive
    <2> QED BY <1>2, <2>1
  <1>4. Base = 2 * h
    <2>1. \A k \in Nat : Pow2[k + 1] = 2 * Pow2[k]
      BY <1>1, PowerStep
    <2>2. Pow2[(W - 1) + 1] = 2 * h
      BY <1>2, <2>1
    <2> QED BY <1>2, <2>2 DEF Base
  <1> HIDE DEF h
  <1>5. Base \in Nat \ {0} /\ Base >= 2 /\ Base % 2 = 0
    BY <1>3, <1>4
  <1> QED BY <1>5 DEF Word

\* The high and the low word of a number.
LEMMA HighLow ==
    ASSUME NEW s \in Int
    PROVE  /\ (s \div Base) * Base + AsWord(s) = s
           /\ s \div Base \in Int /\ AsWord(s) \in Word /\ AsWord(s) \in Int
  <1> DEFINE q == s \div Base
             r == s % Base
  <1>1. s = Base * q + r /\ r \in 0 .. Base - 1 /\ q \in Int /\ Base \in Nat \ {0}
    BY BaseFacts, DivMod
  <1> HIDE DEF q, r
  <1>2. Base * q = q * Base
    BY <1>1, SMT
  <1>3. q * Base + r = s /\ r \in Int
    BY <1>1, <1>2
  <1>4. AsWord(s) = r
    BY DEF AsWord, r
  <1> QED BY <1>1, <1>3, <1>4 DEF Word, q

\* Addition with a carry.
LEMMA AddCExact ==
    ASSUME NEW x \in Int, NEW y \in Int, NEW c \in Int
    PROVE  LET r == AddC(x, y, c)
           IN  /\ r[1] * Base + r[2] = x + y + c
               /\ r[1] \in Int /\ r[2] \in Word /\ r[2] \in Int
  <1>1. x + y + c \in Int
    OBVIOUS
  <1> DEFINE s == x + y + c
  <1>2. AddC(x, y, c)[1] = s \div Base /\ AddC(x, y, c)[2] = AsWord(s)
    BY DEF AddC
  <1> HIDE DEF s
  <1>3. /\ (s \div Base) * Base + AsWord(s) = s
        /\ s \div Base \in Int /\ AsWord(s) \in Word /\ AsWord(s) \in Int
    BY <1>1, HighLow DEF s
  <1> QED BY <1>2, <1>3 DEF s

\* Subtraction with a borrow: the lowest bit of the high word is the borrow.
LEMMA SubBExact ==
    ASSUME NEW x \in Word, NEW y \in Word, NEW c \in {0, 1}
    PROVE  SubB(x, y, c)[2] - Base * SubB(x, y, c)[1] = x - y - c
  <1> DEFINE B == Base
             s == x - y - c
             wide == s % (B * B)
  <1>1. /\ B \in Nat \ {0} /\ B >= 2 /\ B % 2 = 0 /\ s \in Int /\ -B <= s /\ s < B
    BY BaseFacts
  <1>2. SubB(x, y, c)[1] = (wide \div B) % 2 /\ SubB(x, y, c)[2] = wide % B
    BY DEF SubB, AsWord
  <1> HIDE DEF B, s
  <1>3. B * B \in Nat \ {0} /\ B * B >= B
    <2>1. \A b \in Nat \ {0} : b * b \in Nat \ {0} /\ b * b >= b
      BY SMT
    <2> QED BY <1>1, <2>1
  <1>4. CASE s >= 0
    <2>1. wide = s
      <3> DEFINE m == B * B
      <3> HIDE DEF m
      <3>1. m \in Nat \ {0} /\ m >= B
        BY <1>3 DEF m
      <3>2. s % m = s
        BY <1>1, <1>4, <3>1
      <3> QED BY <3>2 DEF m
    <2>2. s \div B = 0 /\ s % B = s
      <3>1. s = B * 0 + s /\ 0 \in Int
        BY <1>1
      <3> QED BY <1>1, <1>4, <3>1, QuotientIs
    <2>3. SubB(x, y, c)[1] = 0 /\ SubB(x, y, c)[2] = s
      BY <1>2, <2>1, <2>2
    <2>4. s - B * 0 = s
      BY <1>1
    <2> QED BY <2>3, <2>4 DEF B, s
  <1>5. CASE s < 0
    <2>1. wide = B * B + s
      <3> DEFINE m == B * B
      <3> HIDE DEF m
      <3>1. m \in Nat \ {0} /\ m >= B
        BY <1>3 DEF m
      <3>2. s = m * (-1) + (m + s) /\ m + s \in Int /\ 0 <= m + s /\ m + s < m
        BY <1>1, <1>5, <3>1, SMT
      <3>3. s % m = m + s
        BY <1>1, <3>1, <3>2, QuotientIs
      <3> QED BY <3>3 DEF m
    <2>2. B * B + s = B * (B - 1) + (B + s)
      BY <1>1, SMT
    <2>3. B * B + s \in Int
      BY <1>1, <1>3
    <2>4. (B * B + s) \div B = B - 1 /\ (B * B + s) % B = B + s
      <3>1. B - 1 \in Int /\ B + s \in Int /\ 0 <= B + s /\ B + s < B
        BY <1>1, <1>5
      <3> QED BY <1>1, <2>2, <2>3, <3>1, QuotientIs
    <2>5. (B - 1) % 2 = 1
      BY <1>1
    <2>6. SubB(x, y, c)[1] = 1 /\ SubB(x, y, c)[2] = B + s
      BY <1>2, <2>1, <2>4, <2>5
    <2>7. (B + s) - B * 1 = s
      BY <1>1
    <2> QED BY <2>6, <2>7 DEF B, s
  <1> QED BY <1>1, <1>4, <1>5

\* A product of two words and two more words fit two words.
LEMMA ProductFits ==
    ASSUME NEW x \in Word, NEW y \in Word, NEW c1 \in Word, NEW c2 \in Word
    PROVE  /\ x * y + c1 + c2 \in Int
           /\ (x * y + c1 + c2) \div Base \in Word
  <1> DEFINE B == Base
             a == x * y
             t == B - 1
             s == a + c1 + c2
             q == s \div B
  <1>1. /\ B \in Nat \ {0} /\ x \in Nat /\ y \in Nat /\ c1 \in Nat /\ c2 \in Nat /\ t \in Nat
        /\ x <= t /\ y <= t /\ c1 <= t /\ c2 <= t /\ B = t + 1
    BY BaseFacts
  <1> HIDE DEF B, t
  <1>2. a \in Nat /\ a <= t * t
    <2>1. PICK i \in Nat, j \in Nat : t = x + i /\ t = y + j
      <3>1. t - x \in Nat /\ t - y \in Nat /\ t = x + (t - x) /\ t = y + (t - y)
        BY <1>1
      <3> QED BY <3>1
    <2>2. t * t = x * y + x * j + i * t /\ x * j >= 0 /\ i * t >= 0 /\ x * y \in Nat
      <3>1. t * t = (x + i) * t /\ (x + i) * t = x * t + i * t
        BY <1>1, <2>1, SMT
      <3>2. x * t = x * (y + j) /\ x * (y + j) = x * y + x * j
        BY <1>1, <2>1, SMT
      <3>3. x * j \in Nat /\ i * t \in Nat /\ x * y \in Nat
        BY <1>1, <2>1, SMT
      <3> QED BY <3>1, <3>2, <3>3
    <2> DEFINE e == x * j
               f == i * t
               g == t * t
    <2>3. g = a + e + f /\ e >= 0 /\ f >= 0 /\ e \in Int /\ f \in Int /\ a \in Nat
      <3>1. e \in Int /\ f \in Int
        BY <1>1, <2>1, SMT
      <3> QED BY <2>2, <3>1
    <2> HIDE DEF a, e, f, g
    <2>4. a <= g
      BY <2>3
    <2> QED BY <2>3, <2>4 DEF g
  <1>3. s \in Nat /\ s < B * B
    <2>1. B * B = t * t + t + t + 1 /\ t * t \in Nat
      BY <1>1, SMT
    <2> DEFINE g == t * t
               m == B * B
    <2>2. m = g + t + t + 1 /\ g \in Nat /\ a <= g
      BY <1>2, <2>1
    <2> HIDE DEF a, g, m
    <2>3. s \in Nat /\ s < m
      BY <1>1, <1>2, <2>2
    <2> QED BY <2>3 DEF m
  <1> HIDE DEF s
  <1>4. q \in Nat /\ B * q <= s
    BY <1>1, <1>3, Division
  <1> HIDE DEF q
  <1>5. q <= t
    <2>1. B * q < B * (t + 1)
      <3> DEFINE i == B * q
                 m == B * B
      <3>1. i \in Int /\ m \in Int /\ i <= s /\ s < m
        BY <1>1, <1>3, <1>4, SMT
      <3> HIDE DEF i, m
      <3>2. i < m
        BY <1>3, <3>1
      <3> QED BY <1>1, <3>2 DEF i, m
    <2> QED BY <1>1, <1>4, <2>1, FactorCancels
  <1>6. q \in Word
    BY <1>1, <1>4, <1>5, BaseFacts DEF B
  <1>7. s \in Int
    BY <1>3
  <1> QED BY <1>6, <1>7 DEF q, s, a, B

\* The low double word of a number, from its words.
LEMMA LowDouble ==
    ASSUME NEW w \in Int
    PROVE  AsWord(w \div Base) * Base + AsWord(w) = w % (Base * Base)
  <1> DEFINE B == Base
             h == w \div B
             l == AsWord(w)
             k == h \div B
             m == AsWord(h)
  <1>1. w = h * B + l /\ h \in Int /\ l \in Word
    BY HighLow
  <1>2. h = k * B + m /\ k \in Int /\ m \in Word
    BY <1>1, HighLow
  <1>3. B \in Nat \ {0} /\ l \in Int /\ 0 <= l /\ l < B /\ m \in Int /\ 0 <= m /\ m < B
    BY <1>1, <1>2, BaseFacts
  <1> HIDE DEF B, h, l, k, m
  <1>4. w = (B * B) * k + (m * B + l)
    BY <1>1, <1>2, <1>3, SMT
  <1>5. /\ m * B + l \in Int /\ 0 <= m * B + l /\ m * B + l < B * B
        /\ B * B \in Nat \ {0}
    <2>1. PICK i \in Nat : B = m + 1 + i
      <3>1. B - (m + 1) \in Nat /\ B = m + 1 + (B - (m + 1))
        BY <1>3
      <3> QED BY <3>1
    <2>2. B * B = m * B + B + i * B /\ i * B >= 0 /\ m * B >= 0 /\ i * B \in Int /\ m * B \in Int
      BY <1>3, <2>1, SMT
    <2> DEFINE a == m * B
               b == i * B
               c == B * B
    <2>3. c = a + B + b /\ a \in Int /\ b \in Int /\ a >= 0 /\ b >= 0
      BY <2>2
    <2> HIDE DEF a, b, c
    <2>4. a + l \in Int /\ 0 <= a + l /\ a + l < c /\ c \in Nat \ {0}
      BY <1>3, <2>3
    <2> QED BY <2>4 DEF a, c
  <1>6. w % (B * B) = m * B + l
    BY <1>2, <1>4, <1>5, QuotientIs
  <1> QED BY <1>6 DEF B, m, l, h

\* Three limbs of which the highest wraps.
LEMMA ThreeLimbs ==
    ASSUME NEW s \in Int, NEW h \in Word, NEW l \in Word
    PROVE  (AsWord(s) * Base + h) * Base + l = ((s * Base + h) * Base + l) % (Base * Base * Base)
  <1> DEFINE B == Base
             w == s * B + h
             v == w * B + l
             k == s \div B
             m == AsWord(s)
             e == m * B + h
  <1>1. s = k * B + m /\ k \in Int /\ m \in Word
    BY HighLow
  <1>2. /\ B \in Nat \ {0} /\ l \in Int /\ 0 <= l /\ l < B /\ h \in Int /\ 0 <= h /\ h < B
        /\ m \in Int /\ 0 <= m /\ m < B
    BY <1>1, BaseFacts
  <1> HIDE DEF B, k, m
  <1> DEFINE C == B * B
  <1>3. \A i, j \in Int : (0 <= i /\ i < B /\ 0 <= j /\ j < B) =>
                          i * B + j \in Int /\ 0 <= i * B + j /\ i * B + j < B * B
    <2> SUFFICES ASSUME NEW i \in Int, NEW j \in Int, 0 <= i, i < B, 0 <= j, j < B
                 PROVE  i * B + j \in Int /\ 0 <= i * B + j /\ i * B + j < B * B
      OBVIOUS
    <2>1. PICK n \in Nat : B = i + 1 + n
      <3>1. B - (i + 1) \in Nat /\ B = i + 1 + (B - (i + 1))
        BY <1>2
      <3> QED BY <3>1
    <2>2. B * B = i * B + B + n * B /\ n * B >= 0 /\ i * B >= 0 /\ n * B \in Int /\ i * B \in Int
      BY <1>2, <2>1, SMT
    <2> DEFINE a == i * B
               b == n * B
               c == B * B
    <2>3. c = a + B + b /\ a \in Int /\ b \in Int /\ a >= 0 /\ b >= 0
      BY <2>2
    <2> HIDE DEF a, b, c
    <2>4. a + j \in Int /\ 0 <= a + j /\ a + j < c
      BY <1>2, <2>3
    <2> QED BY <2>4 DEF a, c
  <1>4. e \in Int /\ 0 <= e /\ e < C
    BY <1>2, <1>3
  <1>5. C \in Nat \ {0}
    BY <1>2, SMT
  <1> HIDE DEF e, C
  <1>6. e * B + l \in Int /\ 0 <= e * B + l /\ e * B + l < C * B /\ C * B \in Nat \ {0}
    <2>1. PICK n \in Nat : C = e + 1 + n
      <3>1. C - (e + 1) \in Nat /\ C = e + 1 + (C - (e + 1))
        BY <1>4, <1>5
      <3> QED BY <3>1
    <2>2. C * B = e * B + B + n * B /\ n * B >= 0 /\ e * B >= 0 /\ n * B \in Int /\ e * B \in Int
      BY <1>2, <1>4, <2>1, SMT
    <2> DEFINE a == e * B
               b == n * B
               c == C * B
    <2>3. c = a + B + b /\ a \in Int /\ b \in Int /\ a >= 0 /\ b >= 0
      BY <2>2
    <2> HIDE DEF a, b, c
    <2>4. a + l \in Int /\ 0 <= a + l /\ a + l < c /\ c \in Nat \ {0}
      BY <1>2, <2>3
    <2> QED BY <2>4 DEF a, c
  <1>7. v = (C * B) * k + (e * B + l) /\ v \in Int
    <2>1. w = C * k + e
      BY <1>1, <1>2, SMT DEF e, C
    <2>2. w \in Int
      BY <1>2, SMT
    <2> HIDE DEF w
    <2> QED BY <1>1, <1>2, <1>4, <1>5, <2>1, <2>2, SMT
  <1>8. v % (C * B) = e * B + l
    BY <1>1, <1>6, <1>7, QuotientIs
  <1> QED BY <1>8 DEF B, v, w, e, m, C

\* The accumulators add the product, and twice the product.
LEMMA AccumulatorsExact ==
    ASSUME NEW t \in Word, NEW u \in Word, NEW v \in Word, NEW a \in Word, NEW b \in Word
    PROVE  LET Three(r) == (r[1] * Base + r[2]) * Base + r[3]
               Cube == Base * Base * Base
           IN  /\ Three(MulAcc(t, u, v, a, b)) = (Three(<<t, u, v>>) + a * b) % Cube
               /\ Three(MulDoubleAcc(t, u, v, a, b)) = (Three(<<t, u, v>>) + 2 * a * b) % Cube
  <1> DEFINE B == Base
             Three(r) == (r[1] * B + r[2]) * B + r[3]
             Cube == B * B * B
             p == a * b
             uv == WideMul(a, b)
  <1>1. B \in Nat \ {0} /\ B \in Int /\ \A x \in Word : x \in Int
    BY BaseFacts
  <1>2. p \in Int /\ 2 * a * b = 2 * p
    BY <1>1, SMT
  <1>3. uv[1] * B + uv[2] = p /\ uv[1] \in Int /\ uv[2] \in Int
    <2>1. uv[1] = p \div B /\ uv[2] = AsWord(p)
      BY DEF WideMul
    <2> HIDE DEF p
    <2> QED BY <1>2, <2>1, HighLow
  <1> HIDE DEF uv, p
  <1> DEFINE Sum(r, x) == r[1] * B + r[2] = x /\ r[1] \in Int /\ r[2] \in Word /\ r[2] \in Int
  <1>4. \A x, y, c \in Int : Sum(AddC(x, y, c), x + y + c)
    BY AddCExact
  <1> HIDE DEF Sum
  <1>5. t \in Int /\ u \in Int /\ v \in Int /\ 0 \in Int /\ uv[1] \in Int /\ uv[2] \in Int
    BY <1>1, <1>3
  <1>6. Three(<<t, u, v>>) = (t * B + u) * B + v
    OBVIOUS
  <1>7. Three(MulAcc(t, u, v, a, b)) = (Three(<<t, u, v>>) + p) % Cube
    <2> DEFINE lo == AddC(v, uv[2], 0)
               hi == AddC(u, uv[1], lo[1])
               s == t + hi[1]
    <2>1. lo[1] * B + lo[2] = v + uv[2] + 0 /\ lo[1] \in Int /\ lo[2] \in Word /\ lo[2] \in Int
      <3>1. Sum(lo, v + uv[2] + 0)
        BY <1>4, <1>5
      <3> QED BY <3>1 DEF Sum
    <2> HIDE DEF lo
    <2>2. hi[1] * B + hi[2] = u + uv[1] + lo[1] /\ hi[1] \in Int /\ hi[2] \in Word /\ hi[2] \in Int
      <3>1. Sum(hi, u + uv[1] + lo[1])
        BY <1>4, <1>5, <2>1
      <3> QED BY <3>1 DEF Sum
    <2>3. MulAcc(t, u, v, a, b) = <<AsWord(s), hi[2], lo[2]>>
      BY DEF MulAcc, AddW, uv, lo
    <2> HIDE DEF hi
    <2>4. s \in Int
      BY <1>1, <2>2
    <2>5. (s * B + hi[2]) * B + lo[2] = (t * B + u) * B + v + p
      <3>1. s * B + hi[2] = t * B + (hi[1] * B + hi[2])
        BY <1>1, <2>2, SMT
      <3>2. \A x \in Int : (t * B + (u + uv[1] + x)) * B = (t * B + u) * B + uv[1] * B + x * B
        BY <1>1, <1>3, SMT
      <3>3. (s * B + hi[2]) * B = (t * B + u) * B + uv[1] * B + lo[1] * B
        BY <2>1, <2>2, <3>1, <3>2
      <3> DEFINE i == (t * B + u) * B
                 j == uv[1] * B
                 k == lo[1] * B
      <3>4. i \in Int /\ j \in Int /\ k \in Int
        BY <1>1, <1>3, <2>1, SMT
      <3>5. (s * B + hi[2]) * B + lo[2] = i + j + k + lo[2]
        BY <3>3
      <3>6. j + uv[2] = p /\ k + lo[2] = v + uv[2]
        BY <1>1, <1>3, <2>1
      <3> HIDE DEF i, j, k
      <3>7. v \in Int /\ p \in Int /\ uv[2] \in Int /\ lo[2] \in Int
        BY <1>2, <1>3, <1>5, <2>1
      <3>8. i + j + k + lo[2] = i + v + p
        BY <3>4, <3>6, <3>7
      <3> QED BY <3>5, <3>8 DEF i
    <2> HIDE DEF s
    <2>6. (AsWord(s) * B + hi[2]) * B + lo[2] = ((s * B + hi[2]) * B + lo[2]) % Cube
      BY <2>1, <2>2, <2>4, ThreeLimbs
    <2>7. Three(MulAcc(t, u, v, a, b)) = (AsWord(s) * B + hi[2]) * B + lo[2]
      BY <2>3
    <2> QED BY <1>6, <2>5, <2>6, <2>7
  <1>8. Three(MulDoubleAcc(t, u, v, a, b)) = (Three(<<t, u, v>>) + 2 * p) % Cube
    <2> DEFINE dl == AddC(uv[2], uv[2], 0)
               dh == AddC(uv[1], uv[1], dl[1])
               lo == AddC(v, dl[2], 0)
               hi == AddC(u, dh[2], lo[1])
               f == t + dh[1]
               s == f + hi[1]
    <2>1. dl[1] * B + dl[2] = uv[2] + uv[2] + 0 /\ dl[1] \in Int /\ dl[2] \in Int
      <3>1. Sum(dl, uv[2] + uv[2] + 0)
        BY <1>4, <1>5
      <3> QED BY <3>1 DEF Sum
    <2> HIDE DEF dl
    <2>2. dh[1] * B + dh[2] = uv[1] + uv[1] + dl[1] /\ dh[1] \in Int /\ dh[2] \in Int
      <3>1. Sum(dh, uv[1] + uv[1] + dl[1])
        BY <1>4, <1>5, <2>1
      <3> QED BY <3>1 DEF Sum
    <2> HIDE DEF dh
    <2>3. lo[1] * B + lo[2] = v + dl[2] + 0 /\ lo[1] \in Int /\ lo[2] \in Word /\ lo[2] \in Int
      <3>1. Sum(lo, v + dl[2] + 0)
        BY <1>4, <1>5, <2>1
      <3> QED BY <3>1 DEF Sum
    <2> HIDE DEF lo
    <2>4. hi[1] * B + hi[2] = u + dh[2] + lo[1] /\ hi[1] \in Int /\ hi[2] \in Word /\ hi[2] \in Int
      <3>1. Sum(hi, u + dh[2] + lo[1])
        BY <1>4, <1>5, <2>2, <2>3
      <3> QED BY <3>1 DEF Sum
    <2>5. MulDoubleAcc(t, u, v, a, b) = <<AddW(AddW(t, dh[1]), hi[1]), hi[2], lo[2]>>
      BY DEF MulDoubleAcc, uv, dl, dh, lo
    <2> HIDE DEF hi
    <2>6. AddW(AddW(t, dh[1]), hi[1]) = AsWord(s)
      <3> DEFINE g == f % B
      <3>1. f \in Int /\ hi[1] \in Int
        BY <1>1, <2>2, <2>4
      <3>2. (g + hi[1]) % B = (f + hi[1]) % B
        <4> HIDE DEF f
        <4> DEFINE k == f \div B
                   n == (g + hi[1]) \div B
                   m == (g + hi[1]) % B
        <4>1. f = B * k + g /\ k \in Int /\ g \in 0 .. B - 1
          BY <1>1, <3>1, DivMod
        <4>2. g + hi[1] \in Int
          BY <1>1, <3>1, <4>1
        <4>3. g + hi[1] = B * n + m /\ n \in Int /\ m \in 0 .. B - 1
          BY <1>1, <4>2, DivMod
        <4> HIDE DEF g, k, n, m
        <4>4. B * (k + n) = B * k + B * n /\ B * k \in Int /\ B * n \in Int
          BY <1>1, <4>1, <4>3, SMT
        <4>5. f + hi[1] = B * (k + n) + m
          <5> DEFINE i == B * k
                     j == B * n
          <5>1. i \in Int /\ j \in Int /\ f = i + g /\ g + hi[1] = j + m /\ B * (k + n) = i + j
            BY <4>1, <4>3, <4>4
          <5> HIDE DEF i, j
          <5> QED BY <1>1, <3>1, <4>1, <4>3, <5>1
        <4>6. f + hi[1] \in Int /\ k + n \in Int /\ m \in Int /\ 0 <= m /\ m < B
          BY <1>1, <3>1, <4>1, <4>3
        <4>7. (f + hi[1]) % B = m
          BY <1>1, <4>5, <4>6, QuotientIs
        <4> QED BY <4>7 DEF m
      <3> QED BY <3>2 DEF AddW, AsWord
    <2>7. s \in Int /\ f \in Int
      BY <1>1, <2>2, <2>4
    <2>8. (s * B + hi[2]) * B + lo[2] = (t * B + u) * B + v + 2 * p
      <3>1. s * B + hi[2] = t * B + dh[1] * B + (hi[1] * B + hi[2])
        BY <1>1, <2>2, <2>4, SMT
      <3>2. s * B + hi[2] = t * B + u + (dh[1] * B + dh[2]) + lo[1]
        <4> DEFINE i == t * B
                   j == dh[1] * B
                   k == hi[1] * B
                   m == s * B
        <4>1. i \in Int /\ j \in Int /\ k \in Int /\ m \in Int
          BY <1>1, <2>2, <2>4, <2>7, SMT
        <4>2. m + hi[2] = i + j + (k + hi[2]) /\ k + hi[2] = u + dh[2] + lo[1]
          BY <2>4, <3>1
        <4> HIDE DEF i, j, k, m
        <4>3. m + hi[2] = i + u + (j + dh[2]) + lo[1]
          BY <1>1, <2>2, <2>3, <2>4, <4>1, <4>2
        <4> QED BY <4>3 DEF i, j, m
      <3>3. s * B + hi[2] = t * B + u + (uv[1] + uv[1] + dl[1]) + lo[1]
        BY <2>2, <3>2
      <3>4. \A x, y \in Int : (t * B + u + (uv[1] + uv[1] + x) + y) * B
                              = (t * B + u) * B + 2 * (uv[1] * B) + x * B + y * B
        BY <1>1, <1>3, SMT
      <3> DEFINE i == (t * B + u) * B
                 j == uv[1] * B
                 k == dl[1] * B
                 m == lo[1] * B
                 z == (s * B + hi[2]) * B
      <3>5. i \in Int /\ j \in Int /\ k \in Int /\ m \in Int
        BY <1>1, <1>3, <2>1, <2>3, SMT
      <3>6. z = i + 2 * j + k + m
        BY <2>1, <2>3, <3>3, <3>4
      <3>7. j + uv[2] = p /\ k + dl[2] = uv[2] + uv[2] /\ m + lo[2] = v + dl[2]
        BY <1>1, <1>3, <2>1, <2>3
      <3> HIDE DEF i, j, k, m, z
      <3> DEFINE l2 == lo[2]
                 d2 == dl[2]
                 u2 == uv[2]
      <3>8. v \in Int /\ p \in Int /\ uv[2] \in Int /\ lo[2] \in Int /\ dl[2] \in Int
        BY <1>2, <1>3, <1>5, <2>1, <2>3
      <3> HIDE DEF l2, d2, u2
      <3>9. \A P \in Int : j + u2 = P => z + l2 = i + v + 2 * P
        <4>1. u2 \in Int /\ d2 \in Int /\ l2 \in Int /\ k + d2 = u2 + u2 /\ m + l2 = v + d2
          BY <3>7, <3>8 DEF l2, d2, u2
        <4> QED BY <3>5, <3>6, <3>8, <4>1
      <3> QED BY <3>7, <3>8, <3>9 DEF i, z, l2, u2
    <2> HIDE DEF s
    <2>9. (AsWord(s) * B + hi[2]) * B + lo[2] = ((s * B + hi[2]) * B + lo[2]) % Cube
      BY <2>3, <2>4, <2>7, ThreeLimbs
    <2>10. Three(MulDoubleAcc(t, u, v, a, b)) = (AsWord(s) * B + hi[2]) * B + lo[2]
      BY <2>5, <2>6
    <2> QED BY <1>6, <2>8, <2>9, <2>10
  <1> QED BY <1>2, <1>7, <1>8 DEF B, p

\* Carries, borrows and products of limbs are exact for every width of a word.
THEOREM LimbsAreExact == LimbsSpec => []LimbsExact
  <1> DEFINE Called == \/ operands = NoOperands
                       \/ \E x \in Word, y \in Word, z \in Word :
                            operands = [kind |-> "words", x |-> x, y |-> y, z |-> z]
  <1>1. LimbsInit => Called
    BY DEF LimbsInit
  <1>2. Called /\ [LimbsNext]_operands => Called'
    BY DEF LimbsNext, CallWords
  <1>3. Called => LimbsExact
    <2> SUFFICES ASSUME Called, operands.kind = "words" PROVE LimbsExact
      BY DEF LimbsExact
    <2> DEFINE x == operands.x
               y == operands.y
               z == operands.z
               top == Base - 1
               Both(r) == r[1] * Base + r[2]
               Three(r) == (r[1] * Base + r[2]) * Base + r[3]
               Cube == Base * Base * Base
    <2>1. x \in Word /\ y \in Word /\ z \in Word
      BY DEF NoOperands
    <2>2. top \in Word /\ 0 \in Word /\ \A w \in Word : w \in Int
      BY BaseFacts
    <2> HIDE DEF x, y, z, top, Called
    <2>3. ASSUME NEW c \in {0, 1}
          PROVE  /\ Both(AddC(x, y, c)) = x + y + c
                 /\ SubB(x, y, c)[2] - Base * SubB(x, y, c)[1] = x - y - c
      <3>1. x \in Int /\ y \in Int /\ c \in Int
        BY <2>1, <2>2
      <3> QED BY <2>1, <3>1, AddCExact, SubBExact
    <2>4. ASSUME NEW i \in Word, NEW j \in Word, NEW k \in Word
          PROVE  /\ Both(MulAdd1(i, j, k)) = i * j + k
                 /\ Both(MulAdd2(i, j, k, top)) = i * j + k + top
                 /\ MulAdd1(i, j, k)[1] \in Word /\ MulAdd2(i, j, k, top)[1] \in Word
      <3> DEFINE s1 == i * j + k
                 s2 == i * j + k + top
      <3>1. s2 \in Int /\ s2 \div Base \in Word
        BY <2>2, ProductFits
      <3>2. s1 \in Int /\ s1 \div Base \in Word
        <4>1. i * j + k + 0 \in Int /\ (i * j + k + 0) \div Base \in Word
          BY <2>2, ProductFits
        <4>2. i * j + k \in Int
          BY <2>2, SMT
        <4>3. i * j + k + 0 = i * j + k
          BY <4>2
        <4> QED BY <4>1, <4>3
      <3>3. /\ MulAdd1(i, j, k)[1] = s1 \div Base /\ MulAdd1(i, j, k)[2] = AsWord(s1)
            /\ MulAdd2(i, j, k, top)[1] = s2 \div Base /\ MulAdd2(i, j, k, top)[2] = AsWord(s2)
        BY DEF MulAdd1, MulAdd2
      <3> HIDE DEF s1, s2
      <3>4. (s1 \div Base) * Base + AsWord(s1) = s1 /\ (s2 \div Base) * Base + AsWord(s2) = s2
        BY <3>1, <3>2, HighLow
      <3> QED BY <3>1, <3>2, <3>3, <3>4 DEF s1, s2
    <2>5. Both(SMul(x, y)) = (AsSigned(x) * AsSigned(y)) % (Base * Base)
      <3> DEFINE w == AsSigned(x) * AsSigned(y)
      <3>1. w \in Int
        <4>1. \A i \in Int : AsSigned(i) \in Int
          BY BaseFacts DEF AsSigned
        <4>2. AsSigned(x) \in Int /\ AsSigned(y) \in Int
          BY <2>1, <2>2, <4>1
        <4> QED BY <4>2, SMT
      <3>2. SMul(x, y)[1] = AsWord(w \div Base) /\ SMul(x, y)[2] = AsWord(w)
        BY DEF SMul
      <3> HIDE DEF w
      <3>3. Both(SMul(x, y)) = w % (Base * Base)
        BY <3>1, <3>2, LowDouble
      <3> QED BY <3>3 DEF w
    <2>6. ASSUME NEW t \in {0, top}, NEW b \in {x, top}
          PROVE  /\ Three(MulAcc(t, x, y, z, b)) = (Three(<<t, x, y>>) + z * b) % Cube
                 /\ Three(MulDoubleAcc(t, x, y, z, b)) = (Three(<<t, x, y>>) + 2 * z * b) % Cube
      <3>1. t \in Word /\ b \in Word
        BY <2>1, <2>2
      <3> QED BY <2>1, <3>1, AccumulatorsExact
    <2>7. /\ Both(MulAdd1(x, y, z)) = x * y + z /\ Both(MulAdd2(x, y, z, top)) = x * y + z + top
          /\ \A r \in {MulAdd1(x, top, y), MulAdd2(x, y, z, top)} : r[1] \in Word
      BY <2>1, <2>2, <2>4
    <2> QED BY <2>3, <2>5, <2>6, <2>7 DEF LimbsExact, x, y, z, top
  <1> HIDE DEF Called
  <1> QED BY <1>1, <1>2, <1>3, PTL DEF LimbsSpec

=============================================================================
