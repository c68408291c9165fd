---------------------------- MODULE NumberLemmas ----------------------------
(***************************************************************************)
(* Facts about numbers that the proofs of several components need: least   *)
(* and greatest elements, division, powers, and sums over finite sets.     *)
(*                                                                         *)
(* The induction theorems of the library take an operator as a parameter.  *)
(* Induction is done here with sets: a set of counterexamples that is not  *)
(* empty has a smallest element (LeastNumber, SmallestSubset), which is    *)
(* refuted.                                                                *)
(***************************************************************************)
EXTENDS Integers, FiniteSetsExt, Functions, FiniteSetTheorems, WellFoundedInduction, TLAPS

-----------------------------------------------------------------------------
(* Induction *)

\* A set of natural numbers has a least element.
LEMMA LeastNumber ==
    ASSUME NEW T \in SUBSET Nat, T # {}
    PROVE  \E m \in T : \A n \in T : m <= n
  <1> DEFINE R == OpToRel(<, Nat)
  <1>1. IsWellFoundedOn(R, Nat)
    BY NatLessThanWellFounded
  <1>2. PICK m \in T : \A n \in T : ~ (<<n, m>> \in R)
    <2> HIDE DEF R
    <2> QED BY <1>1, WFMin
  <1>3. \A n \in T : ~ (n < m)
    BY <1>2 DEF OpToRel
  <1> QED BY <1>3

\* Induction over the natural numbers, for a set.
LEMMA SetInduction ==
    ASSUME NEW S \in SUBSET Nat, 0 \in S, \A n \in S : n + 1 \in S
    PROVE  S = Nat
  <1> SUFFICES ASSUME Nat \ S # {} PROVE FALSE
    OBVIOUS
  <1>1. PICK m \in Nat \ S : \A n \in Nat \ S : m <= n
    BY LeastNumber
  <1>2. m - 1 \in Nat /\ m - 1 \notin Nat \ S
    BY <1>1
  <1> QED BY <1>1, <1>2

\* A family of subsets of a finite set has one that contains no other.
LEMMA SmallestSubset ==
    ASSUME NEW S, IsFiniteSet(S), NEW B, B \subseteq SUBSET S, B # {}
    PROVE  \E s \in B : \A u \in B : u \subseteq s => u = s
  <1> DEFINE sizes == {n \in Nat : \E s \in B : Cardinality(s) = n}
  <1>1. \A s \in B : IsFiniteSet(s) /\ Cardinality(s) \in Nat
    BY FS_Subset, FS_CardinalityType
  <1>2. sizes # {}
    BY <1>1
  <1>3. PICK n \in sizes : \A m \in sizes : n <= m
    <2> HIDE DEF sizes
    <2>1. sizes \in SUBSET Nat
      BY DEF sizes
    <2> QED BY <1>2, <2>1, LeastNumber
  <1>4. PICK s \in B : Cardinality(s) = n
    OBVIOUS
  <1>5. ASSUME NEW u \in B, u \subseteq s PROVE u = s
    <2>1. Cardinality(u) <= Cardinality(s) /\ (Cardinality(s) = Cardinality(u) => s = u)
      BY <1>1, <1>5, FS_Subset
    <2>2. Cardinality(u) \in sizes
      BY <1>1
    <2>3. Cardinality(s) <= Cardinality(u)
      BY <1>3, <1>4, <2>2
    <2> QED BY <2>1, <2>3, <1>1
  <1> QED BY <1>5

-----------------------------------------------------------------------------
(* Min and Max *)

\* The minimum of a set of naturals is its least element.
LEMMA MinMember ==
    ASSUME NEW S \in SUBSET Nat, S # {}
    PROVE  Min(S) \in S /\ \A x \in S : Min(S) <= x
  BY LeastNumber DEF Min

\* The maximum of a bounded set of naturals is its greatest element.
LEMMA MaxMember ==
    ASSUME NEW n \in Nat, NEW S \in SUBSET (0 .. n), S # {}
    PROVE  Max(S) \in S /\ \A y \in S : y <= Max(S)
  <1> DEFINE T == {n - x : x \in S}
  <1>1. T \in SUBSET Nat /\ T # {}
    <2>1. \A x \in S : n - x \in Nat
      OBVIOUS
    <2>2. PICK x \in S : TRUE
      OBVIOUS
    <2> QED BY <2>1, <2>2
  <1>2. PICK m \in T : \A k \in T : m <= k
    BY <1>1, LeastNumber
  <1>3. PICK x \in S : m = n - x
    BY <1>2
  <1>4. \A y \in S : y <= x
    <2> SUFFICES ASSUME NEW y \in S PROVE y <= x
      OBVIOUS
    <2>1. n - y \in T
      OBVIOUS
    <2>2. n - x <= n - y
      BY <1>2, <1>3, <2>1
    <2> QED BY <2>2
  <1> QED BY <1>4 DEF Max

\* The minimum of one number.
LEMMA MinOfOne == \A x \in Int : Min({x}) = x
  BY DEF Min

\* The minimum of two numbers.
LEMMA MinOfTwo == \A x, y \in Int : Min({x, y}) = IF x <= y THEN x ELSE y
  BY DEF Min

\* The maximum of two numbers.
LEMMA MaxOfTwo == \A x, y \in Int : Max({x, y}) = IF x >= y THEN x ELSE y
  BY DEF Max

-----------------------------------------------------------------------------
(* Division *)

\* Division by a positive number loses less than the divisor.
LEMMA Division ==
    ASSUME NEW c \in Nat, NEW n \in Nat \ {0}
    PROVE  /\ c \div n \in Nat /\ c \div n <= c
           /\ n * (c \div n) <= c /\ c <= n * (c \div n) + n - 1
  <1>1. c = n * (c \div n) + (c % n) /\ c % n \in 0 .. n - 1 /\ c \div n \in Int
    BY SMT
  <1>2. c \div n >= 0
    BY SMT
  <1>3. n * (c \div n) >= c \div n
    BY <1>1, <1>2, SMT
  <1> QED BY <1>1, <1>2, <1>3, SMT

\* A common factor cancels from a strict bound.
LEMMA FactorCancels ==
    ASSUME NEW n \in Nat \ {0}, NEW x \in Nat, NEW y \in Nat, n * x < n * (y + 1)
    PROVE  x <= y
  <1> SUFFICES ASSUME x >= y + 1 PROVE FALSE
    OBVIOUS
  <1>1. PICK k \in Nat : x = y + 1 + k
    <2>1. x - (y + 1) \in Nat /\ x = y + 1 + (x - (y + 1))
      OBVIOUS
    <2> QED BY <2>1
  <1>2. n * x = n * (y + 1) + n * k /\ n * k >= 0
    BY <1>1, SMT
  <1> QED BY <1>2, SMT

\* A quotient lies between the bounds of the dividend.
LEMMA QuotientBetween ==
    ASSUME NEW c \in Nat, NEW n \in Nat \ {0}, NEW lo \in Nat, NEW hi \in Nat,
           n * lo <= c, c <= n * hi
    PROVE  lo <= c \div n /\ c \div n <= hi
  <1> DEFINE q == c \div n
  <1>1. q \in Nat /\ n * q <= c /\ c <= n * q + n - 1
    BY Division
  <1> HIDE DEF q
  <1>2. n * (hi + 1) = n * hi + n /\ n * (q + 1) = n * q + n
    BY <1>1, SMT
  <1>3. n * hi \in Nat /\ n * lo \in Nat /\ n * q \in Nat
    BY <1>1, SMT
  <1> DEFINE a == n * hi  b == n * lo  d == n * q
  <1>4. a \in Nat /\ b \in Nat /\ d \in Nat /\ d <= c /\ c <= d + n - 1 /\ b <= c /\ c <= a
    BY <1>1, <1>3
  <1> HIDE DEF a, b, d
  <1>5. d < a + n /\ b < d + n
    BY <1>4
  <1>6. n * q < n * (hi + 1) /\ n * lo < n * (q + 1)
    BY <1>2, <1>5 DEF a, b, d
  <1>7. q <= hi /\ lo <= q
    BY <1>1, <1>6, FactorCancels
  <1> QED BY <1>7 DEF q

\* Quotient and remainder of any integer.
LEMMA DivMod ==
    ASSUME NEW n \in Int, NEW d \in Nat \ {0}
    PROVE  n = d * (n \div d) + (n % d) /\ n % d \in 0 .. d - 1 /\ n \div d \in Int
  BY SMT

\* The same of a natural number.
LEMMA DivModNat ==
    ASSUME NEW n \in Nat, NEW d \in Nat \ {0}
    PROVE  n = d * (n \div d) + (n % d) /\ n % d \in Nat /\ n % d < d /\ n \div d \in Nat
  <1>1. n = d * (n \div d) + (n % d) /\ n % d \in 0 .. d - 1
    BY DivMod
  <1>2. n \div d \in Nat
    BY Division
  <1> QED BY <1>1, <1>2

\* They are the only ones.
LEMMA QuotientIs ==
    ASSUME NEW n \in Int, NEW d \in Nat \ {0}, NEW q \in Int, NEW r \in Int,
           0 <= r, r < d, n = d * q + r
    PROVE  n \div d = q /\ n % d = r
  <1> DEFINE Q == n \div d
             R == n % d
  <1>1. n = d * Q + R /\ R \in 0 .. d - 1 /\ Q \in Int
    BY DivMod
  <1> SUFFICES Q = q /\ R = r
    OBVIOUS
  <1> HIDE DEF Q, R
  <1>2. \A i, j \in Int : i > j => d * i >= d * j + d
    <2> SUFFICES ASSUME NEW i \in Int, NEW j \in Int, i > j PROVE d * i >= d * j + d
      OBVIOUS
    <2>1. PICK k \in Nat : i = j + 1 + k
      <3>1. i - (j + 1) \in Nat /\ i = j + 1 + (i - (j + 1))
        OBVIOUS
      <3> QED BY <3>1
    <2>2. d * i = d * j + d + d * k /\ d * k >= 0
      BY <2>1, SMT
    <2> QED BY <2>2, SMT
  <1> DEFINE a == d * Q
             b == d * q
  <1>3. a \in Int /\ b \in Int /\ a + R = b + r
    BY <1>1, SMT
  <1>4. (Q > q => a >= b + d) /\ (q > Q => b >= a + d)
    BY <1>1, <1>2
  <1> HIDE DEF a, b
  <1>5. Q = q
    BY <1>1, <1>3, <1>4
  <1>6. a = b
    BY <1>5 DEF a, b
  <1> QED BY <1>1, <1>3, <1>5, <1>6

-----------------------------------------------------------------------------
(* Powers.  IsPower says that g is the recursive function k |-> b^k. *)

IsPower(g, b) == g = [k \in Nat |-> IF k = 0 THEN 1 ELSE b * g[k - 1]]

\* The same on the numbers up to n.
IsPowerTo(g, b, n) == g = [k \in 0 .. n |-> IF k = 0 THEN 1 ELSE b * g[k - 1]]

\* Powers up to n exist.
LEMMA PowersTo ==
    ASSUME NEW b \in Int
    PROVE  \A n \in Nat : \E g : IsPowerTo(g, b, n)
  <1> DEFINE S == {n \in Nat : \E g : IsPowerTo(g, b, n)}
  <1>1. 0 \in S
    <2>1. IsPowerTo([k \in 0 .. 0 |-> 1], b, 0)
      BY DEF IsPowerTo
    <2> QED BY <2>1
  <1>2. ASSUME NEW n \in S PROVE n + 1 \in S
    <2>1. PICK p : IsPowerTo(p, b, n)
      OBVIOUS
    <2> DEFINE q == [k \in 0 .. n + 1 |-> IF k = 0 THEN 1 ELSE b * p[k - 1]]
    <2>2. \A k \in 0 .. n : q[k] = p[k]
      BY <2>1 DEF IsPowerTo
    <2>3. \A k \in 0 .. n + 1 : k # 0 => k - 1 \in 0 .. n
      OBVIOUS
    <2>4. \A k \in 0 .. n + 1 : q[k] = IF k = 0 THEN 1 ELSE b * q[k - 1]
      BY <2>2, <2>3
    <2>5. q = [k \in 0 .. n + 1 |-> q[k]]
      OBVIOUS
    <2> HIDE DEF q
    <2>6. IsPowerTo(q, b, n + 1)
      BY <2>4, <2>5 DEF IsPowerTo
    <2> QED BY <2>6
  <1> HIDE DEF S
  <1>3. S = Nat
    BY <1>1, <1>2, SetInduction DEF S
  <1> QED BY <1>3 DEF S

\* Two functions that are the powers agree where both are defined.
LEMMA PowersAgree ==
    ASSUME NEW b \in Int, NEW m \in Nat, NEW n \in Nat, NEW g, NEW h,
           IsPowerTo(g, b, m), IsPowerTo(h, b, n), m <= n
    PROVE  \A k \in 0 .. m : g[k] = h[k]
  <1> DEFINE S == {k \in Nat : k <= m => g[k] = h[k]}
  <1>1. 0 \in S
    BY DEF IsPowerTo
  <1>2. ASSUME NEW k \in S PROVE k + 1 \in S
    <2> SUFFICES ASSUME k + 1 <= m PROVE g[k + 1] = h[k + 1]
      OBVIOUS
    <2>1. g[k] = h[k] /\ k \in Nat /\ k + 1 \in 0 .. m /\ k + 1 \in 0 .. n /\ (k + 1) - 1 = k
      OBVIOUS
    <2>2. g[k + 1] = b * g[k] /\ h[k + 1] = b * h[k]
      BY <2>1 DEF IsPowerTo
    <2> QED BY <2>1, <2>2
  <1> HIDE DEF S
  <1>3. S = Nat
    BY <1>1, <1>2, SetInduction DEF S
  <1> QED BY <1>3 DEF S

\* So there is one function of all powers.
LEMMA PowerExists ==
    ASSUME NEW b \in Int
    PROVE  \E g : IsPower(g, b)
  <1> DEFINE P(n) == CHOOSE g : IsPowerTo(g, b, n)
             f == [n \in Nat |-> P(n)[n]]
  <1>1. \A n \in Nat : IsPowerTo(P(n), b, n)
    BY PowersTo
  <1> HIDE DEF P
  <1>2. ASSUME NEW n \in Nat, n # 0 PROVE P(n)[n] = b * P(n - 1)[n - 1]
    <2>1. n - 1 \in Nat /\ n - 1 \in 0 .. n - 1 /\ n \in 0 .. n
      BY <1>2
    <2>2. P(n)[n] = b * P(n)[n - 1]
      BY <1>1, <1>2, <2>1 DEF IsPowerTo
    <2>3. P(n - 1)[n - 1] = P(n)[n - 1]
      BY <1>1, <2>1, PowersAgree
    <2> QED BY <2>2, <2>3
  <1>3. P(0)[0] = 1
    BY <1>1 DEF IsPowerTo
  <1>4. \A n \in Nat : f[n] = IF n = 0 THEN 1 ELSE b * f[n - 1]
    BY <1>2, <1>3
  <1>5. f = [n \in Nat |-> f[n]]
    OBVIOUS
  <1> HIDE DEF f
  <1> QED BY <1>4, <1>5 DEF IsPower

\* The first power, and each one from the one before.
LEMMA PowerStep ==
    ASSUME NEW b \in Int, NEW g, IsPower(g, b)
    PROVE  g[0] = 1 /\ \A k \in Nat : g[k + 1] = b * g[k]
  <1>1. ASSUME NEW k \in Nat PROVE g[k + 1] = b * g[k]
    <2>1. k + 1 \in Nat /\ k + 1 # 0 /\ (k + 1) - 1 = k
      OBVIOUS
    <2> QED BY <2>1 DEF IsPower
  <1> QED BY <1>1 DEF IsPower

\* Powers of a positive number are positive.
LEMMA PowerPositive ==
    ASSUME NEW b \in Nat \ {0}, NEW g, IsPower(g, b)
    PROVE  \A k \in Nat : g[k] \in Nat \ {0}
  <1> DEFINE S == {k \in Nat : g[k] \in Nat \ {0}}
  <1>1. 0 \in S
    BY PowerStep
  <1>2. ASSUME NEW k \in S PROVE k + 1 \in S
    <2>1. g[k + 1] = b * g[k]
      BY PowerStep
    <2>2. g[k] \in Nat \ {0}
      OBVIOUS
    <2>3. \A x \in Nat \ {0} : b * x \in Nat \ {0}
      BY SMT
    <2> QED BY <2>1, <2>2, <2>3
  <1> HIDE DEF S
  <1>3. S = Nat
    BY <1>1, <1>2, SetInduction DEF S
  <1> QED BY <1>3 DEF S

\* Exponents add.
LEMMA PowerSum ==
    ASSUME NEW b \in Nat \ {0}, NEW g, IsPower(g, b), NEW j \in Nat
    PROVE  \A k \in Nat : g[j + k] = g[j] * g[k]
  <1> DEFINE S == {k \in Nat : g[j + k] = g[j] * g[k]}
  <1>1. \A k \in Nat : g[k] \in Nat \ {0}
    BY PowerPositive
  <1>2. 0 \in S
    BY <1>1, PowerStep
  <1>3. ASSUME NEW k \in S PROVE k + 1 \in S
    <2>1. g[j + k] = g[j] * g[k] /\ g[k] \in Nat /\ g[j] \in Nat /\ j + k \in Nat
      BY <1>1
    <2>2. g[k + 1] = b * g[k] /\ g[(j + k) + 1] = b * g[j + k] /\ j + (k + 1) = (j + k) + 1
      BY <2>1, PowerStep
    <2>3. \A x, y \in Nat : b * (x * y) = x * (b * y)
      BY SMT
    <2>4. g[j + (k + 1)] = g[j] * g[k + 1]
      BY <2>1, <2>2, <2>3
    <2> QED BY <2>4
  <1> HIDE DEF S
  <1>4. S = Nat
    BY <1>2, <1>3, SetInduction DEF S
  <1> QED BY <1>4 DEF S

\* A power divides every later one and, of a base above one, is less.
LEMMA PowerLess ==
    ASSUME NEW b \in Nat, b > 1, NEW g, IsPower(g, b), NEW j \in Nat, NEW k \in Nat
    PROVE  /\ j <= k => g[k] = g[j] * g[k - j] /\ g[j] <= g[k]
           /\ j < k => b * g[j] <= g[k] /\ g[j] < g[k]
  <1>1. \A i \in Nat : g[i] \in Nat \ {0}
    BY PowerPositive
  <1>2. ASSUME j <= k PROVE g[k] = g[j] * g[k - j] /\ g[j] <= g[k]
    <2>1. k - j \in Nat /\ j + (k - j) = k
      BY <1>2
    <2>2. g[k] = g[j] * g[k - j]
      BY <2>1, PowerSum
    <2>3. \A x, y \in Nat \ {0} : x <= x * y
      BY SMT
    <2> QED BY <1>1, <2>1, <2>2, <2>3
  <1>3. ASSUME j < k PROVE b * g[j] <= g[k] /\ g[j] < g[k]
    <2>1. k - (j + 1) \in Nat /\ (j + 1) + (k - (j + 1)) = k /\ j + 1 \in Nat
      BY <1>3
    <2>2. g[k] = g[j + 1] * g[k - (j + 1)] /\ g[j + 1] = b * g[j]
      <3>1. ASSUME NEW m \in Nat PROVE \A i \in Nat : g[m + i] = g[m] * g[i]
        BY PowerSum
      <3>2. g[j + 1] = b * g[j]
        BY PowerStep
      <3>3. g[(j + 1) + (k - (j + 1))] = g[j + 1] * g[k - (j + 1)]
        BY <2>1, <3>1
      <3> QED BY <2>1, <3>2, <3>3
    <2>3. \A x, y \in Nat \ {0} : x <= x * y /\ x < b * x
      BY SMT
    <2>4. g[j + 1] <= g[k]
      BY <1>1, <2>1, <2>2, <2>3
    <2> QED BY <1>1, <2>1, <2>2, <2>3, <2>4
  <1> QED BY <1>2, <1>3

-----------------------------------------------------------------------------
(* Sums.  SumFunctionOnSet is a fold, which is a recursive function on the *)
(* subsets of S; IsIter says that g is that function.                      *)

Pick(s) == CHOOSE x \in s : TRUE

IsIter(g, f, S) ==
    g = [s \in SUBSET S |-> IF s = {} THEN 0 ELSE f[Pick(s)] + g[s \ {Pick(s)}]]

\* A sum is the value at S of a function on the subsets of S that adds one element
\* at a time.
LEMMA SumUnfold ==
    ASSUME NEW f, NEW S
    PROVE  SumFunctionOnSet(f, S) = (CHOOSE g : IsIter(g, f, S))[S]
  BY DEF SumFunctionOnSet, FoldFunctionOnSet, MapThenFoldSet, IsIter, Pick

\* The element added next is one of those left.
LEMMA PickIn == \A s : s # {} => Pick(s) \in s
  BY DEF Pick

\* Such a function at one subset.
LEMMA IterAt ==
    ASSUME NEW f, NEW S, NEW g, IsIter(g, f, S), NEW s \in SUBSET S
    PROVE  g[s] = IF s = {} THEN 0 ELSE f[Pick(s)] + g[s \ {Pick(s)}]
  BY Zenon DEF IsIter

\* There is one such function at most, and there is one.
LEMMA IterUnique ==
    ASSUME NEW f, NEW S, IsFiniteSet(S), NEW g, NEW h, IsIter(g, f, S), IsIter(h, f, S)
    PROVE  g = h
  <1> DEFINE B == {s \in SUBSET S : g[s] # h[s]}
  <1>1. ASSUME B # {} PROVE FALSE
    <2>1. PICK s \in B : \A u \in B : u \subseteq s => u = s
      <3>1. B \subseteq SUBSET S
        OBVIOUS
      <3> HIDE DEF B
      <3> QED BY <1>1, <3>1, SmallestSubset
    <2>2. s # {}
      BY IterAt
    <2>3. s \ {Pick(s)} \notin B
      BY <2>1, <2>2, PickIn
    <2> QED BY <2>2, <2>3, IterAt
  <1>2. g = [s \in SUBSET S |-> g[s]] /\ h = [s \in SUBSET S |-> h[s]]
    BY Zenon DEF IsIter
  <1> QED BY <1>1, <1>2

Iter(f, S) == CHOOSE g : IsIter(g, f, S)

\* Such a function, restricted to the subsets of a subset, is one for that subset.
LEMMA IterRestricted ==
    ASSUME NEW f, NEW S, IsFiniteSet(S), NEW g, IsIter(g, f, S), NEW s \in SUBSET S
    PROVE  IsIter([u \in SUBSET s |-> g[u]], f, s)
  <1> DEFINE r == [u \in SUBSET s |-> g[u]]
  <1>1. ASSUME NEW u \in SUBSET s
        PROVE  r[u] = IF u = {} THEN 0 ELSE f[Pick(u)] + r[u \ {Pick(u)}]
    <2>1. g[u] = IF u = {} THEN 0 ELSE f[Pick(u)] + g[u \ {Pick(u)}]
      BY IterAt
    <2>2. r[u] = g[u] /\ r[u \ {Pick(u)}] = g[u \ {Pick(u)}]
      OBVIOUS
    <2> QED BY <2>1, <2>2
  <1> QED BY <1>1 DEF IsIter

\* Such a function exists for a finite set.
LEMMA IterExists ==
    ASSUME NEW f, NEW S, IsFiniteSet(S)
    PROVE  IsIter(Iter(f, S), f, S)
  <1> SUFFICES \E g : IsIter(g, f, S)
    BY Zenon DEF Iter
  <1> DEFINE B == {s \in SUBSET S : ~ \E g : IsIter(g, f, s)}
  <1> SUFFICES ASSUME B # {} PROVE FALSE
    OBVIOUS
  <1>1. PICK s \in B : \A u \in B : u \subseteq s => u = s
    <2>1. B \subseteq SUBSET S
      OBVIOUS
    <2> HIDE DEF B
    <2> QED BY <2>1, SmallestSubset
  <1>2. \A u \in SUBSET s : u # s => IsIter(Iter(f, u), f, u)
    BY <1>1, Zenon DEF Iter
  <1>3. \A u \in SUBSET s : IsFiniteSet(u)
    BY FS_Subset
  <1> DEFINE value(u) == IF u = {} THEN 0
                         ELSE f[Pick(u)] + Iter(f, u \ {Pick(u)})[u \ {Pick(u)}]
             H == [u \in SUBSET s |-> value(u)]
  <1>4. ASSUME NEW v \in SUBSET s, v # s PROVE Iter(f, v)[v] = H[v]
    <2>1. Iter(f, v)[v] = IF v = {} THEN 0 ELSE f[Pick(v)] + Iter(f, v)[v \ {Pick(v)}]
      BY <1>2, <1>4, IterAt
    <2>2. CASE v # {}
      <3> DEFINE w == v \ {Pick(v)}
      <3>1. w \in SUBSET v /\ w # s /\ w \in SUBSET s
        BY <2>2, PickIn
      <3>2. IsIter([u \in SUBSET w |-> Iter(f, v)[u]], f, w)
        BY <1>2, <1>3, <1>4, <3>1, IterRestricted
      <3>3. Iter(f, w) = [u \in SUBSET w |-> Iter(f, v)[u]]
        BY <1>2, <1>3, <3>1, <3>2, IterUnique
      <3>4. Iter(f, w)[w] = Iter(f, v)[w]
        BY <3>3, Zenon
      <3> QED BY <2>1, <2>2, <3>4
    <2> QED BY <2>1, <2>2
  <1>5. ASSUME NEW u \in SUBSET s
        PROVE  value(u) = IF u = {} THEN 0 ELSE f[Pick(u)] + H[u \ {Pick(u)}]
    <2>1. CASE u # {}
      <3>1. u \ {Pick(u)} \in SUBSET s /\ u \ {Pick(u)} # s
        BY <2>1, PickIn
      <3> HIDE DEF H
      <3> QED BY <1>4, <3>1, <2>1
    <2> QED BY <2>1
  <1>6. IsIter(H, f, s)
    BY <1>5 DEF IsIter
  <1> QED BY <1>1, <1>6

\* The sum satisfies the equation that defines it.
LEMMA SumDef ==
    ASSUME NEW f, NEW S, IsFiniteSet(S)
    PROVE  SumFunctionOnSet(f, S) =
              IF S = {} THEN 0 ELSE f[Pick(S)] + SumFunctionOnSet(f, S \ {Pick(S)})
  <1> DEFINE T == S \ {Pick(S)}
  <1>1. SumFunctionOnSet(f, S) = Iter(f, S)[S] /\ SumFunctionOnSet(f, T) = Iter(f, T)[T]
    BY SumUnfold DEF Iter
  <1>2. IsFiniteSet(T) /\ T \in SUBSET S
    BY FS_Subset
  <1>3. IsIter(Iter(f, S), f, S) /\ IsIter(Iter(f, T), f, T)
    BY <1>2, IterExists
  <1>4. IsIter([u \in SUBSET T |-> Iter(f, S)[u]], f, T)
    BY <1>2, <1>3, IterRestricted
  <1>5. Iter(f, T) = [u \in SUBSET T |-> Iter(f, S)[u]]
    BY <1>2, <1>3, <1>4, IterUnique
  <1>6. Iter(f, T)[T] = Iter(f, S)[T]
    BY <1>5, Zenon
  <1>7. Iter(f, S)[S] = IF S = {} THEN 0 ELSE f[Pick(S)] + Iter(f, S)[T]
    BY <1>3, IterAt
  <1> QED BY <1>1, <1>6, <1>7


\* The sum of nothing is zero.
LEMMA SumEmpty == \A f : SumFunctionOnSet(f, {}) = 0
  BY SumDef, FS_EmptySet

\* A sum of integers is an integer.
LEMMA SumInt ==
    ASSUME NEW f, NEW S, IsFiniteSet(S), \A x \in S : f[x] \in Int
    PROVE  SumFunctionOnSet(f, S) \in Int
  <1> DEFINE B == {s \in SUBSET S : SumFunctionOnSet(f, s) \notin Int}
  <1> SUFFICES ASSUME B # {} PROVE FALSE
    OBVIOUS
  <1>1. PICK s \in B : \A u \in B : u \subseteq s => u = s
    <2>1. B \subseteq SUBSET S
      OBVIOUS
    <2> HIDE DEF B
    <2> QED BY <2>1, SmallestSubset
  <1>2. s # {}
    BY SumEmpty
  <1>3. Pick(s) \in s /\ s \ {Pick(s)} \notin B
    BY <1>1, <1>2, PickIn
  <1>4. SumFunctionOnSet(f, s) = f[Pick(s)] + SumFunctionOnSet(f, s \ {Pick(s)})
    BY <1>2, SumDef, FS_Subset
  <1> QED BY <1>3, <1>4

\* The order of the summands does not matter.
LEMMA SumRemove ==
    ASSUME NEW f, NEW S, IsFiniteSet(S), \A x \in S : f[x] \in Int, NEW y \in S
    PROVE  SumFunctionOnSet(f, S) = f[y] + SumFunctionOnSet(f, S \ {y})
  <1> DEFINE Ok(s) == \A x \in s : SumFunctionOnSet(f, s) = f[x] + SumFunctionOnSet(f, s \ {x})
             B == {s \in SUBSET S : ~Ok(s)}
  <1> SUFFICES ASSUME B # {} PROVE FALSE
    OBVIOUS
  <1>1. PICK s \in B : \A u \in B : u \subseteq s => u = s
    <2>1. B \subseteq SUBSET S
      OBVIOUS
    <2> HIDE DEF B
    <2> QED BY <2>1, SmallestSubset
  <1>2. PICK x \in s : SumFunctionOnSet(f, s) # f[x] + SumFunctionOnSet(f, s \ {x})
    OBVIOUS
  <1> DEFINE p == Pick(s)
             rest == SumFunctionOnSet(f, (s \ {p}) \ {x})
  <1>3. p \in s /\ SumFunctionOnSet(f, s) = f[p] + SumFunctionOnSet(f, s \ {p})
    BY <1>2, SumDef, FS_Subset, PickIn
  <1>4. p # x
    BY <1>2, <1>3
  <1>5. Ok(s \ {p}) /\ Ok(s \ {x})
    BY <1>1, <1>3
  <1>6. SumFunctionOnSet(f, s \ {p}) = f[x] + rest
    BY <1>4, <1>5
  <1>7. SumFunctionOnSet(f, s \ {x}) = f[p] + rest
    <2>1. (s \ {x}) \ {p} = (s \ {p}) \ {x}
      OBVIOUS
    <2> QED BY <1>3, <1>4, <1>5, <2>1
  <1>8. rest \in Int /\ f[p] \in Int /\ f[x] \in Int
    <2>1. IsFiniteSet((s \ {p}) \ {x})
      BY FS_Subset
    <2>2. \A z \in (s \ {p}) \ {x} : f[z] \in Int
      OBVIOUS
    <2> HIDE DEF p
    <2> QED BY <2>1, <2>2, <1>3, SumInt
  <1> QED BY <1>2, <1>3, <1>6, <1>7, <1>8

\* A sum depends only on the values of the function on the set.
LEMMA SumAgree ==
    ASSUME NEW f, NEW g, NEW S, IsFiniteSet(S), \A x \in S : f[x] = g[x]
    PROVE  SumFunctionOnSet(f, S) = SumFunctionOnSet(g, S)
  <1> DEFINE B == {s \in SUBSET S : SumFunctionOnSet(f, s) # SumFunctionOnSet(g, s)}
  <1> SUFFICES ASSUME B # {} PROVE FALSE
    OBVIOUS
  <1>1. PICK s \in B : \A u \in B : u \subseteq s => u = s
    <2>1. B \subseteq SUBSET S
      OBVIOUS
    <2> HIDE DEF B
    <2> QED BY <2>1, SmallestSubset
  <1>2. s # {}
    BY SumEmpty
  <1>3. Pick(s) \in s /\ s \ {Pick(s)} \notin B
    BY <1>1, <1>2, PickIn
  <1>4. /\ SumFunctionOnSet(f, s) = f[Pick(s)] + SumFunctionOnSet(f, s \ {Pick(s)})
        /\ SumFunctionOnSet(g, s) = g[Pick(s)] + SumFunctionOnSet(g, s \ {Pick(s)})
    BY <1>2, SumDef, FS_Subset
  <1> QED BY <1>3, <1>4

\* The sum of a function one of whose values changes.
LEMMA SumUpdate ==
    ASSUME NEW f, NEW g, NEW S, IsFiniteSet(S), NEW y \in S,
           \A x \in S : f[x] \in Int /\ g[x] \in Int,
           \A x \in S \ {y} : f[x] = g[x]
    PROVE  SumFunctionOnSet(g, S) = SumFunctionOnSet(f, S) + g[y] - f[y]
  <1>1. IsFiniteSet(S \ {y})
    BY FS_Subset
  <1>2. SumFunctionOnSet(g, S \ {y}) = SumFunctionOnSet(f, S \ {y})
    BY <1>1, SumAgree
  <1>3. /\ SumFunctionOnSet(g, S) = g[y] + SumFunctionOnSet(g, S \ {y})
        /\ SumFunctionOnSet(f, S) = f[y] + SumFunctionOnSet(f, S \ {y})
    BY SumRemove
  <1>4. SumFunctionOnSet(f, S \ {y}) \in Int
    BY <1>1, SumInt
  <1> QED BY <1>2, <1>3, <1>4

\* A sum of natural numbers is not negative, and zero if all of them are.
LEMMA SumSign ==
    ASSUME NEW f, NEW S, IsFiniteSet(S), \A x \in S : f[x] \in Nat
    PROVE  /\ SumFunctionOnSet(f, S) >= 0
           /\ (\A x \in S : f[x] = 0) => SumFunctionOnSet(f, S) = 0
  <1> DEFINE B == {s \in SUBSET S : \/ SumFunctionOnSet(f, s) \notin Nat
                                    \/ (\A x \in s : f[x] = 0) /\ SumFunctionOnSet(f, s) # 0}
  <1> SUFFICES ASSUME B # {} PROVE FALSE
    OBVIOUS
  <1>1. PICK s \in B : \A u \in B : u \subseteq s => u = s
    <2>1. B \subseteq SUBSET S
      OBVIOUS
    <2> HIDE DEF B
    <2> QED BY <2>1, SmallestSubset
  <1>2. s # {}
    BY SumEmpty
  <1>3. Pick(s) \in s /\ s \ {Pick(s)} \notin B
    BY <1>1, <1>2, PickIn
  <1>4. SumFunctionOnSet(f, s) = f[Pick(s)] + SumFunctionOnSet(f, s \ {Pick(s)})
    BY <1>2, SumDef, FS_Subset
  <1> QED BY <1>3, <1>4

\* A factor common to all summands.
LEMMA SumScaled ==
    ASSUME NEW f, NEW g, NEW S, IsFiniteSet(S), NEW c \in Int,
           \A x \in S : f[x] \in Int /\ g[x] = c * f[x]
    PROVE  SumFunctionOnSet(g, S) = c * SumFunctionOnSet(f, S)
  <1> DEFINE B == {s \in SUBSET S : SumFunctionOnSet(g, s) # c * SumFunctionOnSet(f, s)}
  <1> SUFFICES ASSUME B # {} PROVE FALSE
    OBVIOUS
  <1>1. PICK s \in B : \A u \in B : u \subseteq s => u = s
    <2>1. B \subseteq SUBSET S
      OBVIOUS
    <2> HIDE DEF B
    <2> QED BY <2>1, SmallestSubset
  <1>2. s # {}
    <2>1. SumFunctionOnSet(f, {}) = 0 /\ SumFunctionOnSet(g, {}) = 0 /\ c * 0 = 0
      BY SumEmpty
    <2>2. SumFunctionOnSet(g, {}) = c * SumFunctionOnSet(f, {})
      BY <2>1
    <2> QED BY <2>2
  <1>3. Pick(s) \in s /\ s \ {Pick(s)} \notin B /\ s \ {Pick(s)} \in SUBSET S /\ Pick(s) \in S
    BY <1>1, <1>2, PickIn
  <1> DEFINE u == s \ {Pick(s)}
             F == SumFunctionOnSet(f, u)
  <1>4. /\ SumFunctionOnSet(f, s) = f[Pick(s)] + F
        /\ SumFunctionOnSet(g, s) = g[Pick(s)] + SumFunctionOnSet(g, u)
    BY <1>2, SumDef, FS_Subset
  <1>5. F \in Int
    <2>1. IsFiniteSet(u) /\ \A x \in u : f[x] \in Int
      BY FS_Subset
    <2> QED BY <2>1, SumInt
  <1>6. SumFunctionOnSet(g, u) = c * F
    BY <1>3
  <1> HIDE DEF F, u
  <1>7. \A x, y \in Int : c * (x + y) = c * x + c * y
    BY SMT
  <1>8. SumFunctionOnSet(g, s) = c * SumFunctionOnSet(f, s)
    BY <1>3, <1>4, <1>5, <1>6, <1>7
  <1> QED BY <1>8

=============================================================================
