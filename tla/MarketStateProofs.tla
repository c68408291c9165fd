------------------------- MODULE MarketStateProofs -------------------------
(***************************************************************************)
(* The engine's books, caches and TopOfBook slot, for every number of      *)
(* levels and instruments, all quantities and all events that the feeds    *)
(* may deliver.                                                            *)
(*                                                                         *)
(* A cache is right when its side is clean (Coherent), so a refreshed one  *)
(* is the true best.  SeenCurrent needs two more facts: the prices of the  *)
(* last check are those of the book as long as it is settled, and a        *)
(* two-sided check was either taken by the client or is pending.           *)
(***************************************************************************)
EXTENDS MarketState, NumberLemmas, SequenceTheorems

\* A book whose clean caches are right.
Coherent(book) ==
    book \in Book /\ \A s \in Sides : ~book[s].dirty => IsBest(book, s, book[s].best)

-----------------------------------------------------------------------------
(* ArrayBook *)

\* Level numbers are naturals, and None is an integer that is none of them.
LEMMA IndexFacts == Index \subseteq Nat /\ None \notin Index /\ None \in Int /\ N - 1 \in Nat
  BY NAssumption DEF Index, None

\* The types of one side of a book.
LEMMA SideFacts ==
    ASSUME NEW book \in Book, NEW s \in Sides
    PROVE  /\ book[s] \in BookSide /\ book[s].lots \in [Index -> Nat]
           /\ book[s].best \in Index \cup {None} /\ book[s].dirty \in BOOLEAN
           /\ Occupied(book[s]) \subseteq Index
  BY DEF Book, BookSide, Occupied

\* A scan finds the best level.
LEMMA ScanBest ==
    ASSUME NEW book \in Book, NEW s \in Sides
    PROVE  Scan(book, s) \in Index \cup {None} /\ IsBest(book, s, Scan(book, s))
  <1> DEFINE L == Occupied(book[s])
  <1>1. L \subseteq Index /\ None \notin Index
    BY SideFacts, IndexFacts
  <1>2. CASE L = {}
    BY <1>2 DEF Scan, IsBest
  <1>3. CASE L # {} /\ s = "Bid"
    <2>1. L \in SUBSET (0 .. N - 1) /\ N - 1 \in Nat
      BY <1>1, IndexFacts DEF Index
    <2>2. Max(L) \in L /\ \A y \in L : y <= Max(L)
      BY <1>3, <2>1, MaxMember
    <2> QED BY <1>1, <1>3, <2>2 DEF Scan, IsBest
  <1>4. CASE L # {} /\ s # "Bid"
    <2>1. L \in SUBSET Nat
      BY <1>1, IndexFacts
    <2>2. Min(L) \in L /\ \A y \in L : Min(L) <= y
      BY <1>4, <2>1, MinMember
    <2> QED BY <1>1, <1>4, <2>2 DEF Scan, IsBest
  <1> QED BY <1>2, <1>3, <1>4

\* There is one best level.
LEMMA BestUnique ==
    ASSUME NEW book \in Book, NEW s \in Sides, NEW i \in Index \cup {None},
           NEW j \in Index \cup {None}, IsBest(book, s, i), IsBest(book, s, j)
    PROVE  i = j
  <1>1. Occupied(book[s]) \subseteq Nat
    BY SideFacts, IndexFacts
  <1> QED BY <1>1, IndexFacts DEF IsBest

\* A refresh leaves the levels alone and the side with the right cache.
LEMMA RefreshFacts ==
    ASSUME NEW book, Coherent(book), NEW s \in Sides
    PROVE  /\ Coherent(Refresh(book, s))
           /\ \A t \in Sides : Refresh(book, s)[t].lots = book[t].lots
           /\ \A t \in Sides \ {s} : Refresh(book, s)[t] = book[t]
           /\ Best(book, s) \in Index \cup {None}
           /\ IsBest(book, s, Best(book, s))
           /\ ~Refresh(book, s)[s].dirty /\ Refresh(book, s)[s].best = Best(book, s)
  <1> DEFINE r == Refresh(book, s)
  <1>1. book \in Book /\ \A t \in Sides : book[t] \in BookSide
    BY SideFacts DEF Coherent
  <1>2. /\ r \in Book
        /\ \A t \in Sides : r[t].lots = book[t].lots
        /\ \A t \in Sides \ {s} : r[t] = book[t]
        /\ ~r[s].dirty /\ IsBest(book, s, r[s].best) /\ r[s].best \in Index \cup {None}
    <2>1. CASE book[s].dirty
      <3> DEFINE b == Scan(book, s)
                 side == [book[s] EXCEPT !.best = b, !.dirty = FALSE]
      <3>1. b \in Index \cup {None} /\ IsBest(book, s, b)
        BY <1>1, ScanBest
      <3>2. r = [book EXCEPT ![s] = side]
        BY <2>1 DEF Refresh
      <3> HIDE DEF b
      <3>3. side \in BookSide /\ side.lots = book[s].lots /\ side.best = b /\ side.dirty = FALSE
        BY <1>1, <3>1 DEF BookSide
      <3> HIDE DEF side
      <3>4. r \in Book /\ r[s] = side /\ \A t \in Sides \ {s} : r[t] = book[t]
        BY <1>1, <3>2, <3>3 DEF Book
      <3> HIDE DEF r
      <3> QED BY <3>1, <3>3, <3>4
    <2>2. CASE ~book[s].dirty
      <3>1. r = book
        BY <2>2 DEF Refresh
      <3> QED BY <1>1, <2>2, <3>1, SideFacts DEF Coherent
    <2> QED BY <2>1, <2>2
  <1>3. Best(book, s) = r[s].best
    BY DEF Best
  <1> HIDE DEF r
  <1>4. \A t \in Sides, i \in Index \cup {None} : IsBest(r, t, i) <=> IsBest(book, t, i)
    <2>1. \A t \in Sides : Occupied(r[t]) = Occupied(book[t])
      BY <1>2 DEF Occupied
    <2> QED BY <2>1 DEF IsBest
  <1>5. Coherent(r)
    <2> SUFFICES ASSUME NEW t \in Sides, ~r[t].dirty PROVE IsBest(r, t, r[t].best)
      BY <1>2 DEF Coherent
    <2>1. CASE t = s
      BY <2>1, <1>2, <1>4
    <2>2. CASE t # s
      <3>1. r[t] = book[t] /\ r[t].best \in Index \cup {None}
        BY <2>2, <1>1, <1>2, SideFacts
      <3> QED BY <3>1, <1>4 DEF Coherent
    <2> QED BY <2>1, <2>2
  <1> QED BY <1>2, <1>3, <1>5 DEF r

\* Coherent books with the same levels give the same answers.
LEMMA BestByLots ==
    ASSUME NEW b, NEW c, Coherent(b), Coherent(c), NEW s \in Sides, b[s].lots = c[s].lots
    PROVE  Best(b, s) = Best(c, s)
  <1>1. /\ Best(b, s) \in Index \cup {None} /\ IsBest(b, s, Best(b, s))
        /\ Best(c, s) \in Index \cup {None} /\ IsBest(c, s, Best(c, s))
    BY RefreshFacts
  <1>2. Occupied(b[s]) = Occupied(c[s])
    BY DEF Occupied
  <1>3. IsBest(b, s, Best(c, s))
    BY <1>1, <1>2 DEF IsBest
  <1> QED BY <1>1, <1>3, BestUnique DEF Coherent

\* Refreshing both caches keeps the levels and the coherence, and names the best.
LEMMA RefreshBothFacts ==
    ASSUME NEW book, Coherent(book)
    PROVE  /\ Coherent(RefreshBoth(book))
           /\ \A s \in Sides : /\ RefreshBoth(book)[s].lots = book[s].lots
                               /\ RefreshBoth(book)[s].best = Best(book, s)
  <1> DEFINE r == Refresh(book, "Bid")  q == Refresh(r, "Ask")
  <1>1. "Bid" \in Sides /\ "Ask" \in Sides /\ Sides = {"Bid", "Ask"} /\ "Bid" # "Ask"
    BY DEF Sides
  <1>2. /\ Coherent(r) /\ \A t \in Sides : r[t].lots = book[t].lots
        /\ r["Ask"] = book["Ask"] /\ r["Bid"].best = Best(book, "Bid")
    BY <1>1, RefreshFacts
  <1> HIDE DEF r
  <1>3. /\ Coherent(q) /\ \A t \in Sides : q[t].lots = r[t].lots
        /\ q["Bid"] = r["Bid"] /\ q["Ask"].best = Best(r, "Ask")
    BY <1>1, <1>2, RefreshFacts
  <1>4. Best(r, "Ask") = Best(book, "Ask")
    BY <1>1, <1>2, BestByLots
  <1> HIDE DEF q
  <1>5. RefreshBoth(book) = q
    BY DEF RefreshBoth, q, r
  <1> QED BY <1>1, <1>2, <1>3, <1>4, <1>5

\* A side whose cache is dirty, in an otherwise coherent book.
LEMMA DirtySide ==
    ASSUME NEW book, Coherent(book), NEW s \in Sides, NEW side \in BookSide, side.dirty
    PROVE  Coherent([book EXCEPT ![s] = side])
  <1> DEFINE b == [book EXCEPT ![s] = side]
  <1>1. b \in Book /\ b[s] = side /\ \A t \in Sides \ {s} : b[t] = book[t]
    BY DEF Coherent, Book
  <1> HIDE DEF b
  <1>2. ASSUME NEW t \in Sides, ~b[t].dirty PROVE IsBest(b, t, b[t].best)
    <2>1. b[t] = book[t]
      BY <1>1, <1>2
    <2> QED BY <1>2, <2>1 DEF Coherent, IsBest
  <1>3. Coherent(b)
    BY <1>1, <1>2 DEF Coherent
  <1> QED BY <1>3 DEF b

\* An empty book is coherent: both its caches are dirty.
LEMMA EmptyFacts == EmptySide \in BookSide /\ EmptySide.dirty /\ Coherent(EmptyBook)
  <1>1. EmptySide \in BookSide /\ EmptySide.dirty
    BY DEF EmptySide, BookSide
  <1> QED BY <1>1 DEF EmptyBook, Coherent, Book

\* apply_delta keeps a book coherent, at any price, on the grid or off it.
LEMMA DeltaFacts ==
    ASSUME NEW book, Coherent(book), NEW price \in Int, NEW qty \in Nat, NEW side \in Sides
    PROVE  Coherent(ApplyDelta(book, price, qty, side))
  <1>1. CASE InRange(price)
    <2> DEFINE new == [book[side] EXCEPT !.lots[price] = qty, !.dirty = TRUE]
    <2>1. price \in Index
      BY <1>1, NAssumption DEF InRange, Index
    <2>2. new \in BookSide /\ new.dirty
      <3>1. book[side] \in BookSide /\ book[side].lots \in [Index -> Nat]
        BY SideFacts DEF Coherent
      <3>2. [book[side].lots EXCEPT ![price] = qty] \in [Index -> Nat]
        BY <3>1
      <3> QED BY <3>1, <3>2 DEF BookSide
    <2> HIDE DEF new
    <2>3. Coherent([book EXCEPT ![side] = new])
      BY <2>2, DirtySide
    <2> QED BY <1>1, <2>3 DEF ApplyDelta, new
  <1>2. CASE ~InRange(price)
    BY <1>2 DEF ApplyDelta
  <1> QED BY <1>1, <1>2

\* What best_bid and best_ask answer agrees with the queries that read the
\* levels.
LEMMA DepthFacts ==
    ASSUME NEW book, Coherent(book), NEW s \in Sides, NEW b, b = Best(book, s)
    PROVE  /\ b = None <=> LevelCount(book, s) = 0
           /\ b # None => /\ b = Head(Depth(book, s, N))
                          /\ LotsAt(book, s, b) = TotalDepth(book, s, 1)
  <1> DEFINE L == Occupied(book[s])
             Before(i) == {j \in L : IF s = "Bid" THEN j > i ELSE j < i}
             First == CHOOSE i \in L : Cardinality(Before(i)) = 0
  <1>1. IsBest(book, s, b) /\ b \in Index \cup {None} /\ book \in Book
    BY RefreshFacts DEF Coherent
  <1>2. L \subseteq Index /\ Index \subseteq Nat /\ IsFiniteSet(L) /\ IsFiniteSet(Index)
        /\ book[s].lots \in [Index -> Nat]
    <2>1. IsFiniteSet(Index)
      BY IndexFacts, FS_Interval DEF Index
    <2> QED BY <1>1, <2>1, SideFacts, IndexFacts, FS_Subset
  <1>3. b = None <=> L = {}
    BY <1>1, IndexFacts, <1>2 DEF IsBest
  <1>4. Cardinality(L) \in Nat /\ (Cardinality(L) = 0 <=> L = {})
    BY <1>2, FS_CardinalityType, FS_EmptySet
  <1>5. ASSUME b # None PROVE First = b /\ b \in L
    <2>1. b \in L /\ \A j \in L : IF s = "Bid" THEN j <= b ELSE b <= j
      BY <1>1, <1>5 DEF IsBest
    <2>2. ASSUME NEW i \in L PROVE Cardinality(Before(i)) = 0 <=> i = b
      <3>1. IsFiniteSet(Before(i))
        BY <1>2, FS_Subset
      <3>2. Cardinality(Before(i)) = 0 <=> Before(i) = {}
        BY <3>1, FS_EmptySet
      <3>3. i \in Nat /\ b \in Nat /\ \A j \in L : j \in Nat
        BY <1>2, <2>1
      <3>4. Before(i) = {} <=> i = b
        <4> DEFINE Ahead(j) == IF s = "Bid" THEN j > i ELSE j < i
        <4> HIDE DEF L
        <4>1. Ahead(b) <=> i # b
          BY <2>1, <3>3
        <4>2. ASSUME i = b, NEW j \in L PROVE ~Ahead(j)
          BY <2>1, <3>3, <4>2
        <4>3. Before(i) = {j \in L : Ahead(j)}
          OBVIOUS
        <4> HIDE DEF Ahead, Before
        <4> QED BY <2>1, <4>1, <4>2, <4>3
      <3> QED BY <3>2, <3>4
    <2> HIDE DEF Before, L
    <2> QED BY <2>1, <2>2
  <1>6. ASSUME b # None, NEW k \in Nat \ {0}
        PROVE  /\ Min({k, Cardinality(L)}) >= 1 /\ Min({k, Cardinality(L)}) \in Nat
               /\ (k = 1 => Min({k, Cardinality(L)}) = 1)
               /\ Depth(book, s, k)[1] = b
               /\ DOMAIN Depth(book, s, k) = 1 .. Min({k, Cardinality(L)})
    <2> DEFINE m == Min({k, Cardinality(L)})
    <2>1. m \in Nat /\ m >= 1 /\ (k = 1 => m = 1)
      BY <1>3, <1>4, <1>6, MinOfTwo
    <2>2. Depth(book, s, k) =
              [n \in 1 .. m |-> CHOOSE i \in L : Cardinality(Before(i)) = n - 1]
      BY DEF Depth
    <2>3. 1 \in 1 .. m /\ 1 - 1 = 0
      BY <2>1
    <2> HIDE DEF m
    <2>4. Depth(book, s, k)[1] = CHOOSE i \in L : Cardinality(Before(i)) = 1 - 1
      BY <2>2, <2>3
    <2>5. Depth(book, s, k)[1] = First
      BY <2>4, <2>3
    <2> QED BY <2>1, <2>2, <2>5, <1>5, <1>6 DEF m
  <1>7. ASSUME b # None PROVE b = Head(Depth(book, s, N))
    <2> DEFINE d == Depth(book, s, N)  m == Min({N, Cardinality(L)})  R == {d[n] : n \in 1 .. m}
    <2>1. m \in Nat /\ m >= 1 /\ d[1] = b /\ d \in [1 .. m -> R]
      <3>1. d = [n \in 1 .. m |-> CHOOSE i \in L : Cardinality(Before(i)) = n - 1]
        BY DEF Depth
      <3> HIDE DEF m
      <3>2. d \in [1 .. m -> R]
        BY <3>1
      <3> QED BY <3>2, <1>6, <1>7, NAssumption DEF m
    <2> HIDE DEF d, m, R
    <2>2. d \in Seq(R) /\ d # <<>>
      BY <2>1, SeqDef
    <2>3. Head(d) = d[1]
      BY <2>2, HeadTailProperties
    <2> QED BY <2>1, <2>3 DEF d
  <1>8. ASSUME b # None PROVE LotsAt(book, s, b) = TotalDepth(book, s, 1)
    <2> DEFINE d == Depth(book, s, 1)  f == book[s].lots
    <2>1. DOMAIN d = 1 .. 1 /\ d[1] = b
      <3>1. 1 \in Nat \ {0}
        OBVIOUS
      <3>2. /\ Min({1, Cardinality(L)}) = 1 /\ Depth(book, s, 1)[1] = b
            /\ DOMAIN Depth(book, s, 1) = 1 .. Min({1, Cardinality(L)})
        BY <3>1, <1>6, <1>8
      <3> HIDE DEF L
      <3> QED BY <3>2
    <2>2. Range(d) = {b}
      <3>1. 1 .. 1 = {1}
        OBVIOUS
      <3> HIDE DEF d
      <3> QED BY <2>1, <3>1 DEF Range
    <2>3. b \in Index /\ f[b] \in Int /\ IsFiniteSet({b})
      <3>1. b \in Index
        BY <1>2, <1>5, <1>8
      <3>2. f[b] \in Int
        BY <1>2, <3>1
      <3> QED BY <3>1, <3>2, FS_Singleton
    <2> HIDE DEF f
    <2>4. SumFunctionOnSet(f, {b}) = f[b] + SumFunctionOnSet(f, {b} \ {b})
      BY <2>3, SumRemove
    <2>5. {b} \ {b} = {}
      OBVIOUS
    <2>6. SumFunctionOnSet(f, {b}) = f[b]
      BY <2>3, <2>4, <2>5, SumEmpty
    <2> QED BY <2>2, <2>6 DEF LotsAt, TotalDepth, f, d
  <1> QED BY <1>3, <1>4, <1>7, <1>8 DEF LevelCount

-----------------------------------------------------------------------------
(* process *)

BboOf(book) == [s \in Sides |-> Best(book, s)]

Sane(st) == st \in InstrumentState /\ Coherent(st.book)

\* A TopOfBook of instrument i that shows the best levels of its book.
Shows(i, book, tob) ==
    /\ tob \in [inst: Insts, bbo: Bbo, micro: Int] /\ tob.inst = i
    /\ tob.bbo = BboOf(book) /\ TwoSided(tob.bbo)
    /\ Weighted(book, tob.bbo) <= I64Max /\ Weight(book, tob.bbo) <= I64Max =>
          /\ tob.micro >= Min({tob.bbo[s] : s \in Sides})
          /\ tob.micro <= Max({tob.bbo[s] : s \in Sides})

\* The BBO that the engine reads from a coherent book names its best levels.
LEMMA BboFacts ==
    ASSUME NEW book, Coherent(book)
    PROVE  BboOf(book) \in Bbo /\ \A s \in Sides : IsBest(book, s, BboOf(book)[s])
  <1>1. \A s \in Sides : Best(book, s) \in Index \cup {None} /\ IsBest(book, s, Best(book, s))
    BY RefreshFacts
  <1> QED BY <1>1 DEF BboOf, Bbo

\* What an i64 keeps of a number is an integer, and all of it if it fits.
LEMMA AsI64Facts ==
    ASSUME NEW x \in Nat
    PROVE  AsI64(x) \in Int /\ (x <= I64Max => AsI64(x) = x)
  <1> DEFINE m == I64Max + 1
             y == x + m
             n == 2 * m
  <1>1. m \in Nat \ {0} /\ y \in Nat /\ n \in Nat \ {0} /\ y - m = x
    BY I64Assumption
  <1>2. AsI64(x) = (y % n) - m
    <2>1. x + I64Max + 1 = y
      BY I64Assumption
    <2> QED BY <2>1 DEF AsI64
  <1>3. x <= I64Max => y < n
    BY I64Assumption
  <1> HIDE DEF m, y, n
  <1>4. y % n \in 0 .. n - 1 /\ (y < n => y % n = y)
    BY <1>1, SMT
  <1> QED BY <1>1, <1>2, <1>3, <1>4

\* The quotient of integers is one, and that of natural numbers is rounded down.
LEMMA QuotientFacts ==
    ASSUME NEW x \in Int, NEW y \in Nat \ {0}
    PROVE  Quotient(x, y) \in Int /\ (x \in Nat => Quotient(x, y) = x \div y)
  <1>1. CASE x >= 0
    BY <1>1, Division DEF Quotient
  <1>2. CASE ~(x >= 0)
    <2>1. -x \in Nat /\ ~(x \in Nat)
      BY <1>2
    <2>2. (-x) \div y \in Nat
      BY <2>1, Division
    <2> QED BY <1>2, <2>1, <2>2 DEF Quotient
  <1> QED BY <1>1, <1>2

\* The micro price lies between the best prices if its sums fit.
LEMMA MicroBetween ==
    ASSUME NEW book, Coherent(book), TwoSided(BboOf(book))
    PROVE  LET bbo == BboOf(book)
           IN  /\ Micro(book, bbo) \in Int
               /\ Weighted(book, bbo) <= I64Max /\ Weight(book, bbo) <= I64Max =>
                     /\ Micro(book, bbo) >= Min({bbo[s] : s \in Sides})
                     /\ Micro(book, bbo) <= Max({bbo[s] : s \in Sides})
  <1> DEFINE bbo == BboOf(book)
             b == bbo["Bid"]  a == bbo["Ask"]
             bq == LotsAt(book, "Bid", b)  aq == LotsAt(book, "Ask", a)
  <1>1. Sides = {"Bid", "Ask"} /\ "Bid" \in Sides /\ "Ask" \in Sides
    BY DEF Sides
  <1>2. b \in Nat /\ a \in Nat /\ bq \in Nat \ {0} /\ aq \in Nat \ {0}
    <2>1. ASSUME NEW s \in Sides
          PROVE  bbo[s] \in Index /\ LotsAt(book, s, bbo[s]) \in Nat \ {0}
      <3>1. bbo[s] # None /\ IsBest(book, s, bbo[s])
        BY BboFacts DEF TwoSided
      <3>2. bbo[s] \in Occupied(book[s]) /\ book \in Book
        BY <3>1 DEF IsBest, Coherent
      <3> HIDE DEF bbo
      <3>3. book[s].lots \in [Index -> Nat]
        BY <3>2, SideFacts
      <3> QED BY <3>2, <3>3 DEF Occupied, LotsAt
    <2> QED BY <1>1, <2>1, IndexFacts
  <1>3. {bbo[s] : s \in Sides} = {b, a}
    BY <1>1
  <1>4. /\ Weighted(book, bbo) = b * aq + a * bq /\ Weight(book, bbo) = bq + aq
        /\ Micro(book, bbo) = IF AsI64(bq + aq) > 0
                              THEN Quotient(AsI64(b * aq + a * bq), AsI64(bq + aq))
                              ELSE (b + a) \div 2
    BY DEF Micro, Weighted, Weight
  <1> HIDE DEF bbo, b, a, bq, aq
  <1> DEFINE c == b * aq + a * bq  n == bq + aq
             lo == IF b <= a THEN b ELSE a  hi == IF b >= a THEN b ELSE a
  <1>5. Min({b, a}) = lo /\ Max({b, a}) = hi
    BY <1>2, MinOfTwo, MaxOfTwo
  <1>6. c \in Nat /\ n \in Nat \ {0} /\ lo \in Nat /\ hi \in Nat
    BY <1>2
  <1>7. n * lo <= c /\ c <= n * hi
    <2>1. ASSUME NEW x \in Nat, NEW y \in Nat, x <= y
          PROVE  x * aq <= y * aq /\ x * bq <= y * bq
      <3>1. PICK k \in Nat : y = x + k
        <4>1. y - x \in Nat /\ y = x + (y - x)
          BY <2>1
        <4> QED BY <4>1
      <3>2. y * aq = x * aq + k * aq /\ y * bq = x * bq + k * bq /\ k * aq >= 0 /\ k * bq >= 0
        BY <3>1, <1>2, SMT
      <3> QED BY <3>2, <1>2, SMT
    <2>2. n * lo = lo * aq + lo * bq /\ n * hi = hi * aq + hi * bq
      BY <1>2, <1>6, SMT
    <2>3. lo <= b /\ lo <= a /\ b <= hi /\ a <= hi
      BY <1>2
    <2>4. lo * aq <= b * aq /\ lo * bq <= a * bq /\ b * aq <= hi * aq /\ a * bq <= hi * bq
      BY <1>2, <1>6, <2>1, <2>3
    <2> HIDE DEF lo, hi, n
    <2> QED BY <1>2, <1>6, <2>2, <2>4, SMT
  <1> HIDE DEF c, n, lo, hi
  <1>8. lo <= c \div n /\ c \div n <= hi /\ c \div n \in Nat
    BY <1>6, <1>7, QuotientBetween, Division
  <1>9. /\ Micro(book, bbo) \in Int
        /\ c <= I64Max /\ n <= I64Max => Micro(book, bbo) = c \div n
    <2>1. /\ AsI64(c) \in Int /\ (c <= I64Max => AsI64(c) = c)
          /\ AsI64(n) \in Int /\ (n <= I64Max => AsI64(n) = n)
      BY <1>6, AsI64Facts
    <2>2. Micro(book, bbo) = IF AsI64(n) > 0 THEN Quotient(AsI64(c), AsI64(n)) ELSE (b + a) \div 2
      BY <1>4 DEF c, n
    <2>3. CASE AsI64(n) > 0
      <3>1. AsI64(n) \in Nat \ {0}
        BY <2>1, <2>3
      <3>2. Quotient(AsI64(c), AsI64(n)) \in Int
        BY <2>1, <3>1, QuotientFacts
      <3>3. Quotient(c, n) = c \div n
        BY <1>6, QuotientFacts
      <3> QED BY <2>1, <2>2, <2>3, <3>2, <3>3
    <2>4. CASE ~(AsI64(n) > 0)
      <3>1. (b + a) \div 2 \in Nat
        BY <1>2, Division
      <3>2. ~(n <= I64Max)
        BY <1>6, <2>1, <2>4
      <3> QED BY <2>2, <2>4, <3>1, <3>2
    <2> QED BY <2>3, <2>4
  <1>10. Weighted(book, bbo) = c /\ Weight(book, bbo) = n
    BY <1>4 DEF c, n
  <1>11. ASSUME c <= I64Max, n <= I64Max
         PROVE  /\ Micro(book, bbo) >= Min({bbo[s] : s \in Sides})
                /\ Micro(book, bbo) <= Max({bbo[s] : s \in Sides})
    <2> DEFINE least == Min({bbo[s] : s \in Sides})  most == Max({bbo[s] : s \in Sides})
    <2>1. least = lo /\ most = hi
      BY <1>3, <1>5, Zenon
    <2> HIDE DEF least, most
    <2>2. Micro(book, bbo) >= least /\ Micro(book, bbo) <= most
      BY <2>1, <1>6, <1>8, <1>9, <1>11
    <2> QED BY <2>2 DEF least, most
  <1> QED BY <1>9, <1>10, <1>11 DEF bbo

\* What one event may do to the state st of instrument i, giving r.
Step(i, st, r) ==
    /\ Sane(r.state)
    /\ r.tob # NoTob => Shows(i, r.state.book, r.tob) /\ r.state.prev = r.tob.bbo
    /\ r.tob = NoTob => r.state.prev = st.prev \/ ~TwoSided(r.state.prev)

\* check_bbo_price_change announces every change of a two-sided book.
LEMMA CheckStep ==
    ASSUME NEW i \in Insts, NEW st, Sane(st)
    PROVE  LET r == CheckBbo(i, st)
           IN  /\ Step(i, st, r)
               /\ r.state.prev = BboOf(r.state.book)
               /\ r.state.snapshot_received = st.snapshot_received
               /\ r.state.in_snapshot = st.in_snapshot
  <1> DEFINE book == RefreshBoth(st.book)
             bbo == [s \in Sides |-> book[s].best]
             new == [st EXCEPT !.book = book, !.prev = bbo]
             tob == IF SamePrices(bbo, st.prev) \/ ~TwoSided(bbo) THEN NoTob
                    ELSE [inst |-> i, bbo |-> bbo, micro |-> Micro(book, bbo)]
             r == CheckBbo(i, st)
  <1>1. st \in InstrumentState /\ Coherent(st.book) /\ st.prev \in Bbo
    BY DEF Sane, InstrumentState
  <1>2. /\ Coherent(book)
        /\ \A s \in Sides : book[s].lots = st.book[s].lots /\ book[s].best = Best(st.book, s)
    BY <1>1, RefreshBothFacts
  <1>3. bbo = BboOf(book)
    <2>1. \A s \in Sides : Best(book, s) = Best(st.book, s)
      BY <1>1, <1>2, BestByLots
    <2> HIDE DEF book
    <2> QED BY <1>2, <2>1 DEF BboOf
  <1>4. bbo \in Bbo /\ book \in Book
    BY <1>2, <1>3, BboFacts DEF Coherent
  <1>5. r.state = new /\ r.tob = tob
    BY DEF CheckBbo
  <1> HIDE DEF book, bbo
  <1>6. /\ new \in InstrumentState /\ new.book = book /\ new.prev = bbo
        /\ new.snapshot_received = st.snapshot_received /\ new.in_snapshot = st.in_snapshot
    BY <1>1, <1>4 DEF InstrumentState
  <1> HIDE DEF new
  <1>7. Sane(new)
    BY <1>2, <1>6 DEF Sane
  <1>8. CASE SamePrices(bbo, st.prev) \/ ~TwoSided(bbo)
    <2>1. r.tob = NoTob
      BY <1>5, <1>8
    <2>2. bbo = st.prev \/ ~TwoSided(bbo)
      BY <1>1, <1>4, <1>8 DEF SamePrices, Bbo
    <2> HIDE DEF r
    <2> QED BY <1>3, <1>5, <1>6, <1>7, <2>1, <2>2 DEF Step, r
  <1>9. CASE ~SamePrices(bbo, st.prev) /\ TwoSided(bbo)
    <2> DEFINE t == [inst |-> i, bbo |-> bbo, micro |-> Micro(book, bbo)]
    <2>1. r.tob = t
      BY <1>5, <1>9
    <2>2. /\ Micro(book, bbo) \in Int
          /\ Weighted(book, bbo) <= I64Max /\ Weight(book, bbo) <= I64Max =>
                /\ Micro(book, bbo) >= Min({bbo[s] : s \in Sides})
                /\ Micro(book, bbo) <= Max({bbo[s] : s \in Sides})
      BY <1>2, <1>3, <1>9, MicroBetween
    <2>3. t \in [inst: Insts, bbo: Bbo, micro: Int] /\ t.inst = i /\ t.bbo = bbo
          /\ t.micro = Micro(book, bbo)
      BY <1>4, <2>2
    <2> HIDE DEF t, r
    <2>4. Shows(i, book, t)
      BY <1>3, <1>9, <2>2, <2>3 DEF Shows
    <2>5. t # NoTob
      <3>1. i # 0 /\ NoTob.inst = 0
        BY ActiveCountAssumption DEF Insts, NoTob
      <3> QED BY <3>1, <2>3
    <2> QED BY <1>3, <1>5, <1>6, <1>7, <2>1, <2>3, <2>4, <2>5 DEF Step, r
  <1> QED BY <1>8, <1>9

\* The payload of an event is of the type its kind says.
LEMMA PayloadTypes ==
    ASSUME NEW e \in HotEvent
    PROVE  /\ EventKind(e) = "BookDelta" => e.body.payload \in BookDeltaPayload
           /\ EventKind(e) = "TopOfBook" => e.body.payload \in TopOfBookPayload
           /\ e.header.seq \in Nat /\ e.header.flags \in EventFlags
  <1>1. e.header \in EventHeader /\ e.body \in EventBody
    BY DEF HotEvent
  <1>2. e.body.kind = "BookDelta" => e.body.payload \in BookDeltaPayload
    BY <1>1 DEF EventBody, Variant
  <1>3. e.body.kind = "TopOfBook" => e.body.payload \in TopOfBookPayload
    BY <1>1 DEF EventBody, Variant
  <1> QED BY <1>1, <1>2, <1>3 DEF EventKind, EventHeader

\* What a BookDelta leaves: a sane state, the BBO told at the end of a batch, and
\* a TopOfBook only outside a snapshot.
LEMMA DeltaStep ==
    ASSUME NEW i \in Insts, NEW st, Sane(st), NEW e \in HotEvent, EventKind(e) = "BookDelta"
    PROVE  LET r == OnBookDelta(i, st, e)
           IN  /\ Step(i, st, r)
               /\ HasFlags(e.header.flags, LAST_IN_BATCH) =>
                      (r.state.snapshot_received => r.state.prev = BboOf(r.state.book))
               /\ r.tob # NoTob => r.state.snapshot_received /\ ~r.state.in_snapshot
  <1> DEFINE delta == e.body.payload
             first == [st EXCEPT !.seq = e.header.seq]
             begun == BeginSnapshot(first, e)
             applied == [begun EXCEPT !.book = ApplyDelta(@, delta.price, delta.qty, delta.side)]
             done == [applied EXCEPT !.in_snapshot = FALSE,
                                     !.snapshot_received = @ \/ applied.in_snapshot]
             r == OnBookDelta(i, st, e)
  <1>1. delta \in BookDeltaPayload /\ e.header.seq \in Nat
    BY PayloadTypes
  <1>2. st \in InstrumentState /\ Coherent(st.book)
    BY DEF Sane
  <1>3. first \in InstrumentState /\ first.book = st.book /\ first.prev = st.prev
    BY <1>1, <1>2 DEF InstrumentState
  <1> HIDE DEF first
  <1>4. begun \in InstrumentState /\ Coherent(begun.book) /\ begun.prev = st.prev
    <2>1. CASE HasFlags(e.header.flags, IS_SNAPSHOT)
      <3>1. begun = [first EXCEPT !.book = EmptyBook, !.in_snapshot = TRUE,
                                  !.snapshot_received = FALSE]
        BY <2>1 DEF BeginSnapshot
      <3>2. EmptyBook \in Book /\ Coherent(EmptyBook)
        BY EmptyFacts DEF Coherent
      <3>3. begun \in InstrumentState /\ begun.book = EmptyBook /\ begun.prev = first.prev
        BY <1>3, <3>1, <3>2 DEF InstrumentState
      <3> QED BY <1>3, <3>2, <3>3
    <2>2. CASE ~HasFlags(e.header.flags, IS_SNAPSHOT)
      BY <1>2, <1>3, <2>2 DEF BeginSnapshot
    <2> QED BY <2>1, <2>2
  <1> HIDE DEF begun
  <1>5. Sane(applied) /\ applied.prev = st.prev
    <2> DEFINE b == ApplyDelta(begun.book, delta.price, delta.qty, delta.side)
    <2>1. delta.price \in Int /\ delta.qty \in Nat /\ delta.side \in Sides
      BY <1>1 DEF BookDeltaPayload
    <2>2. Coherent(b) /\ b \in Book
      BY <1>4, <2>1, DeltaFacts DEF Coherent
    <2> HIDE DEF b
    <2>3. applied = [begun EXCEPT !.book = b]
      BY DEF b
    <2>4. applied \in InstrumentState /\ applied.book = b /\ applied.prev = begun.prev
      BY <1>4, <2>2, <2>3 DEF InstrumentState
    <2> QED BY <1>4, <2>2, <2>4 DEF Sane
  <1>6. r = EndBatch(i, applied, e)
    BY DEF OnBookDelta, begun, first
  <1> HIDE DEF applied, r
  <1>7. Sane(done) /\ done.prev = st.prev /\ done.in_snapshot = FALSE
        /\ done.snapshot_received \in BOOLEAN
    <2>1. applied \in InstrumentState /\ applied.snapshot_received \in BOOLEAN
          /\ applied.in_snapshot \in BOOLEAN
      BY <1>5 DEF Sane, InstrumentState
    <2>2. (applied.snapshot_received \/ applied.in_snapshot) \in BOOLEAN
      OBVIOUS
    <2> DEFINE ready == applied.snapshot_received \/ applied.in_snapshot
    <2>3. done = [applied EXCEPT !.in_snapshot = FALSE, !.snapshot_received = ready]
          /\ ready \in BOOLEAN
      OBVIOUS
    <2> HIDE DEF ready, done
    <2>4. done \in InstrumentState /\ done.book = applied.book /\ done.prev = applied.prev
          /\ done.in_snapshot = FALSE /\ done.snapshot_received = ready
      BY <2>1, <2>3 DEF InstrumentState
    <2> QED BY <1>5, <2>3, <2>4 DEF Sane
  <1>8. r = IF ~HasFlags(e.header.flags, LAST_IN_BATCH) THEN [state |-> applied, tob |-> NoTob]
            ELSE IF done.snapshot_received THEN CheckBbo(i, done)
            ELSE [state |-> done, tob |-> NoTob]
    BY <1>6 DEF EndBatch
  <1> HIDE DEF done
  <1>9. CASE ~HasFlags(e.header.flags, LAST_IN_BATCH)
    <2>1. r.state = applied /\ r.tob = NoTob
      BY <1>8, <1>9
    <2> QED BY <1>5, <1>9, <2>1 DEF Step, r
  <1>10. CASE HasFlags(e.header.flags, LAST_IN_BATCH) /\ done.snapshot_received
    <2> DEFINE c == CheckBbo(i, done)
    <2>1. r = c
      BY <1>8, <1>10
    <2>2. /\ Step(i, done, c) /\ c.state.prev = BboOf(c.state.book)
          /\ c.state.snapshot_received = done.snapshot_received
          /\ c.state.in_snapshot = done.in_snapshot
      BY <1>7, CheckStep
    <2> HIDE DEF c
    <2> QED BY <1>7, <1>10, <2>1, <2>2 DEF Step, r
  <1>11. CASE HasFlags(e.header.flags, LAST_IN_BATCH) /\ ~done.snapshot_received
    <2>1. r.state = done /\ r.tob = NoTob
      BY <1>8, <1>11
    <2> QED BY <1>7, <1>11, <2>1 DEF Step, r
  <1> QED BY <1>9, <1>10, <1>11

\* What a TopOfBook event leaves: a sane state whose BBO was told.
LEMMA TopOfBookStep ==
    ASSUME NEW i \in Insts, NEW st, Sane(st), NEW e \in HotEvent, EventKind(e) = "TopOfBook"
    PROVE  LET r == OnTopOfBook(i, st, e)
           IN  /\ Step(i, st, r)
               /\ r.state.prev = BboOf(r.state.book)
               /\ r.state.snapshot_received /\ r.state.in_snapshot = st.in_snapshot
  <1> DEFINE tob == e.body.payload
             half == ApplyDelta(EmptyBook, tob.price["Bid"], tob.qty["Bid"], "Bid")
             book == ApplyDelta(half, tob.price["Ask"], tob.qty["Ask"], "Ask")
             new == [st EXCEPT !.snapshot_received = TRUE, !.book = book]
             r == OnTopOfBook(i, st, e)
  <1>1. tob \in TopOfBookPayload
    BY PayloadTypes
  <1>2. /\ "Bid" \in Sides /\ "Ask" \in Sides
        /\ tob.price["Bid"] \in Int /\ tob.price["Ask"] \in Int
        /\ tob.qty["Bid"] \in Nat /\ tob.qty["Ask"] \in Nat
    BY <1>1 DEF TopOfBookPayload, Sides
  <1>3. Coherent(half)
    BY <1>2, EmptyFacts, DeltaFacts
  <1>4. Coherent(book) /\ book \in Book
    <2> HIDE DEF half
    <2> QED BY <1>2, <1>3, DeltaFacts DEF Coherent
  <1>5. r = CheckBbo(i, new)
    BY DEF OnTopOfBook
  <1> HIDE DEF book
  <1>6. Sane(new) /\ new.prev = st.prev /\ new.snapshot_received = TRUE
        /\ new.in_snapshot = st.in_snapshot
    <2>1. st \in InstrumentState
      BY DEF Sane
    <2>2. new \in InstrumentState /\ new.book = book /\ new.prev = st.prev
          /\ new.snapshot_received = TRUE /\ new.in_snapshot = st.in_snapshot
      BY <1>4, <2>1 DEF InstrumentState
    <2> QED BY <1>4, <2>2 DEF Sane
  <1> HIDE DEF new, r
  <1> DEFINE c == CheckBbo(i, new)
  <1>7. /\ Step(i, new, c) /\ c.state.prev = BboOf(c.state.book)
        /\ c.state.snapshot_received = new.snapshot_received
        /\ c.state.in_snapshot = new.in_snapshot
    BY <1>6, CheckStep
  <1> HIDE DEF c
  <1> QED BY <1>5, <1>6, <1>7 DEF Step, r, c

\* What processing any event does to its instrument.
LEMMA HandledStep ==
    ASSUME NEW i \in Insts, NEW st, Sane(st), NEW e \in HotEvent
    PROVE  LET r == Handled(i, st, e)
           IN  /\ Step(i, st, r)
               /\ Checked(e) => (r.state.snapshot_received => r.state.prev = BboOf(r.state.book))
               /\ EventKind(e) \notin {"BookDelta", "TopOfBook"} => r.state = st
               /\ r.tob # NoTob => /\ r.state.snapshot_received
                                   /\ ~r.state.in_snapshot \/ EventKind(e) = "TopOfBook"
               /\ r.state.in_snapshot => st.in_snapshot \/ EventKind(e) = "BookDelta"
  <1> DEFINE r == Handled(i, st, e)
  <1>1. CASE EventKind(e) = "BookDelta"
    <2> DEFINE d == OnBookDelta(i, st, e)
    <2>1. r = d
      BY <1>1 DEF Handled
    <2>2. /\ Step(i, st, d)
          /\ HasFlags(e.header.flags, LAST_IN_BATCH) =>
                 (d.state.snapshot_received => d.state.prev = BboOf(d.state.book))
          /\ d.tob # NoTob => d.state.snapshot_received /\ ~d.state.in_snapshot
      BY <1>1, DeltaStep
    <2> HIDE DEF r, d
    <2> QED BY <1>1, <2>1, <2>2 DEF Checked, r
  <1>2. CASE EventKind(e) = "TopOfBook"
    <2> DEFINE d == OnTopOfBook(i, st, e)
    <2>1. r = d
      BY <1>2 DEF Handled
    <2>2. /\ Step(i, st, d) /\ d.state.prev = BboOf(d.state.book)
          /\ d.state.snapshot_received /\ d.state.in_snapshot = st.in_snapshot
      BY <1>2, TopOfBookStep
    <2> HIDE DEF r, d
    <2> QED BY <1>2, <2>1, <2>2 DEF r
  <1>3. CASE EventKind(e) \notin {"BookDelta", "TopOfBook"}
    <2>1. r = [state |-> st, tob |-> NoTob]
      BY <1>3 DEF Handled, OnTrade
    <2>2. r.state = st /\ r.tob = NoTob
      BY <2>1
    <2> HIDE DEF r
    <2> QED BY <1>3, <2>2 DEF Checked, Step, r
  <1> QED BY <1>1, <1>2, <1>3

-----------------------------------------------------------------------------
(* The engine and its client *)

\* The prices of the last check are the book's while it is settled.
Current ==
    \A i \in Insts : instruments[i].snapshot_received /\ settled[i] =>
        instruments[i].prev = BboOf(instruments[i].book)

\* A two-sided check is pending in the slot or known to the client.
Told ==
    \A i \in Insts : TwoSided(instruments[i].prev) =>
        IF tob_changed /\ last_tob.inst = i
        THEN last_tob.bbo = instruments[i].prev
        ELSE seen[i] = instruments[i].prev

\* The slot is emptied before the next event.
Pending ==
    tob_changed =>
        /\ turn = "take" /\ last_tob.inst \in Insts
        /\ Shows(last_tob.inst, instruments[last_tob.inst].book, last_tob)

Engine ==
    /\ TypeOK
    /\ \A i \in Insts : Coherent(instruments[i].book)
    /\ Current /\ Told /\ Pending

\* process, whatever the event, preserves the invariant.
LEMMA ProcessStep ==
    ASSUME Engine, NEW e \in Inputs, Process(e)
    PROVE  Engine'
  <1>1. turn = "process" /\ turn' = "take" /\ seen' = seen /\ tob_changed = FALSE
    <2>1. turn = "process" /\ turn' = "take" /\ seen' = seen
      BY DEF Process
    <2> QED BY <2>1 DEF Engine, Pending, TypeOK
  <1>2. CASE ~Known(e)
    <2>1. UNCHANGED engineVars /\ settled' = settled
      BY <1>2 DEF Process, ProcessEvent
    <2> QED BY <1>1, <2>1 DEF engineVars, Engine, TypeOK, Current, Told, Pending
  <1>3. CASE Known(e)
    <2> DEFINE i == e.header.inst  st == instruments[i]  r == Handled(i, st, e)
    <2>1. i \in Insts /\ e \in HotEvent
      BY <1>3, InputsAssumption DEF Known
    <2>2. Sane(st)
      BY <2>1 DEF Engine, TypeOK, Sane
    <2>3. /\ instruments' = [instruments EXCEPT ![i] = r.state]
          /\ last_tob' = IF r.tob = NoTob THEN last_tob ELSE r.tob
          /\ tob_changed' = (tob_changed \/ r.tob # NoTob)
      BY <1>3 DEF Process, ProcessEvent
    <2>4. settled' = IF EventKind(e) \in {"BookDelta", "TopOfBook"}
                     THEN [settled EXCEPT ![i] = Checked(e)] ELSE settled
      BY <1>3 DEF Process
    <2>5. /\ Step(i, st, r)
          /\ Checked(e) => (r.state.snapshot_received => r.state.prev = BboOf(r.state.book))
          /\ EventKind(e) \notin {"BookDelta", "TopOfBook"} => r.state = st
      BY <2>1, <2>2, HandledStep
    <2> HIDE DEF r
    <2>6. Sane(r.state)
      BY <2>5 DEF Step
    <2>7. instruments \in [Insts -> InstrumentState] /\ settled \in [Insts -> BOOLEAN]
          /\ Checked(e) \in BOOLEAN
      BY DEF Engine, TypeOK, Checked
    <2>8. /\ instruments'[i] = r.state /\ \A j \in Insts \ {i} : instruments'[j] = instruments[j]
          /\ instruments' \in [Insts -> InstrumentState]
      BY <2>1, <2>3, <2>6, <2>7 DEF Sane
    <2>9. tob_changed' <=> r.tob # NoTob
      BY <1>1, <2>3
    <2>10. TypeOK'
      <3>1. last_tob' \in [inst: {0} \cup Insts, bbo: Bbo, micro: Int]
        <4>1. CASE r.tob = NoTob
          BY <2>3, <4>1 DEF Engine, TypeOK
        <4>2. CASE r.tob # NoTob
          <5>1. r.tob \in [inst: Insts, bbo: Bbo, micro: Int]
            BY <4>2, <2>5 DEF Step, Shows
          <5> QED BY <5>1, <4>2, <2>3
        <4> QED BY <4>1, <4>2
      <3>2. settled' \in [Insts -> BOOLEAN]
        BY <2>4, <2>7
      <3>3. tob_changed' \in BOOLEAN
        BY <2>3
      <3> QED BY <1>1, <2>8, <3>1, <3>2, <3>3 DEF Engine, TypeOK
    <2>11. \A j \in Insts : Coherent(instruments'[j].book)
      BY <2>6, <2>8 DEF Engine, Sane
    <2>12. Current'
      <3> SUFFICES ASSUME NEW j \in Insts, instruments'[j].snapshot_received, settled'[j]
                   PROVE  instruments'[j].prev = BboOf(instruments'[j].book)
        BY DEF Current
      <3>1. CASE j # i
        <4>1. instruments'[j] = instruments[j] /\ settled'[j] = settled[j]
          BY <3>1, <2>4, <2>7, <2>8
        <4> QED BY <4>1 DEF Engine, Current
      <3>2. CASE j = i /\ EventKind(e) \in {"BookDelta", "TopOfBook"}
        <4>1. Checked(e)
          BY <3>2, <2>1, <2>4, <2>7
        <4> QED BY <4>1, <3>2, <2>5, <2>8
      <3>3. CASE j = i /\ EventKind(e) \notin {"BookDelta", "TopOfBook"}
        <4>1. instruments'[j] = instruments[j] /\ settled'[j] = settled[j]
          BY <3>3, <2>4, <2>5, <2>8
        <4> QED BY <4>1 DEF Engine, Current
      <3> QED BY <3>1, <3>2, <3>3
    <2>13. Told'
      <3> SUFFICES ASSUME NEW j \in Insts, TwoSided(instruments'[j].prev)
                   PROVE  IF tob_changed' /\ last_tob'.inst = j
                          THEN last_tob'.bbo = instruments'[j].prev
                          ELSE seen'[j] = instruments'[j].prev
        BY DEF Told
      <3>1. CASE r.tob = NoTob
        <4>1. ~tob_changed'
          BY <3>1, <2>9
        <4>2. instruments'[j].prev = instruments[j].prev
          <5>1. CASE j = i
            BY <5>1, <3>1, <2>5, <2>8 DEF Step
          <5>2. CASE j # i
            BY <5>2, <2>8
          <5> QED BY <5>1, <5>2
        <4> QED BY <4>1, <4>2, <1>1 DEF Engine, Told
      <3>2. CASE r.tob # NoTob
        <4>1. tob_changed' /\ last_tob' = r.tob /\ r.tob.inst = i /\ r.state.prev = r.tob.bbo
          BY <3>2, <2>3, <2>5, <2>9 DEF Step, Shows
        <4>2. CASE j = i
          BY <4>1, <4>2, <2>8
        <4>3. CASE j # i
          <5>1. instruments'[j] = instruments[j] /\ last_tob'.inst # j
            BY <4>1, <4>3, <2>8
          <5> QED BY <5>1, <1>1 DEF Engine, Told
        <4> QED BY <4>2, <4>3
      <3> QED BY <3>1, <3>2
    <2>14. Pending'
      <3> SUFFICES ASSUME tob_changed'
                   PROVE  /\ turn' = "take" /\ last_tob'.inst \in Insts
                          /\ Shows(last_tob'.inst, instruments'[last_tob'.inst].book, last_tob')
        BY DEF Pending
      <3>1. last_tob' = r.tob /\ r.tob.inst = i /\ Shows(i, r.state.book, r.tob)
        BY <2>3, <2>5, <2>9 DEF Step, Shows
      <3> QED BY <1>1, <2>1, <2>8, <3>1
    <2> QED BY <2>10, <2>11, <2>12, <2>13, <2>14 DEF Engine
  <1> QED BY <1>2, <1>3

\* The client taking its TopOfBook preserves the invariant.
LEMMA TakeStep ==
    ASSUME Engine, TakeTob
    PROVE  Engine'
  <1>1. /\ instruments' = instruments /\ settled' = settled /\ last_tob' = last_tob
        /\ tob_changed' = FALSE /\ turn' = "process"
        /\ seen' = IF tob_changed THEN [seen EXCEPT ![last_tob.inst] = last_tob.bbo] ELSE seen
    BY DEF TakeTob, TakePending
  <1>2. tob_changed => last_tob.inst \in Insts /\ last_tob.bbo \in Bbo
    BY DEF Engine, Pending, Shows
  <1>3. seen' \in [Insts -> Bbo]
    BY <1>1, <1>2 DEF Engine, TypeOK
  <1>4. TypeOK'
    BY <1>1, <1>3 DEF Engine, TypeOK
  <1>5. Told'
    <2> SUFFICES ASSUME NEW i \in Insts, TwoSided(instruments[i].prev)
                 PROVE  seen'[i] = instruments[i].prev
      BY <1>1 DEF Told
    <2>1. seen \in [Insts -> Bbo]
      BY DEF Engine, TypeOK
    <2> QED BY <1>1, <1>2, <2>1 DEF Engine, Told
  <1>6. (\A i \in Insts : Coherent(instruments'[i].book)) /\ Current' /\ Pending'
    BY <1>1 DEF Engine, Current, Pending
  <1> QED BY <1>4, <1>5, <1>6 DEF Engine

\* A query or a cleared side: only the book of one instrument changes, and
\* its levels only if the instrument is no longer settled.
LEMMA BookStep ==
    ASSUME Engine, turn = "process", NEW i \in Insts, NEW book, Coherent(book),
           instruments' = [instruments EXCEPT ![i].book = book],
           UNCHANGED <<tob_changed, last_tob, turn, seen>>,
           \/ /\ settled' = settled
              /\ \A s \in Sides : book[s].lots = instruments[i].book[s].lots
           \/ settled' = [settled EXCEPT ![i] = FALSE]
    PROVE  Engine'
  <1> DEFINE new == [instruments[i] EXCEPT !.book = book]
  <1>1. /\ instruments \in [Insts -> InstrumentState] /\ instruments[i] \in InstrumentState
        /\ settled \in [Insts -> BOOLEAN] /\ tob_changed = FALSE
    BY DEF Engine, TypeOK, Pending
  <1>2. /\ new \in InstrumentState /\ new.book = book /\ new.prev = instruments[i].prev
        /\ new.snapshot_received = instruments[i].snapshot_received
    BY <1>1 DEF InstrumentState, Coherent
  <1> HIDE DEF new
  <1>3. /\ instruments'[i] = new /\ \A j \in Insts \ {i} : instruments'[j] = instruments[j]
        /\ instruments' \in [Insts -> InstrumentState]
    <2>1. instruments' = [instruments EXCEPT ![i] = new]
      BY DEF new
    <2> QED BY <1>1, <1>2, <2>1
  <1>4. TypeOK'
    <2>1. settled' \in [Insts -> BOOLEAN]
      BY <1>1
    <2> QED BY <1>3, <2>1 DEF Engine, TypeOK
  <1>5. \A j \in Insts : Coherent(instruments'[j].book)
    BY <1>2, <1>3 DEF Engine
  <1>6. Current'
    <2> SUFFICES ASSUME NEW j \in Insts, instruments'[j].snapshot_received, settled'[j]
                 PROVE  instruments'[j].prev = BboOf(instruments'[j].book)
      BY DEF Current
    <2>1. settled[j] /\ (j = i => settled' = settled)
      BY <1>1
    <2>2. CASE j = i
      <3>1. \A s \in Sides : book[s].lots = instruments[i].book[s].lots
        BY <2>1, <2>2, <1>1
      <3>2. \A s \in Sides : Best(book, s) = Best(instruments[i].book, s)
        BY <3>1, BestByLots DEF Engine
      <3>3. BboOf(book) = BboOf(instruments[i].book)
        BY <3>2 DEF BboOf
      <3>4. instruments[i].prev = BboOf(instruments[i].book)
        BY <2>1, <2>2, <1>2, <1>3 DEF Engine, Current
      <3> QED BY <2>2, <3>3, <3>4, <1>2, <1>3
    <2>3. CASE j # i
      BY <2>1, <2>3, <1>3 DEF Engine, Current
    <2> QED BY <2>2, <2>3
  <1>7. Told'
    <2>1. \A j \in Insts : instruments'[j].prev = instruments[j].prev
      BY <1>2, <1>3
    <2> QED BY <2>1 DEF Engine, Told
  <1>8. Pending'
    BY <1>1 DEF Pending
  <1> QED BY <1>4, <1>5, <1>6, <1>7, <1>8 DEF Engine

\* Every step of the engine preserves the invariant.
LEMMA EngineStep == Engine /\ [Next]_msVars => Engine'
  <1> SUFFICES ASSUME Engine, [Next]_msVars PROVE Engine'
    OBVIOUS
  <1>1. CASE UNCHANGED msVars
    BY <1>1 DEF msVars, engineVars, clientVars, Engine, TypeOK, Current, Told, Pending
  <1>2. ASSUME NEW e \in Inputs, Process(e) PROVE Engine'
    BY <1>2, ProcessStep
  <1>3. CASE TakeTob
    BY <1>3, TakeStep
  <1>4. ASSUME NEW i \in Insts, Query(i) PROVE Engine'
    <2> DEFINE old == instruments[i].book  bid == Refresh(old, "Bid")  ask == Refresh(bid, "Ask")
               book == IF bid["Bid"].best = None THEN bid ELSE ask
    <2>1. "Bid" \in Sides /\ "Ask" \in Sides /\ Coherent(old)
      BY DEF Sides, Engine
    <2>2. Coherent(bid) /\ \A s \in Sides : bid[s].lots = old[s].lots
      BY <2>1, RefreshFacts
    <2> HIDE DEF bid
    <2>3. Coherent(ask) /\ \A s \in Sides : ask[s].lots = bid[s].lots
      BY <2>1, <2>2, RefreshFacts
    <2> HIDE DEF ask
    <2>4. Coherent(book) /\ \A s \in Sides : book[s].lots = old[s].lots
      BY <2>2, <2>3
    <2>5. /\ turn = "process" /\ instruments' = [instruments EXCEPT ![i].book = book]
          /\ UNCHANGED <<tob_changed, last_tob, turn, seen>> /\ settled' = settled
      BY <1>4 DEF Query, clientVars, bid, ask
    <2> HIDE DEF book
    <2> QED BY <2>4, <2>5, BookStep
  <1>5. ASSUME NEW i \in Borrowed, NEW s \in Sides, ClearBookSide(i, s) PROVE Engine'
    <2> DEFINE book == ClearSide(instruments[i].book, s)
    <2>1. i \in Insts
      BY BorrowedAssumption
    <2>2. Coherent(book)
      BY <2>1, EmptyFacts, DirtySide DEF Engine, ClearSide
    <2>3. /\ turn = "process" /\ instruments' = [instruments EXCEPT ![i].book = book]
          /\ UNCHANGED <<tob_changed, last_tob, turn, seen>>
          /\ settled' = [settled EXCEPT ![i] = FALSE]
      BY <1>5 DEF ClearBookSide
    <2> HIDE DEF book
    <2> QED BY <2>1, <2>2, <2>3, BookStep
  <1> QED BY <1>1, <1>2, <1>3, <1>4, <1>5 DEF Next

\* A new engine satisfies the invariant.
LEMMA FirstEngine == Init => Engine
  <1> SUFFICES ASSUME Init PROVE Engine
    OBVIOUS
  <1>1. /\ instruments = [i \in Insts |-> EmptyInstrument] /\ tob_changed = FALSE
        /\ last_tob = NoTob /\ turn = "process" /\ seen = [i \in Insts |-> NoBbo]
        /\ settled = [i \in Insts |-> FALSE]
    BY DEF Init, EngineInit
  <1>2. NoBbo \in Bbo /\ ~TwoSided(NoBbo)
    BY DEF NoBbo, Bbo, TwoSided, Sides
  <1>3. EmptyInstrument \in InstrumentState /\ Coherent(EmptyInstrument.book)
        /\ EmptyInstrument.prev = NoBbo
    BY <1>2, EmptyFacts DEF EmptyInstrument, InstrumentState, Coherent
  <1>4. NoTob \in [inst: {0} \cup Insts, bbo: Bbo, micro: Int]
    BY <1>2, IndexFacts DEF NoTob
  <1> QED BY <1>1, <1>2, <1>3, <1>4 DEF Engine, TypeOK, Current, Told, Pending

\* What the invariant says of the caches, the client and the slot.
LEMMA EngineSound == Engine => CacheCoherent /\ SeenCurrent /\ TobFaithful
  <1> SUFFICES ASSUME Engine PROVE CacheCoherent /\ SeenCurrent /\ TobFaithful
    OBVIOUS
  <1>1. CacheCoherent
    <2> SUFFICES ASSUME NEW i \in Insts, NEW s \in Sides
                 PROVE  LET book == instruments[i].book
                            best == Best(book, s)
                        IN  /\ ~book[s].dirty => IsBest(book, s, book[s].best)
                            /\ best = None <=> LevelCount(book, s) = 0
                            /\ best # None => /\ best = Head(Depth(book, s, N))
                                              /\ LotsAt(book, s, best) = TotalDepth(book, s, 1)
      BY DEF CacheCoherent
    <2> DEFINE book == instruments[i].book  best == Best(book, s)
    <2>1. Coherent(book)
      BY DEF Engine
    <2> HIDE DEF book
    <2>2. /\ best = None <=> LevelCount(book, s) = 0
          /\ best # None => /\ best = Head(Depth(book, s, N))
                            /\ LotsAt(book, s, best) = TotalDepth(book, s, 1)
      BY <2>1, DepthFacts
    <2> QED BY <2>1, <2>2 DEF Coherent, book
  <1>2. SeenCurrent
    <2> SUFFICES ASSUME turn = "process", NEW i \in Insts,
                        instruments[i].snapshot_received, settled[i],
                        TwoSided(BboOf(instruments[i].book))
                 PROVE  seen[i] = BboOf(instruments[i].book)
      BY DEF SeenCurrent, BboOf
    <2>1. instruments[i].prev = BboOf(instruments[i].book)
      BY DEF Engine, Current
    <2>2. ~tob_changed
      BY DEF Engine, Pending
    <2> QED BY <2>1, <2>2 DEF Engine, Told
  <1>3. TobFaithful
    <2> SUFFICES ASSUME tob_changed PROVE TobFaithful
      BY DEF TobFaithful
    <2> DEFINE book == instruments[last_tob.inst].book
    <2>1. last_tob.inst \in Insts /\ Shows(last_tob.inst, book, last_tob)
      BY DEF Engine, Pending
    <2>2. \A s \in Sides : IsBest(book, s, last_tob.bbo[s])
      BY <2>1, BboFacts DEF Engine, Shows
    <2> QED BY <2>1, <2>2 DEF TobFaithful, Shows
  <1> QED BY <1>1, <1>2, <1>3

\* The invariant holds always.
LEMMA EngineAlways == Spec => []Engine
  BY FirstEngine, EngineStep, PTL DEF Spec

\* The four results below hold for every number of levels and instruments and
\* every set of events.

\* Spec => []TypeOK: books, instrument states and the pending TopOfBook keep
\* their types.
THEOREM EngineTypes == Spec => []TypeOK
  <1>1. Engine => TypeOK
    BY DEF Engine
  <1> QED BY <1>1, EngineAlways, PTL

\* Spec => []CacheCoherent: the best-level caches of ArrayBook are coherent and
\* agree with the queries that read the levels.
THEOREM CachesCoherent == Spec => []CacheCoherent
  BY EngineSound, EngineAlways, PTL

\* Spec => []SeenCurrent: a client that takes after every event knows the best
\* prices of each settled two-sided book.
THEOREM ClientIsCurrent == Spec => []SeenCurrent
  BY EngineSound, EngineAlways, PTL

\* Spec => []TobFaithful: a pending TopOfBook shows the book's best levels and
\* a micro price between them, if its sums fit an i64.
THEOREM TobIsFaithful == Spec => []TobFaithful
  BY EngineSound, EngineAlways, PTL

\* An instrument is fed by deltas or by TopOfBook events, not by both.
OneFeedEach ==
    \A d, t \in Inputs :
        EventKind(d) = "BookDelta" /\ EventKind(t) = "TopOfBook" => d.header.inst # t.header.inst

\* Only an instrument that is fed by deltas is ever in a snapshot.
Snapshots ==
    \A i \in Insts : instruments[i].in_snapshot =>
        \E d \in Inputs : EventKind(d) = "BookDelta" /\ d.header.inst = i

\* With one feed for each instrument, no step emits a TopOfBook inside a snapshot.
LEMMA SnapshotsStep ==
    ASSUME OneFeedEach, Engine, Snapshots, [Next]_msVars
    PROVE  /\ Snapshots'
           /\ tob_changed' /\ ~tob_changed =>
                 /\ instruments'[last_tob'.inst].snapshot_received
                 /\ ~instruments'[last_tob'.inst].in_snapshot
  <1>1. instruments \in [Insts -> InstrumentState]
    BY DEF Engine, TypeOK
  <1>2. ASSUME \A j \in Insts : instruments'[j].in_snapshot = instruments[j].in_snapshot
        PROVE  Snapshots'
    BY <1>2 DEF Snapshots
  <1>3. ASSUME NEW i \in Insts, NEW book, instruments' = [instruments EXCEPT ![i].book = book]
        PROVE  \A j \in Insts : instruments'[j].in_snapshot = instruments[j].in_snapshot
    BY <1>1, <1>3 DEF InstrumentState
  <1>4. CASE UNCHANGED msVars
    BY <1>2, <1>4 DEF msVars, engineVars
  <1>5. CASE TakeTob
    BY <1>2, <1>5 DEF TakeTob, TakePending
  <1>6. ASSUME NEW i \in Insts, Query(i)
        PROVE  Snapshots' /\ UNCHANGED tob_changed
    BY <1>2, <1>3, <1>6 DEF Query
  <1>7. ASSUME NEW i \in Borrowed, NEW s \in Sides, ClearBookSide(i, s)
        PROVE  Snapshots' /\ UNCHANGED tob_changed
    BY <1>2, <1>3, <1>7, BorrowedAssumption DEF ClearBookSide
  <1>8. ASSUME NEW e \in Inputs, Process(e)
        PROVE  /\ Snapshots'
               /\ tob_changed' /\ ~tob_changed =>
                     /\ instruments'[last_tob'.inst].snapshot_received
                     /\ ~instruments'[last_tob'.inst].in_snapshot
    <2>1. CASE ~Known(e)
      BY <1>2, <1>8, <2>1 DEF Process, ProcessEvent, engineVars
    <2>2. CASE Known(e)
      <3> DEFINE i == e.header.inst  st == instruments[i]  r == Handled(i, st, e)
      <3>1. i \in Insts /\ e \in HotEvent
        BY <2>2, InputsAssumption DEF Known
      <3>2. Sane(st)
        BY <3>1 DEF Engine, TypeOK, Sane
      <3>3. /\ instruments' = [instruments EXCEPT ![i] = r.state]
            /\ last_tob' = IF r.tob = NoTob THEN last_tob ELSE r.tob
            /\ tob_changed' = (tob_changed \/ r.tob # NoTob)
        BY <1>8, <2>2 DEF Process, ProcessEvent
      <3>4. /\ Step(i, st, r)
            /\ r.tob # NoTob => /\ r.state.snapshot_received
                                /\ ~r.state.in_snapshot \/ EventKind(e) = "TopOfBook"
            /\ r.state.in_snapshot => st.in_snapshot \/ EventKind(e) = "BookDelta"
        BY <3>1, <3>2, HandledStep
      <3> HIDE DEF r
      <3>5. instruments'[i] = r.state /\ \A j \in Insts \ {i} : instruments'[j] = instruments[j]
        BY <1>1, <3>1, <3>3
      <3>6. Snapshots'
        <4> SUFFICES ASSUME NEW j \in Insts, instruments'[j].in_snapshot
                     PROVE  \E d \in Inputs : EventKind(d) = "BookDelta" /\ d.header.inst = j
          BY DEF Snapshots
        <4>1. CASE j = i
          BY <4>1, <3>4, <3>5 DEF Snapshots
        <4>2. CASE j # i
          BY <4>2, <3>5 DEF Snapshots
        <4> QED BY <4>1, <4>2
      <3>7. ASSUME tob_changed', ~tob_changed
            PROVE  /\ instruments'[last_tob'.inst].snapshot_received
                   /\ ~instruments'[last_tob'.inst].in_snapshot
        <4>1. r.tob # NoTob /\ last_tob' = r.tob /\ r.tob.inst = i
          BY <3>3, <3>4, <3>7 DEF Step, Shows
        <4>2. ~r.state.in_snapshot
          <5>1. CASE EventKind(e) = "TopOfBook"
            <6>1. ~\E d \in Inputs : EventKind(d) = "BookDelta" /\ d.header.inst = i
              BY <5>1 DEF OneFeedEach
            <6> QED BY <3>1, <3>5, <3>6, <6>1 DEF Snapshots
          <5>2. CASE EventKind(e) # "TopOfBook"
            BY <5>2, <4>1, <3>4
          <5> QED BY <5>1, <5>2
        <4> QED BY <4>1, <4>2, <3>4, <3>5
      <3> QED BY <3>6, <3>7
    <2> QED BY <2>1, <2>2
  <1> QED BY <1>4, <1>5, <1>6, <1>7, <1>8 DEF Next, msVars, engineVars, TakeTob, TakePending

\* A TopOfBook is emitted only from an instrument that has a complete snapshot
\* and is not replaying one, for every number of levels and instruments, if no
\* instrument is fed by deltas and by TopOfBook events at once: a TopOfBook
\* marks the snapshot as received but leaves in_snapshot as it was.
THEOREM SnapshotsAreSilent == OneFeedEach => (Spec => SnapshotSilent)
  <1> SUFFICES ASSUME OneFeedEach PROVE Spec => SnapshotSilent
    OBVIOUS
  <1>1. Init => Engine /\ Snapshots
    BY FirstEngine DEF Init, EngineInit, Snapshots, EmptyInstrument
  <1>2. Engine /\ Snapshots /\ [Next]_msVars => (Engine /\ Snapshots)'
    BY EngineStep, SnapshotsStep
  <1>3. Engine /\ Snapshots /\ [Next]_msVars =>
            [tob_changed' /\ ~tob_changed =>
                LET st == instruments'[last_tob'.inst]
                IN  st.snapshot_received /\ ~st.in_snapshot]_msVars
    BY SnapshotsStep
  <1> QED BY <1>1, <1>2, <1>3, PTL DEF Spec, SnapshotSilent

=============================================================================
