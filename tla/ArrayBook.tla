----------------------------- MODULE ArrayBook -----------------------------
(***************************************************************************)
(* crates/market-state/src/book/array_book.rs: a book of N price levels    *)
(* per side, indexed by tick, with a lazily refreshed cache of the best    *)
(* index of each side.  Every operation is an operator from books to       *)
(* books; a query that refreshes the cache is split into the book it       *)
(* leaves behind (Refresh) and the answer it gives (Best).                 *)
(*                                                                         *)
(* A side of the book is [lots, best, dirty], the fields bids (asks),      *)
(* best_bid_idx (best_ask_idx) and bid_dirty (ask_dirty) of the source.    *)
(***************************************************************************)
EXTENDS Events, SequencesExt

CONSTANTS N,       \* price levels per side (ArrayBook<N>)
          MaxLots  \* bound: the quantities that messages announce are 0..MaxLots

ASSUME NAssumption == N \in Nat \ {0}
ASSUME MaxLotsAssumption == MaxLots \in Nat \ {0}

Index == 0 .. N - 1
Lots == 0 .. MaxLots
None == -1                      \* Option::None, for prices and indices

BookSide == [lots: [Index -> Nat], best: Index \cup {None}, dirty: BOOLEAN]
Book == [Sides -> BookSide]

EmptySide == [lots |-> [i \in Index |-> 0], best |-> None, dirty |-> TRUE]

\* Default, and what clear leaves behind.
EmptyBook == [s \in Sides |-> EmptySide]

\* clear_side
ClearSide(book, side) == [book EXCEPT ![side] = EmptySide]

\* Where a price falls in the array: a negative price fails try_from, one of
\* N or more is out of range.
InRange(price) == price >= 0 /\ price < N

\* A slip in apply_delta: the cache of the side is not invalidated.
ApplyDeltaKeepsCache(book, price, qty, side) ==
    IF InRange(price) THEN [book EXCEPT ![side].lots[price] = qty] ELSE book

\* apply_delta: the quantity replaces the level's, whatever the action.
ApplyDelta(book, price, qty, side) ==
    IF InRange(price)
    THEN [book EXCEPT ![side] = [@ EXCEPT !.lots[price] = qty, !.dirty = TRUE]]
    ELSE book

\* The levels a scan stops at.
Occupied(bookside) == {i \in Index : bookside.lots[i] > 0}

\* A slip in the scans: both run upward.
ScanUpward(book, side) ==
    IF Occupied(book[side]) = {} THEN None ELSE Min(Occupied(book[side]))

\* A slip in the scans: the index after the level is cached.
ScanPastEnd(book, side) ==
    IF Occupied(book[side]) = {} THEN None ELSE 1 + Max(Occupied(book[side]))

\* Bids are scanned from the highest index down, asks from the lowest up.
Scan(book, side) ==
    LET levels == Occupied(book[side])
    IN  IF levels = {} THEN None
        ELSE IF side = "Bid" THEN Max(levels) ELSE Min(levels)

\* What best_bid (best_ask) leaves behind: the cache is rebuilt if dirty.
Refresh(book, side) ==
    IF book[side].dirty
    THEN [book EXCEPT ![side] = [@ EXCEPT !.best = Scan(book, side), !.dirty = FALSE]]
    ELSE book

\* The price best_bid (best_ask) returns.
Best(book, side) == Refresh(book, side)[side].best

\* The quantity of the level at an index.
LotsAt(book, side, i) == book[side].lots[i]

\* The bid and the ask of one book are refreshed independently.
RefreshBoth(book) == Refresh(Refresh(book, "Bid"), "Ask")

-----------------------------------------------------------------------------
(* The queries that read the levels and leave the cache alone. *)

LevelCount(book, side) == Cardinality(Occupied(book[side]))

\* depth: the first k occupied levels in the order of the scan; the n-th has
\* n - 1 others before it.
Depth(book, side, k) ==
    LET levels == Occupied(book[side])
        before(i) == {j \in levels : IF side = "Bid" THEN j > i ELSE j < i}
    IN  [n \in 1 .. Min({k, Cardinality(levels)}) |->
            CHOOSE i \in levels : Cardinality(before(i)) = n - 1]

\* total_depth: the quantity in the first k occupied levels.
TotalDepth(book, side, k) ==
    SumFunctionOnSet(book[side].lots, Range(Depth(book, side, k)))

-----------------------------------------------------------------------------
(* The reference definition of "best", independent of cache and scan. *)

IsBest(book, side, i) ==
    IF i = None
    THEN Occupied(book[side]) = {}
    ELSE /\ i \in Occupied(book[side])
         /\ \A j \in Occupied(book[side]) : IF side = "Bid" THEN j <= i ELSE i <= j

=============================================================================
