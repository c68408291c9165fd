---------------------------- MODULE MarketEngine ----------------------------
(***************************************************************************)
(* What MarketStateEngine::process of crates/market-state/src/engine.rs    *)
(* does to the state of the event's instrument, and the TopOfBook that it  *)
(* emits, as operators: MarketState makes the engine and its client of     *)
(* them, Pipeline feeds them from a venue.                                 *)
(*                                                                         *)
(* Timestamps are left out, they only feed is_stale, and so is last_trade, *)
(* which only its getter reads.  A TopOfBook keeps the prices and the      *)
(* micro price, whose products and sums are not checked: in a release      *)
(* build they wrap round.                                                  *)
(***************************************************************************)
EXTENDS ArrayBook

CONSTANT I64Max       \* i64::MAX

ASSUME I64Assumption == I64Max \in Nat

Bbo == [Sides -> Index \cup {None}]
NoBbo == [s \in Sides |-> None]
TwoSided(bbo) == \A s \in Sides : bbo[s] # None

\* last_tob before the first emission; no instrument has id 0.
NoTob == [inst |-> 0, bbo |-> NoBbo, micro |-> None]

InstrumentState ==
    [book: Book, prev: Bbo, snapshot_received: BOOLEAN, in_snapshot: BOOLEAN,
     seq: Nat]

EmptyInstrument ==
    [book |-> EmptyBook, prev |-> NoBbo, snapshot_received |-> FALSE,
     in_snapshot |-> FALSE, seq |-> 0]

-----------------------------------------------------------------------------
(* check_bbo_price_change *)

\* What an i64 keeps of x, and the quotient of two of them.
AsI64(x) == ((x + I64Max + 1) % (2 * (I64Max + 1))) - (I64Max + 1)
Quotient(x, y) == IF x >= 0 THEN x \div y ELSE -((-x) \div y)

\* The best prices weighted with the quantities of the other side, and the
\* total weight, before they are cut to an i64.
Weighted(book, bbo) ==
    bbo["Bid"] * LotsAt(book, "Ask", bbo["Ask"]) + bbo["Ask"] * LotsAt(book, "Bid", bbo["Bid"])
Weight(book, bbo) == LotsAt(book, "Bid", bbo["Bid"]) + LotsAt(book, "Ask", bbo["Ask"])

\* Volume-weighted mid, or the plain one if the total is not positive, which
\* takes an overflow: both quantities are.
Micro(book, bbo) ==
    LET total == AsI64(Weight(book, bbo))
    IN  IF total > 0 THEN Quotient(AsI64(Weighted(book, bbo)), total)
                     ELSE (bbo["Bid"] + bbo["Ask"]) \div 2

\* A slip in check_bbo_price_change: one unchanged side is enough to return.
SamePricesEither(bbo, prev) == \E s \in Sides : bbo[s] = prev[s]

\* Neither best price moved since the last check.
SamePrices(bbo, prev) == \A s \in Sides : bbo[s] = prev[s]

\* The state check_bbo_price_change leaves and the TopOfBook it returns: both
\* caches are refreshed, the prices become the previous observation, and a
\* TopOfBook is returned only for a two-sided book.
CheckBbo(i, st) ==
    LET book == RefreshBoth(st.book)
        bbo  == [s \in Sides |-> book[s].best]
    IN  [state |-> [st EXCEPT !.book = book, !.prev = bbo],
         tob   |-> IF SamePrices(bbo, st.prev) \/ ~TwoSided(bbo) THEN NoTob
                   ELSE [inst |-> i, bbo |-> bbo, micro |-> Micro(book, bbo)]]

-----------------------------------------------------------------------------
(* process *)

\* A slip in process: only the first snapshot event of a batch clears, but a
\* batch whose end was lost never ends.
BeginSnapshotOnce(st, e) ==
    IF HasFlags(e.header.flags, IS_SNAPSHOT) /\ ~st.in_snapshot
    THEN [st EXCEPT !.book = EmptyBook, !.in_snapshot = TRUE, !.snapshot_received = FALSE]
    ELSE st

\* IS_SNAPSHOT clears the book and restarts the snapshot.
BeginSnapshot(st, e) ==
    IF HasFlags(e.header.flags, IS_SNAPSHOT)
    THEN [st EXCEPT !.book = EmptyBook, !.in_snapshot = TRUE, !.snapshot_received = FALSE]
    ELSE st

\* A slip in process: the BBO is checked before any snapshot has completed.
EndBatchUnready(i, st, e) ==
    IF HasFlags(e.header.flags, LAST_IN_BATCH)
    THEN CheckBbo(i, [st EXCEPT !.in_snapshot = FALSE,
                                !.snapshot_received = @ \/ st.in_snapshot])
    ELSE [state |-> st, tob |-> NoTob]

\* LAST_IN_BATCH completes a snapshot and, once one has completed, checks
\* the BBO.
EndBatch(i, st, e) ==
    LET done == [st EXCEPT !.in_snapshot = FALSE,
                           !.snapshot_received = @ \/ st.in_snapshot]
    IN  IF ~HasFlags(e.header.flags, LAST_IN_BATCH) THEN [state |-> st, tob |-> NoTob]
        ELSE IF done.snapshot_received THEN CheckBbo(i, done)
        ELSE [state |-> done, tob |-> NoTob]

OnBookDelta(i, st, e) ==
    LET delta   == e.body.payload
        begun   == BeginSnapshot([st EXCEPT !.seq = e.header.seq], e)
        applied == [begun EXCEPT !.book = ApplyDelta(@, delta.price, delta.qty, delta.side)]
    IN  EndBatch(i, applied, e)

\* A trade is kept in last_trade, which only its getter reads: nothing else of
\* the instrument changes, not even seq.
OnTrade(i, st, e) == [state |-> st, tob |-> NoTob]

\* A TopOfBook event replaces the book by one level per side.
OnTopOfBook(i, st, e) ==
    LET tob  == e.body.payload
        book == ApplyDelta(ApplyDelta(EmptyBook, tob.price["Bid"], tob.qty["Bid"], "Bid"),
                           tob.price["Ask"], tob.qty["Ask"], "Ask")
    IN  CheckBbo(i, [st EXCEPT !.snapshot_received = TRUE, !.book = book])

\* What processing an event does to its instrument.
Handled(i, st, e) ==
    CASE EventKind(e) = "BookDelta" -> OnBookDelta(i, st, e)
      [] EventKind(e) = "Trade"     -> OnTrade(i, st, e)
      [] EventKind(e) = "TopOfBook" -> OnTopOfBook(i, st, e)
      [] OTHER                      -> [state |-> st, tob |-> NoTob]

=============================================================================
