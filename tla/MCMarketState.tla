--------------------------- MODULE MCMarketState ---------------------------
(* A Polymarket instrument (1: deltas, snapshots, trades) and a Binance    *)
(* instrument (2: TopOfBook events) on one engine, and events for unknown  *)
(* instruments (0 and 3).                                                  *)
EXTENDS MarketState

\* Prices 0 and 1 are levels of the book, N lies just above it, -1 below.
Deltas ==
    {book_delta(0, 1, f, [price |-> p, qty |-> q, side |-> s,
                          action |-> IF q = 0 THEN "Delete" ELSE "Change"]) :
        f \in EventFlags, p \in Index, q \in Lots, s \in Sides}

OutOfRange ==
    {book_delta(0, 1, LAST_IN_BATCH, [price |-> p, qty |-> 1, side |-> s, action |-> "New"]) :
        p \in {-1, N}, s \in Sides}

\* Of the second one the micro price overflows.
Tobs ==
    {top_of_book(0, 2, EMPTY,
                 [price |-> [s \in Sides |-> IF s = "Bid" THEN b ELSE 1],
                  qty |-> [s \in Sides |-> IF b = 0 THEN 1 ELSE I64Max - 1]]) : b \in {0, 1}}

Strangers ==
    {book_delta(0, i, With(IS_SNAPSHOT, LAST_IN_BATCH),
                [price |-> 0, qty |-> 1, side |-> "Bid", action |-> "New"]) :
        i \in {NO_INSTRUMENT, ActiveCount + 1}}

\* The kinds that process passes over.
Others ==
    {order_ack(0, 2, EMPTY, [order |-> 1, status |-> "Accepted"]),
     order_reject(0, 2, EMPTY, [order |-> 1, reason |-> "Unknown"]),
     fill(0, 2, EMPTY, [order |-> 1, price |-> 1, qty |-> 1, side |-> "Bid"]),
     timer_event(0, NO_INSTRUMENT, EMPTY, [kind |-> "Periodic"]),
     heartbeat(0, EMPTY, [counter |-> 1])}

Trades == {trade(0, 1, LAST_IN_BATCH, [price |-> 0, qty |-> 1, aggressor |-> "Ask"])}

MCInputs == Deltas \cup OutOfRange \cup Tobs \cup Strangers \cup Others \cup Trades

=============================================================================
