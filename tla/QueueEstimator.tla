--------------------------- MODULE QueueEstimator ---------------------------
(***************************************************************************)
(* crates/strategy/src/queue.rs: the estimate of how many lots are ahead   *)
(* of our resting orders, against price levels that fill first in, first   *)
(* out.                                                                    *)
(*                                                                         *)
(* The levels are external.  Trades and changes of a level's size reach    *)
(* the estimator as they happen; a fill of our own order is reported later *)
(* (order_filled).  A change of size is reported for additions and         *)
(* cancellations, a trade as a trade.                                      *)
(*                                                                         *)
(* prob_power_n is an integer here (its default is 3.0).  A quotient that  *)
(* is an integer may come out one lower: it is computed in f64 and then    *)
(* truncated.  A take rate, an f64 average, is the set of the instruments  *)
(* and sides whose trades it averages.  fill_probability is not modelled.  *)
(***************************************************************************)
EXTENDS Integers, FiniteSetsExt, Functions

CONSTANTS MaxQueued,      \* MAX_QUEUED_ORDERS
          MaxRates,       \* MAX_RATE_INSTRUMENTS
          ProbPowerN,     \* prob_power_n
          Levels,         \* the (instrument, side, price) of our orders
          QueueIds,       \* bound: our orders
          MaxLots,        \* bound: lots at all levels together
          MaxTrade        \* bound: lots of one trade

VARIABLES
    queued,         \* QueueEstimator::orders
    order_count,
    take_rates,     \* take_rates_bid, take_rates_ask
    resting,        \* our orders at the venue: level, lots ahead, lots left
    fills,          \* per order, lots filled and not yet reported
    total,          \* lots at each level
    cancelled       \* per order, lots cancelled at its level since (history)

estimator == <<queued, order_count, take_rates>>
market == <<resting, fills, total, cancelled>>
queueVars == <<estimator, market>>

QueueSlots == 1 .. MaxQueued
RateSlots == 1 .. MaxRates
BookSides == {"Bid", "Ask"}
NoLevel == [instrument |-> 0, side |-> "Bid", price |-> 0]

\* The number 0 stands for None in a slot: no instrument and no order has it.
ASSUME QueueAssumption ==
    /\ MaxQueued \in Nat /\ MaxRates \in Nat \ {0} /\ ProbPowerN \in Nat
    /\ MaxLots \in Nat /\ MaxTrade \in Nat
    /\ QueueIds \subseteq Nat \ {0}
    /\ IsFiniteSet(Levels)
    /\ Levels \subseteq [instrument: Nat \ {0}, side: BookSides, price: Int]

\* A QueuedOrder, a TakeRateEntry, and the empty slots.
NotQueued == [id |-> 0, level |-> NoLevel, qty |-> 0, ahead_qty |-> 0]
NoRate == [instrument |-> 0, mix |-> {}]

\* Our order at the venue.
Unsent == [status |-> "unsent", level |-> NoLevel, ahead |-> 0, left |-> 0]
Done == [Unsent EXCEPT !.status = "done"]
RestingAt(l) == {id \in QueueIds : resting[id].status = "resting" /\ resting[id].level = l}

\* Lots at all levels.
Everywhere == SumFunction(total)

Lower(a, b) == IF a < b THEN a ELSE b
Positive(x) == IF x < 0 THEN 0 ELSE x

QueueInit ==
    /\ queued = [s \in QueueSlots |-> NotQueued]
    /\ order_count = 0
    /\ take_rates = [side \in BookSides |-> [s \in RateSlots |-> NoRate]]
    /\ resting = [id \in QueueIds |-> Unsent]
    /\ fills = [id \in QueueIds |-> 0]
    /\ total = [l \in Levels |-> 0]
    /\ cancelled = [id \in QueueIds |-> 0]

-----------------------------------------------------------------------------
(* QueueEstimator *)

QueueFree == {s \in QueueSlots : queued[s] = NotQueued}
Tracking(id) == {s \in QueueSlots : queued[s].id = id}

\* register_order; QueueFullError leaves everything as it is.
RegisterOrder(id, l, lots, current_level_size) ==
    IF QueueFree = {} THEN UNCHANGED <<queued, order_count>>
    ELSE /\ queued' = [queued EXCEPT ![Min(QueueFree)] =
                          [id |-> id, level |-> l, qty |-> lots,
                           ahead_qty |-> current_level_size]]
         /\ order_count' = order_count + 1

\* remove_order, which is all that order_cancelled does.
RemoveOrder(id) ==
    IF Tracking(id) = {} THEN UNCHANGED <<queued, order_count>>
    ELSE /\ queued' = [queued EXCEPT ![Min(Tracking(id))] = NotQueued]
         /\ order_count' = Positive(order_count - 1)

\* A slip in order_filled: an order filled to the last lot is kept.
OrderFilledKeepsLast(id, fill_qty) ==
    /\ queued' = [s \in QueueSlots |->
                     IF queued[s].id = id
                     THEN [queued[s] EXCEPT !.qty = Positive(@ - fill_qty), !.ahead_qty = 0]
                     ELSE queued[s]]
    /\ UNCHANGED order_count

\* order_filled: a partial fill means that nothing is ahead any more.
OrderFilled(id, fill_qty) ==
    LET s == Min(Tracking(id))
    IN  IF Tracking(id) # {} /\ queued[s].qty > fill_qty
        THEN /\ queued' = [queued EXCEPT ![s].qty = @ - fill_qty, ![s].ahead_qty = 0]
             /\ UNCHANGED order_count
        ELSE RemoveOrder(id)

\* update_take_rate: the entry of the instrument, else the first empty slot,
\* else the first slot.
RateSlot(rates, instrument) ==
    LET own   == {s \in RateSlots : rates[s].instrument = instrument}
        empty == {s \in RateSlots : rates[s] = NoRate}
    IN  IF own # {} THEN Min(own) ELSE IF empty # {} THEN Min(empty) ELSE 1

\* A slip in update_take_rate: the average carries on over another entry.
MixedRateCarriesOn(rates, instrument, side) ==
    [rates EXCEPT ![RateSlot(rates, instrument)] =
        [instrument |-> instrument, mix |-> @.mix \cup {<<instrument, side>>}]]

MixedRate(rates, instrument, side) ==
    [rates EXCEPT ![RateSlot(rates, instrument)] =
        [instrument |-> instrument,
         mix |-> {<<instrument, side>>} \cup (IF @.instrument = instrument THEN @.mix ELSE {})]]

\* on_trade: trades consume the queue from the front.
OnTrade(l, lots) ==
    /\ take_rates' = [take_rates EXCEPT ![l.side] = MixedRate(@, l.instrument, l.side)]
    /\ queued' = [s \in QueueSlots |->
                     IF queued[s].level = l
                     THEN [queued[s] EXCEPT !.ahead_qty = @ - Lower(lots, @)]
                     ELSE queued[s]]

Powers(x) ==
    LET power[k \in 0 .. ProbPowerN] == IF k = 0 THEN 1 ELSE x * power[k - 1] IN power

(***************************************************************************)
(* The lots that on_level_change attributes to the front of an order: the  *)
(* part decrease * front^n / (back^n + front^n), cut off.  back is less    *)
(* than 0 when the estimate exceeds the level.  An f64 quotient that ought *)
(* to be an integer comes out lower if low says so.                        *)
(***************************************************************************)
CancelLots(front, old_qty, decrease, low) ==
    LET f == Powers(front)[ProbPowerN]
        b == Powers(old_qty - front)[ProbPowerN]
        n == decrease * f
    IN  n \div (b + f) - (IF low /\ f # 0 /\ b # 0 /\ n % (b + f) = 0 THEN 1 ELSE 0)

\* A slip in on_level_change: a level that grows is not left out.
OnLevelChangeBothWays(l, old_qty, new_qty) ==
    queued' = [s \in QueueSlots |->
                  IF queued[s].level = l /\ old_qty > 0
                  THEN [queued[s] EXCEPT !.ahead_qty = Positive(@ - (old_qty - new_qty))]
                  ELSE queued[s]]

\* on_level_change; only a decrease matters.
OnLevelChange(l, old_qty, new_qty) ==
    IF new_qty >= old_qty THEN UNCHANGED queued
    ELSE \E low \in SUBSET {s \in QueueSlots : queued[s].level = l} :
            queued' = [s \in QueueSlots |->
                IF queued[s].level = l
                THEN [queued[s] EXCEPT !.ahead_qty =
                         Positive(@ - CancelLots(@, old_qty, old_qty - new_qty, s \in low))]
                ELSE queued[s]]

-----------------------------------------------------------------------------
(* The market, which calls the estimator *)

\* Offsets in the queue of level l that belong to our own orders.
OwnOffsets(l) ==
    UNION {resting[id].ahead .. resting[id].ahead + resting[id].left - 1 : id \in RestingAt(l)}

\* Lots that leave the queue of level l before the orders behind offset p.
Closer(l, p, lots) ==
    [id \in QueueIds |-> IF id \in RestingAt(l) /\ resting[id].ahead > p
                         THEN [resting[id] EXCEPT !.ahead = @ - lots] ELSE resting[id]]

\* cancelled counts up to MaxLots, which no estimate exceeds.
CountCancelled(l, lots) ==
    cancelled' = [id \in QueueIds |-> IF id \in RestingAt(l)
                                      THEN Lower(cancelled[id] + lots, MaxLots)
                                      ELSE cancelled[id]]

PostOrder(id, l, lots) ==
    /\ resting[id] = Unsent /\ \A k \in QueueIds : k < id => resting[k] # Unsent
    /\ Everywhere + lots <= MaxLots
    /\ resting' = [resting EXCEPT ![id] = [status |-> "resting", level |-> l,
                                           ahead |-> total[l], left |-> lots]]
    /\ total' = [total EXCEPT ![l] = @ + lots]
    /\ RegisterOrder(id, l, lots, total[l])
    /\ UNCHANGED <<take_rates, fills, cancelled>>

\* Others add to the level.
LevelGrows(l, lots) ==
    /\ Everywhere + lots <= MaxLots
    /\ total' = [total EXCEPT ![l] = @ + lots]
    /\ OnLevelChange(l, total[l], total[l] + lots)
    /\ UNCHANGED <<order_count, take_rates, resting, fills, cancelled>>

\* Others cancel the lots at offsets p, p + 1, ... of the level.
LevelShrinks(l, p, lots) ==
    /\ p + lots <= total[l] /\ (p .. p + lots - 1) \cap OwnOffsets(l) = {}
    /\ total' = [total EXCEPT ![l] = @ - lots]
    /\ resting' = Closer(l, p, lots)
    /\ CountCancelled(l, lots)
    /\ OnLevelChange(l, total[l], total[l] - lots)
    /\ UNCHANGED <<order_count, take_rates, fills>>

\* A trade takes lots from the front of the level.
TradeAt(l, lots) ==
    LET Filled(id) == IF id \in RestingAt(l)
                      THEN Lower(resting[id].left, Positive(lots - resting[id].ahead)) ELSE 0
    IN  /\ lots <= total[l]
        /\ total' = [total EXCEPT ![l] = @ - lots]
        /\ resting' = [id \in QueueIds |->
               IF id \notin RestingAt(l) THEN resting[id]
               ELSE IF Filled(id) = resting[id].left THEN Done
               ELSE [resting[id] EXCEPT !.ahead = Positive(@ - lots), !.left = @ - Filled(id)]]
        /\ fills' = [id \in QueueIds |-> fills[id] + Filled(id)]
        /\ OnTrade(l, lots)
        /\ UNCHANGED <<order_count, cancelled>>

\* The fills of an order so far are reported.
ReportFill(id) ==
    /\ fills[id] > 0
    /\ fills' = [fills EXCEPT ![id] = 0]
    /\ cancelled' = [cancelled EXCEPT ![id] = IF resting[id] = Done THEN 0 ELSE @]
    /\ OrderFilled(id, fills[id])
    /\ UNCHANGED <<take_rates, resting, total>>

\* The venue cancels an order of ours.
CancelOrder(id) ==
    LET l    == resting[id].level
        left == resting[id].left
    IN  /\ resting[id].status = "resting"
        /\ total' = [total EXCEPT ![l] = @ - left]
        /\ resting' = [Closer(l, resting[id].ahead, left) EXCEPT ![id].status = "cancelled"]
        /\ CountCancelled(l, left)
        /\ OnLevelChange(l, total[l], total[l] - left)
        /\ UNCHANGED <<order_count, take_rates, fills>>

\* order_cancelled, reported after the order's fills.
ReportCancel(id) ==
    /\ resting[id].status = "cancelled" /\ fills[id] = 0
    /\ resting' = [resting EXCEPT ![id] = Done]
    /\ cancelled' = [cancelled EXCEPT ![id] = 0]
    /\ RemoveOrder(id)
    /\ UNCHANGED <<take_rates, fills, total>>

QueueNext ==
    \/ \E id \in QueueIds, l \in Levels, lots \in 1 .. MaxTrade : PostOrder(id, l, lots)
    \/ \E l \in Levels, lots \in 1 .. MaxTrade : LevelGrows(l, lots) \/ TradeAt(l, lots)
    \/ \E l \in Levels, p \in 0 .. MaxLots, lots \in 1 .. MaxLots : LevelShrinks(l, p, lots)
    \/ \E id \in QueueIds : ReportFill(id) \/ CancelOrder(id) \/ ReportCancel(id)

QueueSpec == QueueInit /\ [][QueueNext]_queueVars

-----------------------------------------------------------------------------
(* Properties *)

Apart(a, b) == IF a < b THEN b - a ELSE a - b

\* Trades, fills reported late and changes of our other orders never spoil
\* the estimate: it is off by no more than the lots that were cancelled at the
\* level since the order was posted, the only part that is guessed.
DriftBounded ==
    \A s \in QueueSlots :
        LET o == queued[s] IN
        (o # NotQueued /\ resting[o.id].status # "cancelled") =>
            Apart(o.ahead_qty, resting[o.id].ahead) <= cancelled[o.id]

\* Slots do not leak and none is lost: order_count is the number of slots in
\* use, and a slot is in use only for an order that still rests, or of which
\* a fill or the cancellation is still to be reported, with the lots left.
TrackedExact ==
    /\ order_count = Cardinality(QueueSlots \ QueueFree)
    /\ \A s \in QueueSlots :
          LET o == queued[s] IN
          o # NotQueued => /\ resting[o.id].status # "done" \/ fills[o.id] > 0
                           /\ o.qty = resting[o.id].left + fills[o.id]

\* A take rate averages only the trades of its own instrument and side, even
\* when the table is full and entries are overwritten; no instrument has two.
RatesIsolated ==
    \A side \in BookSides, s \in RateSlots :
        LET e == take_rates[side][s] IN
        e # NoRate => /\ e.mix = {<<e.instrument, side>>}
                      /\ \A t \in RateSlots \ {s} : take_rates[side][t].instrument # e.instrument

=============================================================================
